-------------------------- MODULE RedisStoreProofs ---------------------------
(***************************************************************************)
(* Proofs about the Redis store for any number of tickets, processes and   *)
(* calls: processes whose clocks disagree agree on expiry, a refusal was   *)
(* right at some moment of its call, and, when the client sends no command *)
(* twice, the keys last and the round trips of all calls together          *)
(* implement TicketContract.                                               *)
(***************************************************************************)
EXTENDS RedisStoreProperties, SequenceTheorems, TLAPS

(* The types of all but the memo and the history of right answers, which   *)
(* nothing below reads.                                                    *)
Typed ==
  /\ clock \in 0..MaxClock
  /\ records \in [Layouts -> [Tickets -> Slot]]
  /\ deadline \in [Layouts -> [Tickets -> Nat]]
  /\ index \in [Layouts -> [Tickets -> Nat]]
  /\ pc \in [Callers -> {"idle", "write", "index", "script", "oldindex", "oldscript", "locate",
                         "act", "look", "delete", "unindex"}]
  /\ call \in [Callers -> Call]
  /\ minted \subseteq Tickets
  /\ issued \subseteq minted
  /\ uploading \subseteq Processes \X Tickets
  /\ born \in [Tickets -> Nat \cup {-1}]
  /\ won \in [Tickets -> SUBSET Callers]
  /\ took \in [Tickets -> SUBSET Callers]

(* A call is at a round trip of its operation.                             *)
Placed(c) ==
  /\ pc[c] # "idle" => call[c].ticket \in Tickets /\ call[c].answer = "none"
  /\ pc[c] \in {"write", "index"} => call[c].op = "put" /\ call[c].ticket \in minted
  /\ pc[c] \in {"script", "oldindex", "oldscript"} => call[c].op = "redeem"
  /\ pc[c] \in {"locate", "act"} => call[c].op \in {"finish", "claim"}
  /\ pc[c] \in {"look", "delete", "unindex"} => call[c].op = "sweep"
AllPlaced == \A c \in Callers : Placed(c)

(* A ticket is put by one call, so its record is in one layout.            *)
Puts(c, t) == pc[c] \in {"write", "index"} /\ call[c].ticket = t
OnePut == \A t \in Tickets, c, d \in Callers : Puts(c, t) /\ Puts(d, t) => c = d
Home ==
  \A t \in Tickets :
    /\ \A l, m \in Layouts : Present(records[l][t]) /\ Present(records[m][t]) => l = m
    /\ \A l \in Layouts : Present(records[l][t]) => t \in minted
    /\ \A l \in Layouts, c \in Callers : Puts(c, t) /\ Present(records[l][t]) => l = LayoutOf(c[1])

IInv == Typed /\ AllPlaced /\ OnePut /\ Home

----------------------------------------------------------------------------
(* What holds besides when no command is sent twice.                       *)

(* Until its record is written, nothing is known of a ticket.              *)
Fresh(t) == /\ born[t] = -1 /\ won[t] = {} /\ took[t] = {}
            /\ \A l \in Layouts : ~Present(records[l][t]) /\ deadline[l][t] = 0
Unindexed(t) == \A l \in Layouts : index[l][t] = 0
Once ==
  /\ \A t \in Tickets : born[t] = -1 => Fresh(t)
  /\ \A t \in Tickets \ minted : born[t] = -1 /\ Unindexed(t)
  /\ \A c \in Callers : pc[c] = "write" => born[call[c].ticket] = -1 /\ Unindexed(call[c].ticket)

(* What is past does not come back.                                        *)
Past ==
  \A t \in Tickets, l \in Layouts :
    /\ won[t] # {} => records[l][t].status # "issued"
    /\ took[t] # {} => records[l][t].status \in {"claimed", "absent"}

(* Who may end the record of a ticket: the process that redeemed it, then  *)
(* its call that finishes.                                                 *)
Holds(c, t) == pc[c] \in {"locate", "act"} /\ call[c].op = "finish" /\ call[c].ticket = t
Unended(t) == won[t] # {} /\ \A l \in Layouts : records[l][t].status \in {"redeemed", "absent"}
Holding ==
  /\ \A t \in Tickets, c \in Callers : Holds(c, t) =>
       /\ Unended(t)
       /\ \A d \in Callers : Holds(d, t) => d = c
       /\ \A p \in Processes : <<p, t>> \notin uploading
  /\ \A t \in Tickets, p \in Processes : <<p, t>> \in uploading =>
       /\ Unended(t)
       /\ \A q \in Processes : <<q, t>> \in uploading => q = p

(* Keys last from the writing of the record.                               *)
Lasting ==
  \A t \in Tickets, l \in Layouts :
    /\ born[t] <= clock
    /\ deadline[l][t] <= MaxClock + Retention
    /\ deadline[l][t] # 0 => deadline[l][t] >= born[t] + Retention
    /\ index[l][t] # 0 => index[l][t] >= born[t] + Retention

OnceInv == IInv /\ Once /\ Past /\ Holding

----------------------------------------------------------------------------
(* Calls: a step is one caller's, or a crash, or nothing the calls see.    *)
Mine(c) == \A d \in Callers \ {c} : pc'[d] = pc[d] /\ call'[d] = call[d]
CallsTyped ==
  /\ pc' \in [Callers -> {"idle", "write", "index", "script", "oldindex", "oldscript", "locate",
                          "act", "look", "delete", "unindex"}]
  /\ call' \in [Callers -> Call]
Onward(c) ==
  /\ call'[c].answer = call[c].answer /\ call'[c].now = call[c].now
  /\ pc[c] # "locate" => call'[c].at = call[c].at
  /\ \/ pc'[c] = pc[c] /\ Resends
     \/ pc[c] = "write" /\ pc'[c] = "index"
     \/ pc[c] = "index" /\ pc'[c] = "write" /\ Resends
     \/ pc[c] = "script" /\ pc'[c] = "oldindex"
     \/ pc[c] = "oldindex" /\ pc'[c] = "oldscript"
     \/ pc[c] = "locate" /\ pc'[c] = "act"
     \/ pc[c] = "look" /\ pc'[c] = "delete"
     \/ pc[c] = "delete" /\ pc'[c] = "unindex"
Moves(c) ==
  /\ pc[c] # "idle" /\ Mine(c) /\ CallsTyped
  /\ call'[c].op = call[c].op /\ call'[c].ticket = call[c].ticket
  /\ pc'[c] = "idle" \/ Onward(c)

LEMMA Constants ==
  /\ Skew \in Nat /\ Ttl \in Nat /\ Retention \in Nat /\ MaxClock \in Nat
  /\ Resends \in BOOLEAN /\ ServerClock \in BOOLEAN
  /\ \A c \in Callers : c[1] \in Processes /\ LayoutOf(c[1]) \in Layouts
BY RedisAssumption DEF RedisAssumption, Callers, LayoutOf, Layouts

(* A write under one key leaves the others.                                *)
LEMMA OneKey ==
  ASSUME NEW S, NEW f \in [Layouts -> [Tickets -> S]], NEW a \in Layouts, NEW b \in Tickets,
         NEW v \in S
  PROVE  /\ [f EXCEPT ![a][b] = v] \in [Layouts -> [Tickets -> S]]
         /\ \A l \in Layouts, t \in Tickets :
              [f EXCEPT ![a][b] = v][l][t] = IF l = a /\ t = b THEN v ELSE f[l][t]
<1> DEFINE g == [f EXCEPT ![a][b] = v]
<1>1. g = [l \in Layouts |-> IF l = a THEN [f[a] EXCEPT ![b] = v] ELSE f[l]]
  OBVIOUS
<1>2. [f[a] EXCEPT ![b] = v] = [t \in Tickets |-> IF t = b THEN v ELSE f[a][t]]
  OBVIOUS
<1>3. \A l \in Layouts : g[l] = IF l = a THEN [t \in Tickets |-> IF t = b THEN v ELSE f[a][t]] ELSE f[l]
  BY <1>1, <1>2
<1>4. \A l \in Layouts : g[l] \in [Tickets -> S]
  BY <1>3
<1>5. g \in [Layouts -> [Tickets -> S]]
  BY <1>1, <1>4
<1>6. \A l \in Layouts, t \in Tickets : g[l][t] = IF l = a /\ t = b THEN v ELSE f[l][t]
  BY <1>3
<1> QED BY <1>5, <1>6

LEMMA EndsMoves ==
  ASSUME Typed, NEW c \in Callers, NEW a \in Answers, pc[c] # "idle", Ends(c, a)
  PROVE  Moves(c) /\ pc'[c] = "idle" /\ call'[c].answer = a
<1>1. [NoCall EXCEPT !.op = call[c].op, !.ticket = call[c].ticket, !.answer = a] \in Call
  BY DEF Typed, Call, NoCall, Layouts
<1>2. CallsTyped
  BY <1>1 DEF Ends, Typed, CallsTyped
<1>3. Mine(c) /\ pc'[c] = "idle"
  BY DEF Ends, Typed, Mine
<1>4. call'[c] = [NoCall EXCEPT !.op = call[c].op, !.ticket = call[c].ticket, !.answer = a]
  BY DEF Ends, Typed
<1>5. call'[c].answer = a /\ call'[c].op = call[c].op /\ call'[c].ticket = call[c].ticket
  BY <1>4 DEF NoCall
<1> QED BY <1>2, <1>3, <1>5 DEF Moves

LEMMA ReplyMoves ==
  ASSUME Typed, NEW c \in Callers, NEW a \in Answers, pc[c] # "idle", Reply(c, a)
  PROVE  Moves(c) /\ (pc'[c] = "idle" \/ UNCHANGED callVars)
<1>1. "raised" \in Answers
  BY DEF Answers
<1>2. CASE Ends(c, a) \/ Ends(c, "raised")
  BY <1>1, <1>2, EndsMoves
<1>3. CASE Resends /\ UNCHANGED callVars
  BY <1>3 DEF Moves, Mine, CallsTyped, Onward, callVars, Typed
<1> QED BY <1>2, <1>3 DEF Reply

LEMMA GoesMoves ==
  ASSUME Typed, NEW c \in Callers, NEW trip, Goes(c, trip),
         \/ pc[c] = "script" /\ trip = "oldindex"
         \/ pc[c] = "oldindex" /\ trip = "oldscript"
         \/ pc[c] = "look" /\ trip = "delete"
         \/ pc[c] = "delete" /\ trip = "unindex"
  PROVE  Moves(c)
BY DEF Goes, Moves, Mine, CallsTyped, Onward, Typed

----------------------------------------------------------------------------
(* Records: a step is one write of one call, or records are as they were   *)
(* and keys can only go.                                                   *)
Fade ==
  /\ records' = records /\ UNCHANGED historyVars /\ clock' \in {clock, clock + 1}
  /\ deadline' \in [Layouts -> [Tickets -> Nat]]
  /\ \A l \in Layouts, t \in Tickets : deadline'[l][t] \in {deadline[l][t], 0}
Written(l, t, rec) ==
  /\ Present(Under(l, t)) /\ records' = [records EXCEPT ![l][t] = rec]
  /\ UNCHANGED <<clock, deadline, born>>
Borne(c) ==
  LET t == call[c].ticket
      l == LayoutOf(c[1])
  IN
  /\ pc[c] = "write" /\ pc'[c] = "index"
  /\ records' = [records EXCEPT ![l][t] = NewRecord(Nobody, call[c].now, Ttl, Retention)]
  /\ deadline' = [deadline EXCEPT ![l][t] = clock + KeyTtl]
  /\ born' = [born EXCEPT ![t] = clock]
  /\ UNCHANGED <<clock, won, took, uploading>>
Spent(c, l) ==
  LET t == call[c].ticket IN
  /\ pc[c] \in {"script", "oldscript"}
  /\ records[l][t].status = "issued" /\ ~Expired(records[l][t], Judged(c))
  /\ Written(l, t, Redeemed(records[l][t], call[c].now))
  /\ won' = [won EXCEPT ![t] = @ \cup {c}] /\ took' = took
  /\ uploading' \in {uploading, uploading \cup {<<c[1], t>>}}
Ended(c, l) ==
  LET t == call[c].ticket IN
  /\ pc[c] = "act" /\ Holds(c, t)
  /\ Written(l, t, Finished(records[l][t], call[c].ending))
  /\ UNCHANGED <<won, took, uploading>>
Taken(c, l) ==
  LET t == call[c].ticket IN
  /\ pc[c] = "act" /\ records[l][t].status = "completed"
  /\ Written(l, t, Claimed(records[l][t]))
  /\ took' = [took EXCEPT ![t] = @ \cup {c}] /\ UNCHANGED <<won, uploading>>
Wrote(c) == Borne(c) \/ \E l \in Layouts : Spent(c, l) \/ Ended(c, l) \/ Taken(c, l)

(* Index keys are made by a put, and go.                                   *)
IndexMove(c) ==
  \/ /\ pc[c] = "index"
     /\ index' = [index EXCEPT ![LayoutOf(c[1])][call[c].ticket] = clock + KeyTtl]
  \/ /\ index' \in [Layouts -> [Tickets -> Nat]]
     /\ \A l \in Layouts, t \in Tickets : index'[l][t] \in {index[l][t], 0}

LEMMA Stays ==
  ASSUME Typed
  PROVE  /\ UNCHANGED <<clock, records, deadline, historyVars>> => Fade
         /\ index' = index => \A c \in Callers : IndexMove(c)
<1>1. deadline \in [Layouts -> [Tickets -> Nat]] /\ index \in [Layouts -> [Tickets -> Nat]]
  BY DEF Typed
<1> QED BY <1>1 DEF Fade, IndexMove

LEMMA WrittenKey ==
  ASSUME Typed, NEW l \in Layouts, NEW t \in Tickets, NEW rec,
         Present(Under(l, t)), WriteKey(l, t, rec), UNCHANGED <<clock, born>>
  PROVE  Written(l, t, rec)
<1>1. clock < deadline[l][t]
  BY DEF Under, NoRecord, Present
<1>2. deadline' = [deadline EXCEPT ![l][t] = deadline[l][t]]
  BY <1>1 DEF WriteKey
<1>3. [deadline EXCEPT ![l][t] = deadline[l][t]] = deadline
  BY DEF Typed
<1> QED BY <1>2, <1>3 DEF Written, WriteKey

LEMMA Found ==
  ASSUME NEW l \in Layouts, NEW t \in Tickets, Present(Under(l, t))
  PROVE  Under(l, t) = records[l][t] /\ clock < deadline[l][t]
BY DEF Under, NoRecord, Present

LEMMA RedeemAtIs ==
  ASSUME Typed, NEW c \in Callers, Placed(c), NEW l \in Layouts,
         pc[c] \in {"script", "oldscript"}, RedeemAt(c, l)
  PROVE  /\ Moves(c) /\ ((Fade /\ uploading' = uploading) \/ Spent(c, l)) /\ clock' = clock
         /\ UNCHANGED <<index, minted, issued>>
<1> DEFINE t == call[c].ticket
           result == RedeemScript(c, l)
<1>1. t \in Tickets /\ result \in Answers /\ pc[c] # "idle"
  BY DEF Placed, RedeemScript, Answers
<1>2. Reply(c, result) /\ UNCHANGED <<clock, index, minted, issued, born, took>>
  BY DEF RedeemAt
<1>3. Moves(c)
  BY <1>1, <1>2, ReplyMoves
<1>4. CASE result = "redeemed"
  <2>1. /\ Present(Under(l, t)) /\ Under(l, t).status = "issued"
        /\ ~Expired(Under(l, t), Judged(c))
    BY <1>4 DEF RedeemScript
  <2>2. Under(l, t) = records[l][t]
    BY <1>1, <2>1, Found
  <2>3. WriteKey(l, t, Redeemed(records[l][t], call[c].now)) /\ won' = [won EXCEPT ![t] = @ \cup {c}]
    BY <1>4 DEF RedeemAt
  <2>4. Written(l, t, Redeemed(records[l][t], call[c].now))
    BY <1>1, <1>2, <2>1, <2>3, WrittenKey
  <2>5. uploading' \in {uploading, uploading \cup {<<c[1], t>>}}
    BY DEF RedeemAt
  <2> QED BY <1>2, <1>3, <2>1, <2>2, <2>3, <2>4, <2>5 DEF Spent
<1>5. CASE result # "redeemed"
  <2>1. UNCHANGED <<records, deadline, won>>
    BY <1>5 DEF RedeemAt
  <2>2. call'[c].answer # "redeemed" \/ UNCHANGED callVars
    <3>1. CASE Ends(c, result)
      BY <1>1, <1>5, <3>1, EndsMoves
    <3>2. CASE Ends(c, "raised")
      <4>1. "raised" \in Answers
        BY DEF Answers
      <4> QED BY <1>1, <3>2, <4>1, EndsMoves
    <3> QED BY <1>2, <3>1, <3>2 DEF Reply
  <2>3. uploading' = uploading
    BY <1>1, <2>2 DEF RedeemAt, Placed, callVars
  <2> QED BY <1>2, <1>3, <2>1, <2>3, Stays DEF historyVars
<1> QED BY <1>2, <1>4, <1>5

Advance(c) ==
  /\ Moves(c) /\ clock' = clock /\ minted' = minted /\ issued' \subseteq minted
  /\ IndexMove(c)
  /\ (Fade /\ uploading' = uploading) \/ Wrote(c)

LEMMA PutSteps ==
  ASSUME Typed, NEW c \in Callers, Placed(c), PutRecord(c) \/ PutIndex(c)
  PROVE  Advance(c)
<1> DEFINE t == call[c].ticket
           l == LayoutOf(c[1])
<1>1. pc[c] # "idle" /\ t \in Tickets /\ l \in Layouts /\ t \in minted /\ issued \subseteq minted
  BY Constants DEF PutRecord, PutIndex, Placed, Typed
<1>2. [call[c] EXCEPT !.broken = TRUE] \in Call /\ [call[c] EXCEPT !.broken = FALSE] \in Call
  BY DEF Typed, Call
<1>3. CASE PutRecord(c)
  <2>1. pc[c] = "write" /\ pc' = [pc EXCEPT ![c] = "index"]
    BY <1>3 DEF PutRecord
  <2>2. call' = call \/ call' = [call EXCEPT ![c] = [call[c] EXCEPT !.broken = TRUE]]
    BY <1>3 DEF PutRecord
  <2>3. call' \in [Callers -> Call] /\ call'[c].op = call[c].op /\ call'[c].ticket = t
        /\ UNCHANGED <<call[c].answer, call[c].now, call[c].at>>
    <3>1. call' \in [Callers -> Call]
      BY <1>2, <2>2 DEF Typed
    <3>2. call[c] \in Call /\ call'[c] \in {call[c], [call[c] EXCEPT !.broken = TRUE]}
      BY <2>2 DEF Typed
    <3> QED BY <3>1, <3>2 DEF Call
  <2>4. Moves(c)
    <3>1. pc' \in [Callers -> {"idle", "write", "index", "script", "oldindex", "oldscript", "locate",
                               "act", "look", "delete", "unindex"}] /\ pc'[c] = "index"
      BY <2>1 DEF Typed
    <3>2. Mine(c)
      BY <2>1, <2>2 DEF Mine, Typed
    <3> QED BY <2>1, <2>3, <3>1, <3>2 DEF Moves, CallsTyped, Onward
  <2>5. UNCHANGED <<clock, index, minted, issued, uploading, won, took>>
    BY <1>3 DEF PutRecord, callerVars
  <2>6. (Fade /\ uploading' = uploading) \/ Borne(c)
    <3>1. CASE UNCHANGED <<records, deadline, born>>
      BY <2>5, <3>1, Stays DEF historyVars
    <3>2. CASE /\ records' = [records EXCEPT ![l][t] = NewRecord(Nobody, call[c].now, Ttl, Retention)]
               /\ deadline' = [deadline EXCEPT ![l][t] = clock + KeyTtl]
               /\ born' = [born EXCEPT ![t] = clock]
      <4>1. pc'[c] = "index"
        BY <2>1 DEF Typed
      <4> QED BY <2>1, <2>5, <3>2, <4>1 DEF Borne
    <3> QED BY <1>3, <3>1, <3>2 DEF PutRecord
  <2> QED BY <1>1, <2>4, <2>5, <2>6, Stays DEF Advance, Wrote
<1>4. CASE PutIndex(c)
  <2>1. /\ pc[c] = "index" /\ UNCHANGED <<clock, records, deadline, minted, uploading, historyVars>>
        /\ issued' \subseteq issued \cup {t}
    BY <1>4 DEF PutIndex
  <2>2. \/ index' = [index EXCEPT ![l][t] = clock + KeyTtl]
        \/ UNCHANGED index
    BY <1>4 DEF PutIndex
  <2>3. Moves(c)
    <3>1. CASE Ends(c, "stored") \/ Ends(c, "raised")
      <4>1. "stored" \in Answers /\ "raised" \in Answers
        BY DEF Answers
      <4> QED BY <1>1, <3>1, <4>1, EndsMoves
    <3>2. CASE /\ Resends /\ pc' = [pc EXCEPT ![c] = "write"]
               /\ call' = [call EXCEPT ![c] = [call[c] EXCEPT !.broken = FALSE]]
      <4>1. CallsTyped /\ Mine(c) /\ pc'[c] = "write"
        BY <1>2, <3>2 DEF CallsTyped, Mine, Typed
      <4>2. call'[c].op = call[c].op /\ call'[c].ticket = t
            /\ UNCHANGED <<call[c].answer, call[c].now, call[c].at>>
        BY <3>2 DEF Typed, Call
      <4> QED BY <2>1, <3>2, <4>1, <4>2 DEF Moves, Onward
    <3> QED BY <1>4, <3>1, <3>2 DEF PutIndex
  <2>4. Fade
    BY <2>1, Stays
  <2>5. IndexMove(c)
    BY <2>1, <2>2, Stays DEF IndexMove
  <2> QED BY <1>1, <2>1, <2>3, <2>4, <2>5 DEF Advance
<1> QED BY <1>3, <1>4

LEMMA Quietly ==
  ASSUME NEW c \in Callers, Moves(c), Typed,
         UNCHANGED <<clock, keyVars, callerVars, historyVars>>
  PROVE  Advance(c)
BY Stays DEF Advance, keyVars, callerVars, historyVars, Typed

LEMMA RedeemSteps ==
  ASSUME Typed, NEW c \in Callers, Placed(c), Redeem(c) \/ RedeemOldIndex(c) \/ RedeemOld(c)
  PROVE  Advance(c)
<1>1. ASSUME NEW l \in Layouts, pc[c] \in {"script", "oldscript"}, RedeemAt(c, l)
      PROVE  Advance(c)
  BY <1>1, RedeemAtIs, Stays DEF Advance, Wrote, Typed
<1>2. "new" \in Layouts /\ "old" \in Layouts /\ "not_found" \in Answers
  BY DEF Layouts, Answers
<1>3. CASE Redeem(c)
  <2>1. pc[c] = "script"
    BY <1>3 DEF Redeem
  <2>2. CASE RedeemAt(c, "new")
    BY <1>1, <1>2, <2>1, <2>2
  <2>3. CASE Goes(c, "oldindex") /\ UNCHANGED <<clock, keyVars, memo, callerVars, historyVars>>
    BY <2>1, <2>3, GoesMoves, Quietly
  <2> QED BY <1>3, <2>2, <2>3 DEF Redeem
<1>4. CASE RedeemOldIndex(c)
  <2>1. pc[c] = "oldindex" /\ UNCHANGED <<clock, keyVars, memo, callerVars, historyVars>>
    BY <1>4 DEF RedeemOldIndex
  <2>2. CASE Goes(c, "oldscript")
    BY <2>1, <2>2, GoesMoves, Quietly
  <2>3. CASE Reply(c, "not_found")
    BY <1>2, <2>1, <2>3, ReplyMoves, Quietly
  <2> QED BY <1>4, <2>2, <2>3 DEF RedeemOldIndex
<1>5. CASE RedeemOld(c)
  BY <1>1, <1>2, <1>5 DEF RedeemOld
<1> QED BY <1>3, <1>4, <1>5

LEMMA ActSteps ==
  ASSUME Typed, NEW c \in Callers, Placed(c), Locate(c) \/ Finish(c) \/ Claim(c)
  PROVE  Advance(c)
<1> DEFINE t == call[c].ticket
           l == call[c].at
<1>1. pc[c] # "idle" /\ t \in Tickets /\ l \in Layouts /\ issued \subseteq minted
      /\ call[c].ending \in Answers /\ "not_found" \in Answers
  BY DEF Locate, Finish, Claim, Placed, Typed, Call, Answers
<1>2. CASE Locate(c)
  <2>1. pc[c] = "locate" /\ UNCHANGED <<clock, keyVars, callerVars, historyVars>>
    BY <1>2 DEF Locate
  <2>2. CASE Reply(c, "not_found")
    BY <1>1, <2>1, <2>2, ReplyMoves, Quietly
  <2>3. ASSUME NEW m \in Layouts, call' = [call EXCEPT ![c] = [call[c] EXCEPT !.at = m]],
               pc' = [pc EXCEPT ![c] = "act"]
        PROVE  Advance(c)
    <3>0. call[c] \in Call
      BY DEF Typed
    <3>1. [call[c] EXCEPT !.at = m] \in Call
      BY <3>0, m \in Layouts DEF Call
    <3>2. CallsTyped /\ Mine(c) /\ pc'[c] = "act"
      BY <2>3, <3>1 DEF CallsTyped, Mine, Typed
    <3>3. call'[c].op = call[c].op /\ call'[c].ticket = t
          /\ UNCHANGED <<call[c].answer, call[c].now>>
      BY <2>3 DEF Typed, Call
    <3> QED BY <2>1, <3>2, <3>3, Quietly DEF Moves, Onward
  <2>4. "new" \in Layouts /\ "old" \in Layouts
    BY DEF Layouts
  <2> QED BY <1>2, <2>2, <2>3, <2>4 DEF Locate
<1>3. CASE Finish(c)
  <2>1. pc[c] = "act" /\ call[c].op = "finish" /\ UNCHANGED <<clock, index, memo, callerVars, historyVars>>
    BY <1>3 DEF Finish
  <2>2. CASE Present(Under(l, t))
    <3>1. /\ WriteKey(l, t, Finished(records[l][t], call[c].ending))
          /\ Reply(c, call[c].ending)
      BY <1>3, <2>2 DEF Finish
    <3>2. Moves(c)
      BY <1>1, <3>1, ReplyMoves
    <3>3. Written(l, t, Finished(records[l][t], call[c].ending))
      BY <1>1, <2>1, <2>2, <3>1, WrittenKey DEF historyVars
    <3>4. Ended(c, l)
      BY <2>1, <3>3 DEF Ended, Holds, callerVars, historyVars
    <3> QED BY <1>1, <2>1, <3>2, <3>4, Stays DEF Advance, Wrote, callerVars
  <2>3. CASE ~Present(Under(l, t))
    <3>1. UNCHANGED <<records, deadline>> /\ Reply(c, "not_found")
      BY <1>3, <2>3 DEF Finish
    <3> QED BY <1>1, <2>1, <3>1, ReplyMoves, Quietly DEF keyVars
  <2> QED BY <2>2, <2>3
<1>4. CASE Claim(c)
  <2> DEFINE result == ClaimScript(Under(l, t))
  <2>1. /\ pc[c] = "act" /\ Reply(c, result)
        /\ UNCHANGED <<clock, index, memo, callerVars, born, won>>
    BY <1>4 DEF Claim
  <2>2. result \in Answers
    BY DEF ClaimScript, Answers
  <2>3. Moves(c)
    BY <1>1, <2>1, <2>2, ReplyMoves
  <2>4. CASE result = "claimed"
    <3>1. Present(Under(l, t)) /\ Under(l, t).status = "completed"
      BY <2>4 DEF ClaimScript, Present
    <3>2. /\ WriteKey(l, t, Claimed(records[l][t]))
          /\ took' = [took EXCEPT ![t] = @ \cup {c}]
      BY <1>4, <2>4 DEF Claim
    <3>3. records[l][t].status = "completed"
      BY <1>1, <3>1, Found
    <3>4. Taken(c, l)
      BY <1>1, <2>1, <3>1, <3>2, <3>3, WrittenKey DEF Taken, callerVars
    <3> QED BY <1>1, <2>1, <2>3, <3>4, Stays DEF Advance, Wrote, callerVars
  <2>5. CASE result # "claimed"
    <3>1. UNCHANGED <<records, deadline, took>>
      BY <1>4, <2>5 DEF Claim
    <3> QED BY <2>1, <2>3, <3>1, Quietly DEF keyVars, historyVars
  <2> QED BY <2>4, <2>5
<1> QED BY <1>2, <1>3, <1>4

LEMMA SweepSteps ==
  ASSUME Typed, NEW c \in Callers, Placed(c),
         Sweep(c) \/ SweepRecord(c) \/ SweepIndex(c) \/ Raises(c)
  PROVE  Advance(c)
<1>1. "swept" \in Answers /\ "raised" \in Answers /\ issued \subseteq minted
  BY DEF Answers, Typed
<1>2. CASE Sweep(c)
  <2>1. pc[c] = "look" /\ UNCHANGED <<clock, keyVars, callerVars, historyVars>>
    BY <1>2 DEF Sweep
  <2>2. Goes(c, "delete") \/ Reply(c, "swept")
    BY <1>2 DEF Sweep
  <2> QED BY <1>1, <2>1, <2>2, GoesMoves, ReplyMoves, Quietly
<1>3. CASE SweepRecord(c)
  <2>1. /\ pc[c] = "delete" /\ Goes(c, "unindex")
        /\ UNCHANGED <<clock, records, index, memo, callerVars, historyVars>>
    BY <1>3 DEF SweepRecord
  <2>2. /\ deadline' \in [Layouts -> [Tickets -> Nat]]
        /\ \A l \in Layouts, t \in Tickets : deadline'[l][t] \in {deadline[l][t], 0}
    <3>1. call[c].at \in Layouts /\ call[c].ticket \in Tickets
      BY <2>1 DEF Typed, Call, Placed
    <3>2. deadline' = deadline \/ deadline' = [deadline EXCEPT ![call[c].at][call[c].ticket] = 0]
      BY <1>3 DEF SweepRecord
    <3>3. deadline \in [Layouts -> [Tickets -> Nat]] /\ 0 \in Nat
      BY DEF Typed
    <3>4. CASE deadline' = deadline
      BY <3>3, <3>4
    <3>5. CASE deadline' = [deadline EXCEPT ![call[c].at][call[c].ticket] = 0]
      BY <3>1, <3>3, <3>5, OneKey
    <3> QED BY <3>2, <3>4, <3>5
  <2>3. Moves(c)
    BY <2>1, GoesMoves
  <2> QED BY <1>1, <2>1, <2>2, <2>3, Stays DEF Advance, IndexMove, Fade, callerVars
<1>4. CASE SweepIndex(c)
  <2>1. /\ pc[c] = "unindex" /\ Reply(c, "swept")
        /\ UNCHANGED <<clock, records, deadline, memo, callerVars, historyVars>>
    BY <1>4 DEF SweepIndex
  <2>2. /\ index' \in [Layouts -> [Tickets -> Nat]]
        /\ \A l \in Layouts, t \in Tickets : index'[l][t] \in {index[l][t], 0}
    <3>1. call[c].at \in Layouts /\ call[c].ticket \in Tickets
      BY <2>1 DEF Typed, Call, Placed
    <3>2. index' = index \/ index' = [index EXCEPT ![call[c].at][call[c].ticket] = 0]
      BY <1>4 DEF SweepIndex
    <3>3. index \in [Layouts -> [Tickets -> Nat]] /\ 0 \in Nat
      BY DEF Typed
    <3>4. CASE index' = index
      BY <3>3, <3>4
    <3>5. CASE index' = [index EXCEPT ![call[c].at][call[c].ticket] = 0]
      BY <3>1, <3>3, <3>5, OneKey
    <3> QED BY <3>2, <3>4, <3>5
  <2>3. Moves(c)
    BY <1>1, <2>1, ReplyMoves
  <2> QED BY <1>1, <2>1, <2>2, <2>3, Stays DEF Advance, IndexMove, Fade, callerVars
<1>5. CASE Raises(c)
  <2>1. pc[c] # "idle" /\ Ends(c, "raised")
        /\ UNCHANGED <<clock, keyVars, callerVars, historyVars>>
    BY <1>5 DEF Raises
  <2> QED BY <1>1, <2>1, EndsMoves, Quietly
<1> QED BY <1>2, <1>3, <1>4, <1>5

LEMMA Steps ==
  ASSUME Typed, AllPlaced, NEW c \in Callers, Step(c)
  PROVE  Advance(c)
<1>1. Placed(c)
  BY DEF AllPlaced
<1> QED BY <1>1, PutSteps, RedeemSteps, ActSteps, SweepSteps DEF Step

(* What each way to begin a call does.                                     *)
LEMMA BeginIs ==
  ASSUME Typed, NEW c \in Callers, NEW op \in Ops, NEW t \in Tickets, NEW e \in {"completed", "failed"},
         NEW first \in {"write", "script", "locate"}, Begin(c, op, t, e, first)
  PROVE  /\ pc[c] = "idle" /\ Mine(c) /\ CallsTyped /\ UNCHANGED <<clock, keyVars, historyVars>>
         /\ pc'[c] = first /\ call'[c].op = op /\ call'[c].ticket = t /\ call'[c].answer = "none"
         /\ call'[c].now = NowOf(c[1])
<1> DEFINE k == [NoCall EXCEPT !.op = op, !.ticket = t, !.now = NowOf(c[1]), !.ending = e]
<1>1. NowOf(c[1]) \in Nat
  BY Constants DEF NowOf, Typed
<1>2. k \in Call /\ k.op = op /\ k.ticket = t /\ k.answer = "none" /\ k.now = NowOf(c[1])
  BY <1>1 DEF Call, NoCall, Layouts, Answers
<1>3. pc[c] = "idle" /\ pc' = [pc EXCEPT ![c] = first] /\ call' = [call EXCEPT ![c] = k]
      /\ UNCHANGED <<clock, keyVars, historyVars>>
  BY DEF Begin
<1>4. CallsTyped /\ Mine(c) /\ pc'[c] = first /\ call'[c] = k
  BY <1>2, <1>3 DEF CallsTyped, Mine, Typed
<1> QED BY <1>2, <1>3, <1>4

Started(c) ==
  /\ pc[c] = "idle" /\ Mine(c) /\ CallsTyped /\ UNCHANGED <<clock, keyVars, historyVars, issued>>
  /\ call'[c].ticket \in Tickets /\ call'[c].answer = "none" /\ call'[c].now = NowOf(c[1])
  /\ \/ /\ call'[c].op = "put" /\ pc'[c] = "write" /\ uploading' = uploading
        /\ call'[c].ticket \notin minted /\ minted' = minted \cup {call'[c].ticket}
     \/ /\ call'[c].op = "redeem" /\ pc'[c] = "script" /\ UNCHANGED <<minted, uploading>>
        /\ call'[c].ticket \in issued
     \/ /\ call'[c].op = "claim" /\ pc'[c] = "locate" /\ UNCHANGED <<minted, uploading>>
        /\ call'[c].ticket \in issued
     \/ /\ call'[c].op = "finish" /\ pc'[c] = "locate" /\ minted' = minted
        /\ <<c[1], call'[c].ticket>> \in uploading
        /\ uploading' = uploading \ {<<c[1], call'[c].ticket>>}
     \/ /\ call'[c].op = "sweep" /\ pc'[c] = "look" /\ UNCHANGED <<minted, uploading>>

LEMMA Begins ==
  ASSUME Typed, NEW c \in Callers, Starts(c)
  PROVE  Started(c)
<1>1. {"put", "redeem", "claim", "finish", "sweep"} \subseteq Ops
  BY DEF Ops
<1>2. ASSUME NEW t \in Tickets, BeginPut(c, t) PROVE Started(c)
  <2>1. /\ t \notin minted /\ minted' = minted \cup {t} /\ UNCHANGED <<issued, uploading>>
        /\ Begin(c, "put", t, "failed", "write")
    BY <1>2 DEF BeginPut
  <2> QED BY <1>1, <2>1, BeginIs DEF Started
<1>3. ASSUME NEW t \in Tickets, BeginRedeem(c, t) PROVE Started(c)
  <2>1. /\ Begin(c, "redeem", t, "failed", "script") /\ UNCHANGED <<minted, issued, uploading>>
        /\ t \in issued
    BY <1>3 DEF BeginRedeem, callerVars
  <2> QED BY <1>1, <2>1, BeginIs DEF Started
<1>4. ASSUME NEW t \in Tickets, BeginClaim(c, t) PROVE Started(c)
  <2>1. /\ Begin(c, "claim", t, "failed", "locate") /\ UNCHANGED <<minted, issued, uploading>>
        /\ t \in issued
    BY <1>4 DEF BeginClaim, callerVars
  <2> QED BY <1>1, <2>1, BeginIs DEF Started
<1>5. ASSUME NEW t \in Tickets, NEW e \in {"completed", "failed"}, BeginFinish(c, t, e) PROVE Started(c)
  <2>1. /\ <<c[1], t>> \in uploading /\ uploading' = uploading \ {<<c[1], t>>}
        /\ UNCHANGED <<minted, issued>> /\ Begin(c, "finish", t, e, "locate")
    BY <1>5 DEF BeginFinish
  <2> QED BY <1>1, <2>1, BeginIs DEF Started
<1>6. ASSUME NEW l \in Layouts, NEW t \in Tickets, BeginSweep(c, l, t) PROVE Started(c)
  <2> DEFINE k == [NoCall EXCEPT !.op = "sweep", !.ticket = t, !.now = NowOf(c[1]), !.at = l]
  <2>1. NowOf(c[1]) \in Nat
    BY Constants DEF NowOf, Typed
  <2>2. k \in Call /\ k.op = "sweep" /\ k.ticket = t /\ k.answer = "none" /\ k.now = NowOf(c[1])
    BY <1>1, <2>1 DEF Call, NoCall, Answers
  <2>3. /\ pc[c] = "idle" /\ pc' = [pc EXCEPT ![c] = "look"] /\ call' = [call EXCEPT ![c] = k]
        /\ UNCHANGED <<clock, keyVars, historyVars, issued, minted, uploading>>
    BY <1>6 DEF BeginSweep, callerVars
  <2>4. CallsTyped /\ Mine(c) /\ pc'[c] = "look" /\ call'[c] = k
    BY <2>2, <2>3 DEF CallsTyped, Mine, Typed
  <2> QED BY <2>2, <2>3, <2>4 DEF Started
<1> QED BY <1>2, <1>3, <1>4, <1>5, <1>6 DEF Starts

(* A crash ends calls; nothing else is of one's own.                       *)
Cease ==
  /\ UNCHANGED <<keyVars, minted, issued>> /\ Fade /\ CallsTyped
  /\ uploading' \subseteq uploading
  /\ \A c \in Callers : \/ pc'[c] = "idle" /\ call'[c] = NoCall
                        \/ pc'[c] = pc[c] /\ call'[c] = call[c]
  /\ clock' \in 0..MaxClock

LEMMA CrashIs ==
  ASSUME Typed, NEW p \in Processes, Crash(p)
  PROVE  Cease
<1>1. UNCHANGED <<clock, keyVars, minted, issued, historyVars>> /\ uploading' \subseteq uploading
  BY DEF Crash
<1>2. NoCall \in Call
  BY DEF NoCall, Call, Ops, Answers, Layouts
<1>3. CallsTyped
  BY <1>2 DEF Crash, CallsTyped, Typed
<1>4. \A c \in Callers : \/ pc'[c] = "idle" /\ call'[c] = NoCall
                         \/ pc'[c] = pc[c] /\ call'[c] = call[c]
  BY DEF Crash, Busy, Typed
<1> QED BY <1>1, <1>3, <1>4 DEF Cease, Fade, keyVars, Typed

LEMMA OtherSteps ==
  ASSUME Typed, [Next]_vars
  PROVE  Cease \/ \E c \in Callers : Starts(c) \/ Step(c)
<1>1. ASSUME NEW p \in Processes, NEW t \in Tickets, Lookup(p, t) PROVE Cease
  BY <1>1 DEF Lookup, Cease, Fade, CallsTyped, Typed, keyVars, callVars, callerVars, historyVars
<1>2. CASE Tick
  BY <1>2, Constants DEF Tick, Cease, Fade, CallsTyped, Typed, keyVars, callVars, callerVars, historyVars
<1>3. CASE UNCHANGED vars
  BY <1>3 DEF vars, Cease, Fade, CallsTyped, Typed, keyVars, callVars, callerVars, historyVars
<1>4. CASE Next
  BY <1>1, <1>2, <1>4, CrashIs DEF Next
<1> QED BY <1>3, <1>4

----------------------------------------------------------------------------
(* Types.                                                                  *)
LEMMA KeyTtlType == KeyTtl \in Nat
<1>1. Second \in Nat \ {0} /\ Retention \in Nat
  BY RedisAssumption DEF RedisAssumption
<1>2. Retention \div Second \in Int
  BY <1>1
<1> DEFINE whole == Retention \div Second
           n == IF whole > 1 THEN whole ELSE 1
<1>3. n \in Nat
  BY <1>2
<1> HIDE DEF n
<1>4. Second * n \in Nat
  BY <1>1, <1>3
<1> QED BY <1>4 DEF KeyTtl, n

LEMMA KeyTtlPositive == KeyTtl > 0
<1>1. Second \in Nat /\ Second >= 1 /\ Retention \in Nat
  BY RedisAssumption DEF RedisAssumption
<1> DEFINE whole == Retention \div Second
           n == IF whole > 1 THEN whole ELSE 1
<1>2. n \in Nat /\ n >= 1
  BY <1>1
<1> HIDE DEF n
<1>3. Second * n >= 1 /\ Second * n \in Nat
  BY <1>1, <1>2
<1>4. KeyTtl = Second * n
  BY DEF KeyTtl, n
<1> QED BY <1>3, <1>4

LEMMA SlotTypes ==
  ASSUME NEW rec \in Slot, NEW n \in Nat, NEW e \in {"completed", "failed"}
  PROVE  /\ Redeemed(rec, n) \in Slot /\ Redeemed(rec, n).status = "redeemed"
         /\ Finished(rec, e) \in Slot /\ Finished(rec, e).status = e
         /\ Claimed(rec) \in Slot /\ Claimed(rec).status = "claimed"
         /\ NewRecord(Nobody, n, Ttl, Retention) \in Slot
         /\ NewRecord(Nobody, n, Ttl, Retention).status = "issued"
<1>1. n + Ttl \in Nat /\ n + Retention \in Nat
  BY Constants
<1>2. Redeemed(rec, n) \in Slot /\ Finished(rec, e) \in Slot /\ Claimed(rec) \in Slot
  BY DEF Redeemed, Finished, Claimed, Slot, Statuses
<1>3. NewRecord(Nobody, n, Ttl, Retention) \in Slot
  BY <1>1 DEF NewRecord, Slot, Statuses
<1>4. /\ Redeemed(rec, n).status = "redeemed" /\ Finished(rec, e).status = e
      /\ Claimed(rec).status = "claimed" /\ NewRecord(Nobody, n, Ttl, Retention).status = "issued"
  BY DEF Redeemed, Finished, Claimed, NewRecord, Slot
<1> QED BY <1>2, <1>3, <1>4

(* The record a write leaves, and the records it leaves alone.             *)
Becomes(c, l, t, was, is) ==
  /\ l \in Layouts /\ t = call[c].ticket /\ t \in Tickets
  /\ records' \in [Layouts -> [Tickets -> Slot]]
  /\ \A m \in Layouts, u \in Tickets : m # l \/ u # t => records'[m][u] = records[m][u]
  /\ was = records[l][t].status /\ is = records'[l][t].status

LEMMA BorneIs ==
  ASSUME Typed, NEW c \in Callers, Placed(c), Borne(c)
  PROVE  LET l == LayoutOf(c[1])
             t == call[c].ticket
         IN
         /\ Becomes(c, l, t, records[l][t].status, "issued") /\ t \in minted
         /\ deadline' \in [Layouts -> [Tickets -> Nat]]
         /\ \A m \in Layouts, u \in Tickets :
              deadline'[m][u] = IF m = l /\ u = t THEN clock + KeyTtl ELSE deadline[m][u]
<1> DEFINE l == LayoutOf(c[1])
           t == call[c].ticket
           rec == NewRecord(Nobody, call[c].now, Ttl, Retention)
<1>1. l \in Layouts /\ t \in Tickets /\ t \in minted /\ call[c].now \in Nat /\ clock \in Nat
  BY Constants DEF Borne, Placed, Typed, Call
<1>2. rec \in Slot /\ rec.status = "issued"
  <2>1. records[l][t] \in Slot /\ "failed" \in {"completed", "failed"}
    BY <1>1 DEF Typed
  <2> QED BY <1>1, <2>1, SlotTypes
<1>3. clock + KeyTtl \in Nat
  BY <1>1, KeyTtlType
<1>4. records' = [records EXCEPT ![l][t] = rec] /\ deadline' = [deadline EXCEPT ![l][t] = clock + KeyTtl]
  BY DEF Borne
<1>5. records \in [Layouts -> [Tickets -> Slot]] /\ deadline \in [Layouts -> [Tickets -> Nat]]
  BY DEF Typed
<1> HIDE DEF rec
<1>6. /\ records' \in [Layouts -> [Tickets -> Slot]]
      /\ \A m \in Layouts, u \in Tickets : records'[m][u] = IF m = l /\ u = t THEN rec ELSE records[m][u]
  BY <1>1, <1>2, <1>4, <1>5, OneKey
<1>7. /\ deadline' \in [Layouts -> [Tickets -> Nat]]
      /\ \A m \in Layouts, u \in Tickets :
           deadline'[m][u] = IF m = l /\ u = t THEN clock + KeyTtl ELSE deadline[m][u]
  BY <1>1, <1>3, <1>4, <1>5, OneKey
<1> QED BY <1>1, <1>2, <1>6, <1>7 DEF Becomes

LEMMA WriteIs ==
  ASSUME Typed, NEW c \in Callers, Placed(c), NEW l \in Layouts
  PROVE  LET t == call[c].ticket IN
         /\ Spent(c, l) => Becomes(c, l, t, "issued", "redeemed")
         /\ Ended(c, l) => \E e \in {"completed", "failed"} : Becomes(c, l, t, records[l][t].status, e)
         /\ Taken(c, l) => Becomes(c, l, t, "completed", "claimed")
<1> DEFINE t == call[c].ticket
<1>1. ASSUME NEW rec \in Slot, Written(l, t, rec), t \in Tickets
      PROVE  Becomes(c, l, t, records[l][t].status, rec.status)
  <2>1. records \in [Layouts -> [Tickets -> Slot]] /\ records' = [records EXCEPT ![l][t] = rec]
    BY <1>1 DEF Typed, Written
  <2>2. /\ records' \in [Layouts -> [Tickets -> Slot]]
        /\ \A m \in Layouts, u \in Tickets : records'[m][u] = IF m = l /\ u = t THEN rec ELSE records[m][u]
    BY <1>1, <2>1, OneKey
  <2> QED BY <1>1, <2>2 DEF Becomes
<1>2. call[c].now \in Nat /\ call[c].ending \in {"completed", "failed"}
  BY DEF Typed, Call
<1>3. pc[c] # "idle" => t \in Tickets /\ records[l][t] \in Slot
  BY DEF Placed, Typed
<1>4. ASSUME Spent(c, l) PROVE Becomes(c, l, t, "issued", "redeemed")
  <2>1. pc[c] # "idle" /\ records[l][t].status = "issued"
        /\ Written(l, t, Redeemed(records[l][t], call[c].now))
    BY <1>4 DEF Spent
  <2>2. Redeemed(records[l][t], call[c].now) \in Slot
        /\ Redeemed(records[l][t], call[c].now).status = "redeemed"
    BY <1>2, <1>3, <2>1, SlotTypes
  <2>3. Becomes(c, l, t, records[l][t].status, Redeemed(records[l][t], call[c].now).status)
    BY <1>1, <1>3, <2>1, <2>2
  <2> QED BY <2>1, <2>2, <2>3
<1>5. ASSUME Ended(c, l) PROVE Becomes(c, l, t, records[l][t].status, call[c].ending)
  <2>1. pc[c] # "idle" /\ Written(l, t, Finished(records[l][t], call[c].ending))
    BY <1>5 DEF Ended, Holds
  <2>2. Finished(records[l][t], call[c].ending) \in Slot
        /\ Finished(records[l][t], call[c].ending).status = call[c].ending
    BY <1>2, <1>3, <2>1, SlotTypes
  <2>3. Becomes(c, l, t, records[l][t].status, Finished(records[l][t], call[c].ending).status)
    BY <1>1, <1>3, <2>1, <2>2
  <2> QED BY <2>2, <2>3
<1>6. ASSUME Taken(c, l) PROVE Becomes(c, l, t, "completed", "claimed")
  <2>1. pc[c] # "idle" /\ Written(l, t, Claimed(records[l][t])) /\ records[l][t].status = "completed"
    BY <1>6 DEF Taken
  <2>2. Claimed(records[l][t]) \in Slot /\ Claimed(records[l][t]).status = "claimed"
    BY <1>2, <1>3, <2>1, SlotTypes
  <2>3. Becomes(c, l, t, records[l][t].status, Claimed(records[l][t]).status)
    BY <1>1, <1>3, <2>1, <2>2
  <2> QED BY <2>1, <2>2, <2>3
<1> QED BY <1>2, <1>4, <1>5, <1>6

LEMMA TypedStep ==
  ASSUME Typed, AllPlaced, [Next]_vars
  PROVE  Typed'
<1>1. ASSUME CallsTyped, clock' \in 0..MaxClock, records' \in [Layouts -> [Tickets -> Slot]],
             deadline' \in [Layouts -> [Tickets -> Nat]], index' \in [Layouts -> [Tickets -> Nat]],
             minted' \subseteq Tickets, issued' \subseteq minted',
             uploading' \subseteq Processes \X Tickets, born' \in [Tickets -> Nat \cup {-1}],
             won' \in [Tickets -> SUBSET Callers], took' \in [Tickets -> SUBSET Callers]
      PROVE  Typed'
  BY <1>1 DEF Typed, CallsTyped
<1>2. CASE Cease
  BY <1>1, <1>2 DEF Cease, Fade, Typed, keyVars, historyVars
<1>3. ASSUME NEW c \in Callers, Starts(c) PROVE Typed'
  <2>1. Started(c)
    BY <1>3, Begins
  <2>2. minted' \subseteq Tickets /\ issued' \subseteq minted' /\ uploading' \subseteq Processes \X Tickets
        /\ UNCHANGED <<clock, records, deadline, index, born, won, took>> /\ CallsTyped
    BY <2>1 DEF Started, Typed, keyVars, historyVars
  <2> QED BY <1>1, <2>2 DEF Typed
<1>4. ASSUME NEW c \in Callers, Step(c) PROVE Typed'
  <2>1. Advance(c) /\ Placed(c) /\ pc[c] # "idle"
    BY <1>4, Steps DEF AllPlaced, Advance, Moves
  <2>2. call[c].ticket \in Tickets /\ c[1] \in Processes /\ LayoutOf(c[1]) \in Layouts
    BY <2>1, Constants DEF Placed
  <2>3. CallsTyped /\ clock' \in 0..MaxClock /\ minted' \subseteq Tickets /\ issued' \subseteq minted'
    BY <2>1 DEF Advance, Moves, Typed
  <2>4. index' \in [Layouts -> [Tickets -> Nat]]
    <3>1. clock + KeyTtl \in Nat
      BY KeyTtlType DEF Typed
    <3>2. index \in [Layouts -> [Tickets -> Nat]]
      BY DEF Typed
    <3>3. CASE index' = [index EXCEPT ![LayoutOf(c[1])][call[c].ticket] = clock + KeyTtl]
      BY <2>2, <3>1, <3>2, <3>3, OneKey
    <3> QED BY <2>1, <3>3 DEF Advance, IndexMove
  <2>5. CASE Fade /\ uploading' = uploading
    BY <1>1, <2>3, <2>4, <2>5 DEF Fade, historyVars, Typed
  <2>6. CASE Borne(c)
    <3>1. /\ records' \in [Layouts -> [Tickets -> Slot]] /\ deadline' \in [Layouts -> [Tickets -> Nat]]
      BY <2>1, <2>6, BorneIs DEF Becomes
    <3>2. /\ born' = [born EXCEPT ![call[c].ticket] = clock] /\ clock \in Nat
          /\ UNCHANGED <<won, took, uploading>>
      BY <2>6 DEF Borne, Typed
    <3>3. born' \in [Tickets -> Nat \cup {-1}]
      BY <3>2 DEF Typed
    <3> QED BY <1>1, <2>3, <2>4, <3>1, <3>2, <3>3 DEF Typed
  <2>7. ASSUME NEW l \in Layouts, Spent(c, l) \/ Ended(c, l) \/ Taken(c, l) PROVE Typed'
    <3>1. records' \in [Layouts -> [Tickets -> Slot]]
      BY <2>1, <2>7, WriteIs DEF Becomes
    <3>2. UNCHANGED <<deadline, born>>
      BY <2>7 DEF Spent, Ended, Taken, Written
    <3>3. won' \in [Tickets -> SUBSET Callers] /\ took' \in [Tickets -> SUBSET Callers]
      <4>1. ASSUME NEW f \in [Tickets -> SUBSET Callers]
            PROVE  [f EXCEPT ![call[c].ticket] = @ \cup {c}] \in [Tickets -> SUBSET Callers]
        BY <2>2
      <4>2. won \in [Tickets -> SUBSET Callers] /\ took \in [Tickets -> SUBSET Callers]
        BY DEF Typed
      <4>3. /\ won' = won \/ won' = [won EXCEPT ![call[c].ticket] = @ \cup {c}]
            /\ took' = took \/ took' = [took EXCEPT ![call[c].ticket] = @ \cup {c}]
        BY <2>7 DEF Spent, Ended, Taken
      <4> QED BY <4>1, <4>2, <4>3
    <3>4. uploading' \in {uploading, uploading \cup {<<c[1], call[c].ticket>>}}
      BY <2>7 DEF Spent, Ended, Taken
    <3>5. uploading' \subseteq Processes \X Tickets
      BY <2>2, <3>4 DEF Typed
    <3> QED BY <1>1, <2>3, <2>4, <3>1, <3>2, <3>3, <3>5 DEF Typed
  <2> QED BY <2>1, <2>5, <2>6, <2>7 DEF Advance, Wrote
<1> QED BY <1>2, <1>3, <1>4, OtherSteps

----------------------------------------------------------------------------
(* Where the calls are, and in which layout a ticket is.                   *)
LEMMA Growth ==
  ASSUME Typed, AllPlaced, [Next]_vars
  PROVE  minted \subseteq minted'
BY OtherSteps, Begins, Steps DEF Started, Advance, Cease

LEMMA PlacedStep ==
  ASSUME Typed, AllPlaced, [Next]_vars
  PROVE  AllPlaced'
<1> SUFFICES ASSUME NEW d \in Callers PROVE Placed(d)'
  BY DEF AllPlaced
<1>1. minted \subseteq minted' /\ Placed(d)
  BY Growth DEF AllPlaced
<1>2. ASSUME pc'[d] = pc[d], call'[d] = call[d] PROVE Placed(d)'
  BY <1>1, <1>2 DEF Placed
<1>3. ASSUME pc'[d] = "idle" PROVE Placed(d)'
  BY <1>3 DEF Placed
<1>4. CASE Cease
  BY <1>2, <1>3, <1>4 DEF Cease
<1>5. ASSUME NEW c \in Callers, Starts(c) PROVE Placed(d)'
  <2>1. Started(c)
    BY <1>5, Begins
  <2>2. CASE c = d
    BY <2>1, <2>2 DEF Started, Placed
  <2>3. CASE c # d
    BY <1>2, <2>1, <2>3 DEF Started, Mine
  <2> QED BY <2>2, <2>3
<1>6. ASSUME NEW c \in Callers, Step(c) PROVE Placed(d)'
  <2>1. Moves(c)
    BY <1>6, Steps DEF Advance
  <2>2. CASE c = d /\ Onward(d)
    BY <1>1, <2>1, <2>2 DEF Moves, Onward, Placed
  <2>3. CASE c # d
    BY <1>2, <2>1, <2>3 DEF Moves, Mine
  <2> QED BY <1>3, <2>1, <2>2, <2>3 DEF Moves
<1> QED BY <1>4, <1>5, <1>6, OtherSteps

(* Who puts a ticket did so before, or has just begun.                     *)
LEMMA PutsMove ==
  ASSUME Typed, AllPlaced, [Next]_vars, NEW c \in Callers, NEW t \in Tickets, Puts(c, t)'
  PROVE  \/ Puts(c, t)
         \/ /\ t \notin minted /\ pc'[c] = "write" /\ records' = records
            /\ \A d \in Callers \ {c} : pc'[d] = pc[d] /\ call'[d] = call[d]
<1>1. CASE Cease
  BY <1>1 DEF Cease, Puts
<1>2. ASSUME NEW d \in Callers, Starts(d), ~Puts(c, t)
      PROVE  /\ t \notin minted /\ pc'[c] = "write" /\ records' = records
             /\ \A x \in Callers \ {c} : pc'[x] = pc[x] /\ call'[x] = call[x]
  <2>1. Started(d)
    BY <1>2, Begins
  <2>2. c = d
    BY <1>2, <2>1 DEF Started, Mine, Puts
  <2> QED BY <2>1, <2>2 DEF Started, Mine, Puts, keyVars
<1>3. ASSUME NEW d \in Callers, Step(d) PROVE Puts(c, t)
  <2>1. Moves(d)
    BY <1>3, Steps DEF Advance
  <2>2. CASE c = d
    BY <2>1, <2>2 DEF Moves, Onward, Puts
  <2>3. CASE c # d
    BY <2>1, <2>3 DEF Moves, Mine, Puts
  <2> QED BY <2>2, <2>3
<1> QED BY <1>1, <1>2, <1>3, OtherSteps

LEMMA OnePutStep ==
  ASSUME Typed, AllPlaced, OnePut, [Next]_vars
  PROVE  OnePut'
<1> SUFFICES ASSUME NEW t \in Tickets, NEW c \in Callers, NEW d \in Callers,
                    Puts(c, t)', Puts(d, t)'
             PROVE  c = d
  BY DEF OnePut
<1>1. \A x \in Callers : Puts(x, t) => t \in minted
  BY DEF AllPlaced, Placed, Puts
<1>2. CASE Puts(c, t) /\ Puts(d, t)
  BY <1>2 DEF OnePut
<1>3. ASSUME NEW x \in Callers, NEW y \in Callers, Puts(x, t)', Puts(y, t)', ~Puts(x, t) PROVE x = y
  <2>1. t \notin minted /\ (x # y => pc'[y] = pc[y] /\ call'[y] = call[y])
    BY <1>3, PutsMove
  <2>2. x # y => Puts(y, t)
    BY <1>3, <2>1 DEF Puts
  <2> QED BY <1>1, <2>1, <2>2
<1> QED BY <1>2, <1>3

(* A record that is present was so before, or its put has just written it. *)
LEMMA PresentMove ==
  ASSUME Typed, AllPlaced, [Next]_vars, NEW l \in Layouts, NEW t \in Tickets, Present(records'[l][t])
  PROVE  \/ Present(records[l][t])
         \/ \E c \in Callers : Puts(c, t) /\ l = LayoutOf(c[1])
<1>1. CASE records' = records
  BY <1>1
<1>2. ASSUME NEW c \in Callers, Step(c) PROVE Present(records[l][t]) \/ (Puts(c, t) /\ l = LayoutOf(c[1]))
  <2>1. Advance(c) /\ Placed(c)
    BY <1>2, Steps DEF AllPlaced
  <2>2. CASE Borne(c)
    <3>1. /\ \A m \in Layouts, u \in Tickets :
               m # LayoutOf(c[1]) \/ u # call[c].ticket => records'[m][u] = records[m][u]
          /\ pc[c] = "write"
      BY <2>1, <2>2, BorneIs DEF Becomes, Borne
    <3> QED BY <3>1 DEF Puts
  <2>3. ASSUME NEW m \in Layouts, Spent(c, m) \/ Ended(c, m) \/ Taken(c, m)
        PROVE  Present(records[l][t])
    <3>1. Present(Under(m, call[c].ticket)) /\ call[c].ticket \in Tickets
      BY <2>1, <2>3 DEF Spent, Ended, Taken, Written, Holds, Placed
    <3>2. Present(records[m][call[c].ticket])
      BY <3>1, Found
    <3>3. \A n \in Layouts, u \in Tickets :
            n # m \/ u # call[c].ticket => records'[n][u] = records[n][u]
      BY <2>1, <2>3, WriteIs DEF Becomes
    <3> QED BY <3>2, <3>3
  <2> QED BY <1>1, <2>1, <2>2, <2>3 DEF Advance, Wrote, Fade
<1>3. CASE Cease \/ \E c \in Callers : Starts(c)
  BY <1>1, <1>3, Begins DEF Cease, Started, keyVars
<1> QED BY <1>2, <1>3, OtherSteps

LEMMA HomeStep ==
  ASSUME IInv, [Next]_vars
  PROVE  Home'
<1> USE DEF IInv
<1>1. ASSUME NEW t \in Tickets, NEW l \in Layouts, NEW m \in Layouts,
             Present(records'[l][t]), Present(records'[m][t])
      PROVE  l = m
  <2>1. /\ Present(records[l][t]) \/ \E c \in Callers : Puts(c, t) /\ l = LayoutOf(c[1])
        /\ Present(records[m][t]) \/ \E c \in Callers : Puts(c, t) /\ m = LayoutOf(c[1])
    BY <1>1, PresentMove
  <2> QED BY <2>1 DEF Home, OnePut
<1>2. ASSUME NEW t \in Tickets, NEW l \in Layouts, Present(records'[l][t])
      PROVE  t \in minted /\ t \in minted'
  <2>1. Present(records[l][t]) \/ \E c \in Callers : Puts(c, t)
    BY <1>2, PresentMove
  <2>2. t \in minted
    BY <2>1 DEF Home, AllPlaced, Placed, Puts
  <2> QED BY <2>2, Growth
<1>3. ASSUME NEW t \in Tickets, NEW l \in Layouts, NEW c \in Callers, Puts(c, t)', Present(records'[l][t])
      PROVE  l = LayoutOf(c[1])
  <2>1. Puts(c, t)
    BY <1>2, <1>3, PutsMove
  <2>2. Present(records[l][t]) \/ \E d \in Callers : Puts(d, t) /\ l = LayoutOf(d[1])
    BY <1>3, PresentMove
  <2> QED BY <2>1, <2>2 DEF Home, OnePut
<1>4. \A c \in Callers : LayoutOf(c[1])' = LayoutOf(c[1])
  BY DEF LayoutOf
<1> QED BY <1>1, <1>2, <1>3, <1>4 DEF Home

LEMMA IInvInit == Init => IInv
<1> SUFFICES ASSUME Init PROVE IInv
  OBVIOUS
<1>1. NoCall \in Call /\ NoRecord \in Slot /\ clock \in 0..MaxClock
  BY Constants DEF Init, NoCall, Call, Ops, Answers, Layouts, NoRecord, Slot
<1>2. Typed
  BY <1>1 DEF Init, Typed
<1>3. AllPlaced /\ OnePut
  BY DEF Init, AllPlaced, Placed, OnePut, Puts
<1>4. Home
  BY DEF Init, Home, Present, NoRecord
<1> QED BY <1>2, <1>3, <1>4 DEF IInv

LEMMA IInvStep == IInv /\ [Next]_vars => IInv'
BY TypedStep, PlacedStep, OnePutStep, HomeStep DEF IInv

LEMMA IInvHolds == Spec => []IInv
BY IInvInit, IInvStep, PTL DEF Spec

----------------------------------------------------------------------------
(* Expiry.                                                                 *)

(* The record found is the one record there is, if its key is not gone.    *)
LEMMA HeldIs ==
  ASSUME Typed, Home, NEW t \in Tickets
  PROVE  /\ ~Present(Held(t)) <=> \A l \in Layouts : Present(records[l][t]) => ~(clock < deadline[l][t])
         /\ \A l \in Layouts : Present(records[l][t]) /\ clock < deadline[l][t] => Held(t) = records[l][t]
         /\ Held(t).status \in Statuses \cup {"absent"}
<1>1. \A l \in Layouts : Under(l, t).status \in Statuses \cup {"absent"}
  BY DEF Under, NoRecord, Typed, Slot
<1>2. \A l, m \in Layouts : Present(records[l][t]) /\ Present(records[m][t]) => l = m
  BY DEF Home
<1>3. \A l \in Layouts : Present(Under(l, t)) <=> Present(records[l][t]) /\ clock < deadline[l][t]
  BY DEF Under, NoRecord, Present
<1>4. \A l \in Layouts : Present(Under(l, t)) => Under(l, t) = records[l][t]
  BY Found
<1> QED BY <1>1, <1>2, <1>3, <1>4 DEF Held, Layouts, Present

(* What is found has the status of a record.                               *)
LEMMA HeldFrom ==
  ASSUME NEW t \in Tickets, Present(Held(t))
  PROVE  \E l \in Layouts : /\ Present(records[l][t]) /\ clock < deadline[l][t]
                            /\ Held(t) = records[l][t]
<1>1. "new" \in Layouts /\ "old" \in Layouts
  BY DEF Layouts
<1>2. PICK l \in Layouts : Present(Under(l, t)) /\ Held(t) = Under(l, t)
  BY <1>1 DEF Held
<1> QED BY <1>2, Found

(* How the status of a record changes.                                     *)
LEMMA StatusMove ==
  ASSUME Typed, AllPlaced, [Next]_vars, NEW l \in Layouts, NEW t \in Tickets,
         records'[l][t] # records[l][t]
  PROVE  \E c \in Callers :
           /\ Step(c) /\ call[c].ticket = t
           /\ \/ Borne(c) /\ l = LayoutOf(c[1]) /\ records'[l][t].status = "issued"
              \/ Spent(c, l) /\ records[l][t].status = "issued" /\ records'[l][t].status = "redeemed"
              \/ Ended(c, l) /\ records'[l][t].status \in {"completed", "failed"}
              \/ Taken(c, l) /\ records[l][t].status = "completed" /\ records'[l][t].status = "claimed"
<1>1. PICK c \in Callers : Step(c) /\ Wrote(c) /\ Placed(c)
  <2>1. CASE Cease \/ \E c \in Callers : Starts(c)
    BY <2>1, Begins DEF Cease, Fade, Started, keyVars
  <2>2. ASSUME NEW c \in Callers, Step(c) PROVE Wrote(c) /\ Placed(c)
    BY <2>2, Steps DEF Advance, Fade, AllPlaced
  <2> QED BY <2>1, <2>2, OtherSteps
<1>2. CASE Borne(c)
  BY <1>1, <1>2, BorneIs DEF Becomes
<1>3. ASSUME NEW m \in Layouts, Spent(c, m) PROVE Spent(c, l) /\ call[c].ticket = t
             /\ records[l][t].status = "issued" /\ records'[l][t].status = "redeemed"
  <2>1. Becomes(c, m, call[c].ticket, "issued", "redeemed")
    BY <1>1, <1>3, WriteIs
  <2>2. l = m /\ t = call[c].ticket
    BY <2>1 DEF Becomes
  <2> QED BY <1>3, <2>1, <2>2 DEF Becomes
<1>4. ASSUME NEW m \in Layouts, Ended(c, m) PROVE Ended(c, l) /\ call[c].ticket = t
             /\ records'[l][t].status \in {"completed", "failed"}
  <2>1. PICK e \in {"completed", "failed"} : Becomes(c, m, call[c].ticket, records[m][call[c].ticket].status, e)
    BY <1>1, <1>4, WriteIs
  <2>2. l = m /\ t = call[c].ticket
    BY <2>1 DEF Becomes
  <2> QED BY <1>4, <2>1, <2>2 DEF Becomes
<1>5. ASSUME NEW m \in Layouts, Taken(c, m) PROVE Taken(c, l) /\ call[c].ticket = t
             /\ records[l][t].status = "completed" /\ records'[l][t].status = "claimed"
  <2>1. Becomes(c, m, call[c].ticket, "completed", "claimed")
    BY <1>1, <1>5, WriteIs
  <2>2. l = m /\ t = call[c].ticket
    BY <2>1 DEF Becomes
  <2> QED BY <1>5, <2>1, <2>2 DEF Becomes
<1> QED BY <1>1, <1>2, <1>3, <1>4, <1>5 DEF Wrote

Agreed ==
  \A t \in Tickets :
    ServerClock /\ Held(t).status = "issued" /\ Held(t)'.status = "redeemed"
      => clock < Held(t).expiresAt

LEMMA AgreedStep == IInv /\ [Next]_vars => Agreed
<1> SUFFICES ASSUME IInv, [Next]_vars, NEW t \in Tickets,
                    ServerClock, Held(t).status = "issued", Held(t)'.status = "redeemed"
             PROVE  clock < Held(t).expiresAt
  BY DEF Agreed
<1> USE DEF IInv
<1>1. PICK l \in Layouts : Present(records[l][t]) /\ clock < deadline[l][t] /\ Held(t) = records[l][t]
  BY HeldFrom DEF Present
<1>2. PICK m \in Layouts : Present(records'[m][t]) /\ records'[m][t].status = "redeemed"
  <2>1. Present(Held(t)')
    BY DEF Present
  <2>2. Held(t)' \in {records'["new"][t], records'["old"][t], NoRecord}
    BY DEF Held, Under
  <2>3. ~Present(NoRecord) /\ "new" \in Layouts /\ "old" \in Layouts
    BY DEF Present, NoRecord, Layouts
  <2> QED BY <2>1, <2>2, <2>3
<1>3. m = l
  <2>1. \A c \in Callers : Puts(c, t) => l = LayoutOf(c[1])
    BY <1>1 DEF Home
  <2>2. Present(records[m][t]) \/ \E c \in Callers : Puts(c, t) /\ m = LayoutOf(c[1])
    BY <1>2, PresentMove
  <2> QED BY <1>1, <2>1, <2>2 DEF Home
<1>4. records[l][t].status = "issued" /\ records'[l][t] # records[l][t]
  BY <1>1, <1>2, <1>3
<1>5. PICK c \in Callers : Spent(c, l) /\ call[c].ticket = t
  BY <1>2, <1>3, <1>4, StatusMove
<1>6. records[l][t] \in Slot /\ clock \in Nat
  BY DEF Typed
<1>7. ~Expired(records[l][t], clock)
  BY <1>5 DEF Spent, Judged
<1> QED BY <1>1, <1>6, <1>7 DEF Expired, Slot

(* With server_clock every process judges by the server's time, whatever   *)
(* its own clock says and however often a command is sent: a ticket that   *)
(* was redeemed had not expired.                                           *)
THEOREM ExpiryIsAgreed == Spec => AgreedExpiry
<1>1. IInv /\ [Next]_vars =>
        [\A t \in Tickets :
           ServerClock /\ Held(t).status = "issued" /\ Held(t)'.status = "redeemed"
             => clock < Held(t).expiresAt]_vars
  BY AgreedStep DEF Agreed
<1> QED BY <1>1, IInvHolds, PTL DEF Spec, AgreedExpiry

----------------------------------------------------------------------------
(* No command is sent twice.                                               *)
Still(t) ==
  /\ UNCHANGED <<born[t], won[t], took[t]>>
  /\ \A l \in Layouts : records'[l][t] = records[l][t] /\ deadline'[l][t] \in {deadline[l][t], 0}
Same(t) == Still(t) /\ clock' = clock /\ \A l \in Layouts : deadline'[l][t] = deadline[l][t]
Only(l, t, status) == \A m \in Layouts : records'[m][t].status = IF m = l THEN status ELSE "absent"

LEMMA OthersStay ==
  ASSUME Typed, NEW c \in Callers, Placed(c), Wrote(c)
  PROVE  /\ \A u \in Tickets \ {call[c].ticket} : Same(u)
         /\ clock' = clock /\ call[c].ticket \in Tickets
<1>1. CASE Borne(c)
  <2>1. /\ \A m \in Layouts, u \in Tickets : u # call[c].ticket =>
             records'[m][u] = records[m][u] /\ deadline'[m][u] = deadline[m][u]
        /\ call[c].ticket \in Tickets
    BY <1>1, BorneIs DEF Becomes
  <2>2. UNCHANGED <<clock, won, took>> /\ born' = [born EXCEPT ![call[c].ticket] = clock]
    BY <1>1 DEF Borne
  <2> QED BY <2>1, <2>2 DEF Same, Still, Typed
<1>2. ASSUME NEW l \in Layouts, Spent(c, l) \/ Ended(c, l) \/ Taken(c, l)
      PROVE  /\ \A u \in Tickets \ {call[c].ticket} : Same(u)
             /\ clock' = clock /\ call[c].ticket \in Tickets
  <2>1. /\ \A m \in Layouts, u \in Tickets : u # call[c].ticket => records'[m][u] = records[m][u]
        /\ call[c].ticket \in Tickets
    BY <1>2, WriteIs DEF Becomes
  <2>2. UNCHANGED <<clock, deadline, born>>
    BY <1>2 DEF Spent, Ended, Taken, Written
  <2>3. /\ won' = won \/ won' = [won EXCEPT ![call[c].ticket] = @ \cup {c}]
        /\ took' = took \/ took' = [took EXCEPT ![call[c].ticket] = @ \cup {c}]
    BY <1>2 DEF Spent, Ended, Taken
  <2>4. \A u \in Tickets \ {call[c].ticket} : won'[u] = won[u] /\ took'[u] = took[u]
    BY <2>1, <2>3 DEF Typed
  <2> QED BY <2>1, <2>2, <2>4 DEF Same, Still
<1> QED BY <1>1, <1>2 DEF Wrote

(* A step writes one ticket's record, or none.                             *)
LEMMA TicketMove ==
  ASSUME Typed, AllPlaced, [Next]_vars
  PROVE  \/ Fade /\ \A t \in Tickets : Still(t)
         \/ \E c \in Callers : /\ Step(c) /\ Wrote(c)
                               /\ \A u \in Tickets \ {call[c].ticket} : Same(u)
<1>1. ASSUME Fade PROVE \A t \in Tickets : Still(t)
  BY <1>1 DEF Fade, Still, historyVars
<1>2. CASE Cease
  BY <1>1, <1>2 DEF Cease
<1>3. ASSUME NEW c \in Callers, Starts(c) PROVE Fade
  BY <1>3, Begins, Stays DEF Started, keyVars
<1>4. ASSUME NEW c \in Callers, Step(c), ~Fade
      PROVE  Wrote(c) /\ \A u \in Tickets \ {call[c].ticket} : Same(u)
  BY <1>4, Steps, OthersStay DEF Advance, AllPlaced
<1> QED BY <1>1, <1>2, <1>3, <1>4, OtherSteps

(* What a write finds and what it leaves.                                  *)
LEMMA Alone ==
  ASSUME Typed, Home, NEW c \in Callers, NEW l \in Layouts, NEW t, NEW was, NEW is,
         Becomes(c, l, t, was, is), Present(records[l][t])
  PROVE  Only(l, t, is)
BY DEF Becomes, Home, Only, Present

LEMMA Writes ==
  ASSUME OnceInv, NEW c \in Callers
  PROVE  LET t == call[c].ticket IN
         /\ Borne(c) => /\ Fresh(t) /\ Only(LayoutOf(c[1]), t, "issued") /\ Unindexed(t)
                        /\ won'[t] = won[t] /\ took'[t] = took[t] /\ born'[t] = clock
         /\ \A l \in Layouts : Spent(c, l) =>
              /\ records[l][t].status = "issued" /\ Only(l, t, "redeemed") /\ won[t] = {}
              /\ won'[t] = {c} /\ took[t] = {} /\ took'[t] = took[t] /\ born'[t] = born[t] /\ deadline' = deadline
         /\ \A l \in Layouts : Ended(c, l) =>
              /\ records[l][t].status = "redeemed" /\ won[t] # {} /\ took[t] = {}
              /\ Only(l, t, "completed") \/ Only(l, t, "failed")
              /\ won'[t] = won[t] /\ took'[t] = took[t] /\ born'[t] = born[t] /\ deadline' = deadline
         /\ \A l \in Layouts : Taken(c, l) =>
              /\ records[l][t].status = "completed" /\ Only(l, t, "claimed")
              /\ took[t] = {} /\ took'[t] = {c} /\ won'[t] = won[t] /\ born'[t] = born[t] /\ deadline' = deadline
<1> USE DEF OnceInv, IInv
<1> DEFINE t == call[c].ticket
<1>1. Placed(c) /\ (pc[c] # "idle" => t \in Tickets)
  BY DEF AllPlaced, Placed
<1>2. ASSUME Borne(c)
      PROVE  /\ Fresh(t) /\ Only(LayoutOf(c[1]), t, "issued") /\ Unindexed(t)
             /\ won'[t] = won[t] /\ took'[t] = took[t] /\ born'[t] = clock
  <2>1. pc[c] = "write" /\ t \in Tickets
    BY <1>1, <1>2 DEF Borne
  <2>2. born[t] = -1 /\ Unindexed(t)
    BY <2>1 DEF Once
  <2>3. Fresh(t)
    BY <2>1, <2>2 DEF Once
  <2>4. Becomes(c, LayoutOf(c[1]), t, records[LayoutOf(c[1])][t].status, "issued")
    BY <1>1, <1>2, BorneIs
  <2>5. Only(LayoutOf(c[1]), t, "issued")
    BY <2>3, <2>4 DEF Becomes, Fresh, Only, Present
  <2> QED BY <1>2, <2>1, <2>2, <2>3, <2>5 DEF Borne, Typed
<1>3. ASSUME NEW l \in Layouts, Spent(c, l) \/ Ended(c, l) \/ Taken(c, l)
      PROVE  /\ t \in Tickets /\ Present(records[l][t]) /\ born'[t] = born[t] /\ deadline' = deadline
  <2>1. pc[c] # "idle" /\ Present(Under(l, t)) /\ UNCHANGED <<born, deadline>>
    BY <1>3 DEF Spent, Ended, Taken, Written
  <2> QED BY <1>1, <2>1, Found
<1>4. ASSUME NEW l \in Layouts, Spent(c, l)
      PROVE  /\ records[l][t].status = "issued" /\ Only(l, t, "redeemed") /\ won[t] = {}
             /\ won'[t] = {c} /\ took[t] = {} /\ took'[t] = took[t] /\ born'[t] = born[t] /\ deadline' = deadline
  <2>1. Becomes(c, l, t, "issued", "redeemed")
    BY <1>1, <1>4, WriteIs
  <2>2. Only(l, t, "redeemed")
    BY <1>3, <1>4, <2>1, Alone
  <2>3. records[l][t].status = "issued" /\ won[t] = {} /\ took[t] = {}
    BY <1>3, <1>4, <2>1 DEF Past, Becomes
  <2> QED BY <1>3, <1>4, <2>2, <2>3 DEF Spent, Typed
<1>5. ASSUME NEW l \in Layouts, Ended(c, l)
      PROVE  /\ records[l][t].status = "redeemed" /\ won[t] # {} /\ took[t] = {}
             /\ Only(l, t, "completed") \/ Only(l, t, "failed")
             /\ won'[t] = won[t] /\ took'[t] = took[t] /\ born'[t] = born[t] /\ deadline' = deadline
  <2>1. PICK e \in {"completed", "failed"} : Becomes(c, l, t, records[l][t].status, e)
    BY <1>1, <1>5, WriteIs
  <2>2. Only(l, t, e)
    BY <1>3, <1>5, <2>1, Alone
  <2>3. won[t] # {} /\ records[l][t].status = "redeemed"
    BY <1>3, <1>5 DEF Ended, Holding, Unended, Present
  <2>4. took[t] = {}
    BY <1>3, <1>5, <2>3 DEF Past
  <2> QED BY <1>3, <1>5, <2>2, <2>3, <2>4 DEF Ended
<1>6. ASSUME NEW l \in Layouts, Taken(c, l)
      PROVE  /\ records[l][t].status = "completed" /\ Only(l, t, "claimed")
             /\ took[t] = {} /\ took'[t] = {c} /\ won'[t] = won[t] /\ born'[t] = born[t] /\ deadline' = deadline
  <2>1. Becomes(c, l, t, "completed", "claimed")
    BY <1>1, <1>6, WriteIs
  <2>2. Only(l, t, "claimed")
    BY <1>3, <1>6, <2>1, Alone
  <2>3. records[l][t].status = "completed" /\ took[t] = {}
    BY <1>3, <1>6, <2>1 DEF Past, Becomes
  <2> QED BY <1>3, <1>6, <2>2, <2>3 DEF Taken, Typed
<1> QED BY <1>2, <1>4, <1>5, <1>6

LEMMA PastStep ==
  ASSUME OnceInv, [Next]_vars
  PROVE  Past'
<1> USE DEF OnceInv, IInv
<1> SUFFICES ASSUME NEW t \in Tickets, NEW l \in Layouts
             PROVE  /\ won'[t] # {} => records'[l][t].status # "issued"
                    /\ took'[t] # {} => records'[l][t].status \in {"claimed", "absent"}
  BY DEF Past
<1>1. CASE Still(t)
  BY <1>1 DEF Still, Past
<1>2. ASSUME NEW c \in Callers, Wrote(c), call[c].ticket = t
      PROVE  /\ won'[t] # {} => records'[l][t].status # "issued"
             /\ took'[t] # {} => records'[l][t].status \in {"claimed", "absent"}
  <2>1. CASE Borne(c)
    <3>1. Fresh(t) /\ won'[t] = won[t] /\ took'[t] = took[t]
      BY <1>2, <2>1, Writes
    <3> QED BY <3>1 DEF Fresh
  <2>2. ASSUME NEW m \in Layouts, NEW s, Only(m, t, s), s # "issued",
               took'[t] # {} => s = "claimed"
        PROVE  /\ won'[t] # {} => records'[l][t].status # "issued"
               /\ took'[t] # {} => records'[l][t].status \in {"claimed", "absent"}
    BY <2>2 DEF Only
  <2>3. ASSUME NEW m \in Layouts, Spent(c, m) \/ Ended(c, m) \/ Taken(c, m)
        PROVE  \E s \in {"redeemed", "completed", "failed", "claimed"} :
                 Only(m, t, s) /\ (took'[t] # {} => s = "claimed")
    <3>1. CASE Spent(c, m)
      BY <1>2, <3>1, Writes
    <3>2. CASE Ended(c, m)
      <4>1. (Only(m, t, "completed") \/ Only(m, t, "failed")) /\ took'[t] = {}
        BY <1>2, <3>2, Writes
      <4> QED BY <4>1
    <3>3. CASE Taken(c, m)
      BY <1>2, <3>3, Writes
    <3> QED BY <2>3, <3>1, <3>2, <3>3
  <2> QED BY <1>2, <2>1, <2>2, <2>3 DEF Wrote
<1> QED BY <1>1, <1>2, TicketMove DEF Same

LEMMA IndexOf ==
  ASSUME Typed, AllPlaced, [Next]_vars, NEW t \in Tickets
  PROVE  \/ \A l \in Layouts : index'[l][t] \in {index[l][t], 0}
         \/ /\ \E c \in Callers : pc[c] = "index" /\ Puts(c, t)
            /\ Fade /\ clock' = clock
            /\ \A l \in Layouts : index'[l][t] \in {index[l][t], clock + KeyTtl}
<1>1. CASE Cease \/ \E c \in Callers : Starts(c)
  BY <1>1, Begins DEF Cease, Started, keyVars
<1>2. ASSUME NEW c \in Callers, Step(c), pc[c] = "index",
             index' = [index EXCEPT ![LayoutOf(c[1])][call[c].ticket] = clock + KeyTtl]
      PROVE  \/ \A l \in Layouts : index'[l][t] \in {index[l][t], 0}
             \/ /\ pc[c] = "index" /\ Puts(c, t) /\ Fade /\ clock' = clock
                /\ \A l \in Layouts : index'[l][t] \in {index[l][t], clock + KeyTtl}
  <2>1. call[c].ticket \in Tickets /\ LayoutOf(c[1]) \in Layouts /\ clock + KeyTtl \in Nat
        /\ index \in [Layouts -> [Tickets -> Nat]]
    BY <1>2, Constants, KeyTtlType DEF AllPlaced, Placed, Typed
  <2>2. \A l \in Layouts : index'[l][t] = IF l = LayoutOf(c[1]) /\ t = call[c].ticket
                                          THEN clock + KeyTtl ELSE index[l][t]
    BY <1>2, <2>1, OneKey
  <2>3. Fade /\ clock' = clock
    BY <1>2, Steps DEF Advance, Wrote, Borne, Spent, Ended, Taken
  <2>4. CASE t = call[c].ticket
    BY <1>2, <2>2, <2>3, <2>4 DEF Puts
  <2>5. CASE t # call[c].ticket
    BY <2>2, <2>5
  <2> QED BY <2>4, <2>5
<1>3. ASSUME NEW c \in Callers, Step(c)
      PROVE  \/ \A l \in Layouts : index'[l][t] \in {index[l][t], 0}
             \/ /\ pc[c] = "index"
                /\ index' = [index EXCEPT ![LayoutOf(c[1])][call[c].ticket] = clock + KeyTtl]
  BY <1>3, Steps DEF Advance, IndexMove
<1> QED BY <1>1, <1>2, <1>3, OtherSteps

LEMMA OnceStep ==
  ASSUME OnceInv, [Next]_vars, ~Resends
  PROVE  Once'
<1> USE DEF OnceInv, IInv
<1>1. ASSUME NEW t \in Tickets, born[t] = -1, NEW c \in Callers, Step(c), Wrote(c), call[c].ticket = t
      PROVE  Borne(c) /\ t \in minted /\ born'[t] # -1
  <2>1. Fresh(t)
    BY <1>1 DEF Once
  <2>2. ASSUME NEW l \in Layouts, Spent(c, l) \/ Ended(c, l) \/ Taken(c, l) PROVE FALSE
    <3>1. Present(Under(l, t))
      BY <1>1, <2>2 DEF Spent, Ended, Taken, Written
    <3> QED BY <2>1, <3>1, Found DEF Fresh
  <2>3. Borne(c)
    BY <1>1, <2>2 DEF Wrote
  <2>4. t \in minted /\ born'[t] = clock /\ clock \in Nat
    BY <1>1, <2>3, BorneIs, Writes DEF AllPlaced, Typed
  <2> QED BY <2>3, <2>4
<1>2. ASSUME NEW t \in Tickets, born'[t] = -1 PROVE Fresh(t)' /\ Still(t)
  <2>1. CASE Still(t)
    BY <1>2, <2>1 DEF Still, Once, Fresh
  <2>2. ASSUME NEW c \in Callers, Step(c), Wrote(c), call[c].ticket = t PROVE FALSE
    <3>2. CASE Borne(c)
      BY <1>2, <2>2, <3>2, Writes DEF Typed
    <3>3. ASSUME NEW l \in Layouts, Spent(c, l) \/ Ended(c, l) \/ Taken(c, l) PROVE FALSE
      BY <1>1, <1>2, <2>2, <3>3, Writes
    <3> QED BY <2>2, <3>2, <3>3 DEF Wrote
  <2> QED BY <2>1, <2>2, TicketMove DEF Same
<1>3. ASSUME NEW t \in Tickets, t \notin minted'
      PROVE  born'[t] = -1 /\ Unindexed(t)'
  <2>1. t \notin minted /\ born[t] = -1 /\ Unindexed(t)
    BY <1>3, Growth DEF Once
  <2>2. Still(t)
    BY <1>1, <2>1, TicketMove DEF Same
  <2>3. \A c \in Callers : ~Puts(c, t)
    BY <2>1 DEF Puts, AllPlaced, Placed
  <2>4. \A l \in Layouts : index'[l][t] \in {index[l][t], 0}
    BY <2>3, IndexOf
  <2> QED BY <2>1, <2>2, <2>4 DEF Still, Unindexed
<1>4. ASSUME NEW d \in Callers, pc'[d] = "write"
      PROVE  LET t == call'[d].ticket IN born'[t] = -1 /\ \A l \in Layouts : index'[l][t] = 0
  <2>1. Placed(d)'
    BY PlacedStep DEF AllPlaced
  <2>2. PICK t \in Tickets : t = call'[d].ticket
    BY <1>4, <2>1 DEF Placed
  <2>3. CASE \E c \in Callers : Starts(c) /\ c = d
    <3>1. Started(d)
      BY <2>3, Begins
    <3>2. t \notin minted /\ born' = born /\ index' = index
      BY <1>4, <2>2, <3>1 DEF Started, keyVars, historyVars
    <3> QED BY <2>2, <3>2 DEF Once, Unindexed
  <2>4. CASE pc[d] = "write" /\ call'[d].ticket = call[d].ticket
             /\ ~\E c \in Callers : Step(c) /\ c = d
    <3>1. born[t] = -1 /\ Unindexed(t) /\ Puts(d, t)
      BY <2>2, <2>4 DEF Once, Puts
    <3>2. \A c \in Callers : Puts(c, t) => c = d
      BY <2>2, <3>1 DEF OnePut
    <3>3. ASSUME NEW c \in Callers, Step(c), Wrote(c), call[c].ticket = t PROVE FALSE
      <4>1. Borne(c)
        BY <1>1, <2>2, <3>1, <3>3
      <4>2. Puts(c, t)
        BY <3>3, <4>1 DEF Borne, Puts
      <4> QED BY <2>4, <3>2, <3>3, <4>2
    <3>4. Still(t)
      BY <2>2, <3>3, TicketMove DEF Same
    <3>5. \A l \in Layouts : index'[l][t] \in {index[l][t], 0}
      BY <2>4, <3>2, IndexOf
    <3> QED BY <2>2, <3>1, <3>4, <3>5 DEF Still, Unindexed
  <2>5. \/ \E c \in Callers : Starts(c) /\ c = d
        \/ pc[d] = "write" /\ call'[d].ticket = call[d].ticket /\ ~\E c \in Callers : Step(c) /\ c = d
    <3>1. ~Step(d)
      BY <1>4, Steps DEF Advance, Moves, Onward
    <3>2. CASE Cease
      BY <1>4, <3>1, <3>2 DEF Cease
    <3>3. ASSUME NEW c \in Callers, Step(c) PROVE pc[d] = "write" /\ call'[d].ticket = call[d].ticket
      BY <1>4, <3>1, <3>3, Steps DEF Advance, Moves, Mine
    <3>4. ASSUME NEW c \in Callers, Starts(c), c # d
          PROVE  pc[d] = "write" /\ call'[d].ticket = call[d].ticket
      BY <1>4, <3>4, Begins DEF Started, Mine
    <3> QED BY <3>1, <3>2, <3>3, <3>4, OtherSteps
  <2> QED BY <2>3, <2>4, <2>5
<1> QED BY <1>2, <1>3, <1>4 DEF Once, Unindexed

(* Calls that finish were there before, or take over an upload.            *)
LEMMA HoldersMove ==
  ASSUME Typed, AllPlaced, [Next]_vars, ~Resends
  PROVE  \/ \E c \in Callers, t \in Tickets :
              /\ <<c[1], t>> \in uploading /\ uploading' = uploading \ {<<c[1], t>>} /\ Holds(c, t)'
              /\ Fade
              /\ \A d \in Callers, u \in Tickets : Holds(d, u)' => Holds(d, u) \/ (d = c /\ u = t)
         \/ /\ \A d \in Callers, u \in Tickets : Holds(d, u)' => Holds(d, u)
            /\ \/ Fade /\ uploading' \subseteq uploading
               \/ \E c \in Callers : Step(c) /\ Wrote(c) /\ pc'[c] # "act"
<1>1. CASE Cease
  BY <1>1 DEF Cease, Holds
<1>2. ASSUME NEW c \in Callers, Started(c), call'[c].op = "finish"
      PROVE  \E t \in Tickets :
              /\ <<c[1], t>> \in uploading /\ uploading' = uploading \ {<<c[1], t>>} /\ Holds(c, t)'
              /\ Fade
              /\ \A d \in Callers, u \in Tickets : Holds(d, u)' => Holds(d, u) \/ (d = c /\ u = t)
  <2>1. PICK t \in Tickets : t = call'[c].ticket
    BY <1>2 DEF Started
  <2>2. Fade
    BY <1>2, Stays DEF Started, keyVars
  <2>3. <<c[1], t>> \in uploading /\ uploading' = uploading \ {<<c[1], t>>} /\ Holds(c, t)'
    BY <1>2, <2>1 DEF Started, Holds
  <2>4. \A d \in Callers, u \in Tickets : Holds(d, u)' => Holds(d, u) \/ (d = c /\ u = t)
    BY <1>2, <2>1 DEF Started, Mine, Holds
  <2> QED BY <2>2, <2>3, <2>4
<1>3. ASSUME NEW c \in Callers, Started(c), call'[c].op # "finish"
      PROVE  /\ \A d \in Callers, u \in Tickets : Holds(d, u)' => Holds(d, u)
             /\ Fade /\ uploading' \subseteq uploading
  <2>1. Fade
    BY <1>3, Stays DEF Started, keyVars
  <2>2. \A d \in Callers, u \in Tickets : Holds(d, u)' => Holds(d, u)
    BY <1>3 DEF Started, Mine, Holds
  <2> QED BY <1>3, <2>1, <2>2 DEF Started
<1>4. ASSUME NEW c \in Callers, Step(c)
      PROVE  /\ \A d \in Callers, u \in Tickets : Holds(d, u)' => Holds(d, u)
             /\ \/ Fade /\ uploading' \subseteq uploading
                \/ Wrote(c) /\ pc'[c] # "act"
  <2>1. Advance(c) /\ Moves(c)
    BY <1>4, Steps DEF Advance
  <2>2. \A d \in Callers, u \in Tickets : Holds(d, u)' => Holds(d, u)
    BY <2>1 DEF Moves, Mine, Onward, Holds
  <2>3. Wrote(c) => pc'[c] # "act"
    BY <2>1 DEF Moves, Onward, Wrote, Borne, Spent, Ended, Taken
  <2> QED BY <2>1, <2>2, <2>3 DEF Advance
<1> QED BY <1>1, <1>2, <1>3, <1>4, Begins, OtherSteps

LEMMA HoldingStep ==
  ASSUME OnceInv, [Next]_vars, ~Resends
  PROVE  Holding'
<1> USE DEF OnceInv, IInv
<1> DEFINE Unique ==
             /\ \A t \in Tickets, c \in Callers : Holds(c, t) =>
                  /\ Unended(t)
                  /\ \A d \in Callers : Holds(d, t) => d = c
                  /\ \A p \in Processes : <<p, t>> \notin uploading
             /\ \A t \in Tickets, p \in Processes : <<p, t>> \in uploading =>
                  /\ Unended(t)
                  /\ \A q \in Processes : <<q, t>> \in uploading => q = p
<1>1. Unique
  BY DEF Holding
<1>2. ASSUME NEW t \in Tickets, Still(t), Unended(t) PROVE Unended(t)'
  BY <1>2 DEF Still, Unended
<1>3. ASSUME Fade, NEW t \in Tickets, Unended(t) PROVE Unended(t)'
  BY <1>3 DEF Fade, Unended, historyVars
<1>4. CASE \E c \in Callers, t \in Tickets :
             /\ <<c[1], t>> \in uploading /\ uploading' = uploading \ {<<c[1], t>>} /\ Holds(c, t)'
             /\ Fade
             /\ \A d \in Callers, u \in Tickets : Holds(d, u)' => Holds(d, u) \/ (d = c /\ u = t)
  <2>1. PICK c \in Callers, t \in Tickets :
             /\ <<c[1], t>> \in uploading /\ uploading' = uploading \ {<<c[1], t>>} /\ Holds(c, t)'
             /\ Fade
             /\ \A d \in Callers, u \in Tickets : Holds(d, u)' => Holds(d, u) \/ (d = c /\ u = t)
    BY <1>4
  <2>2. c[1] \in Processes
    BY Constants
  <2>3. Unended(t) /\ (\A q \in Processes : <<q, t>> \in uploading => q = c[1])
        /\ \A d \in Callers : ~Holds(d, t)
    BY <1>1, <2>1, <2>2
  <2>4. ASSUME NEW u \in Tickets, NEW d \in Callers, Holds(d, u)'
        PROVE  /\ Unended(u)'
               /\ \A e \in Callers : Holds(e, u)' => e = d
               /\ \A p \in Processes : <<p, u>> \notin uploading'
    <3>1. CASE u = t
      BY <1>3, <2>1, <2>3, <2>4, <3>1
    <3>2. CASE u # t
      BY <1>1, <1>3, <2>1, <2>4, <3>2
    <3> QED BY <3>1, <3>2
  <2>5. ASSUME NEW u \in Tickets, NEW p \in Processes, <<p, u>> \in uploading'
        PROVE  /\ Unended(u)'
               /\ \A q \in Processes : <<q, u>> \in uploading' => q = p
    BY <1>1, <1>3, <2>1, <2>5
  <2> QED BY <2>4, <2>5 DEF Holding
<1>5. CASE /\ \A d \in Callers, u \in Tickets : Holds(d, u)' => Holds(d, u)
           /\ Fade /\ uploading' \subseteq uploading
  <2>1. ASSUME NEW u \in Tickets, NEW d \in Callers, Holds(d, u)'
        PROVE  /\ Unended(u)'
               /\ \A e \in Callers : Holds(e, u)' => e = d
               /\ \A p \in Processes : <<p, u>> \notin uploading'
    BY <1>1, <1>3, <1>5, <2>1
  <2>2. ASSUME NEW u \in Tickets, NEW p \in Processes, <<p, u>> \in uploading'
        PROVE  /\ Unended(u)'
               /\ \A q \in Processes : <<q, u>> \in uploading' => q = p
    BY <1>1, <1>3, <1>5, <2>2
  <2> QED BY <2>1, <2>2 DEF Holding
<1>6. CASE /\ \A d \in Callers, u \in Tickets : Holds(d, u)' => Holds(d, u)
           /\ \E c \in Callers : Step(c) /\ Wrote(c) /\ pc'[c] # "act"
  <2>1. PICK c \in Callers : Step(c) /\ Wrote(c) /\ pc'[c] # "act"
    BY <1>6
  <2>2. PICK t \in Tickets : t = call[c].ticket /\ \A u \in Tickets \ {t} : Still(u)
    BY <2>1, OthersStay DEF AllPlaced, Same
  <2>3. CASE /\ \A d \in Callers : ~Holds(d, t)'
             /\ uploading' = uploading /\ \A p \in Processes : <<p, t>> \notin uploading
    <3>1. ASSUME NEW u \in Tickets, NEW d \in Callers, Holds(d, u)'
          PROVE  /\ Unended(u)'
                 /\ \A e \in Callers : Holds(e, u)' => e = d
                 /\ \A p \in Processes : <<p, u>> \notin uploading'
      BY <1>1, <1>2, <1>6, <2>2, <2>3, <3>1
    <3>2. ASSUME NEW u \in Tickets, NEW p \in Processes, <<p, u>> \in uploading'
          PROVE  /\ Unended(u)'
                 /\ \A q \in Processes : <<q, u>> \in uploading' => q = p
      BY <1>1, <1>2, <1>6, <2>2, <2>3, <3>2
    <3> QED BY <3>1, <3>2 DEF Holding
  <2>4. CASE /\ \A d \in Callers : ~Holds(d, t)'
             /\ \A p \in Processes : <<p, t>> \notin uploading
             /\ uploading' = uploading \cup {<<c[1], t>>} /\ Unended(t)'
    <3>1. ASSUME NEW u \in Tickets, NEW d \in Callers, Holds(d, u)'
          PROVE  /\ Unended(u)'
                 /\ \A e \in Callers : Holds(e, u)' => e = d
                 /\ \A p \in Processes : <<p, u>> \notin uploading'
      BY <1>1, <1>2, <1>6, <2>2, <2>4, <3>1
    <3>2. ASSUME NEW u \in Tickets, NEW p \in Processes, <<p, u>> \in uploading'
          PROVE  /\ Unended(u)'
                 /\ \A q \in Processes : <<q, u>> \in uploading' => q = p
      BY <1>1, <1>2, <1>6, <2>2, <2>4, <3>2
    <3> QED BY <3>1, <3>2 DEF Holding
  <2>5. ~Unended(t) => /\ \A d \in Callers : ~Holds(d, t)'
                       /\ \A p \in Processes : <<p, t>> \notin uploading
    BY <1>1, <1>6, <2>2
  <2>6. CASE Borne(c)
    <3>1. ~Unended(t) /\ uploading' = uploading
      BY <2>2, <2>6, Writes DEF Fresh, Unended, Borne
    <3> QED BY <2>3, <2>5, <3>1
  <2>7. ASSUME NEW l \in Layouts, Spent(c, l) PROVE Holding'
    <3>1. Only(l, t, "redeemed") /\ won[t] = {} /\ won'[t] = {c}
      BY <2>2, <2>7, Writes
    <3>2. ~Unended(t) /\ Unended(t)'
      BY <3>1 DEF Unended, Only
    <3>3. uploading' \in {uploading, uploading \cup {<<c[1], t>>}}
      BY <2>2, <2>7 DEF Spent
    <3> QED BY <2>3, <2>4, <2>5, <3>2, <3>3
  <2>8. ASSUME NEW l \in Layouts, Ended(c, l) PROVE Holding'
    <3>1. Holds(c, t) /\ uploading' = uploading /\ pc[c] = "act"
      BY <2>2, <2>8 DEF Ended
    <3>2. pc'[c] = "idle"
      BY <2>1, <3>1, Steps DEF Advance, Moves, Onward
    <3>3. ~Holds(c, t)'
      BY <3>2 DEF Holds
    <3>4. \A d \in Callers : ~Holds(d, t)'
      BY <1>1, <1>6, <3>1, <3>3
    <3> QED BY <1>1, <2>3, <3>1, <3>4
  <2>9. ASSUME NEW l \in Layouts, Taken(c, l) PROVE Holding'
    <3>1. records[l][t].status = "completed" /\ uploading' = uploading
      BY <2>2, <2>9 DEF Taken
    <3>2. ~Unended(t)
      BY <3>1 DEF Unended
    <3> QED BY <2>3, <2>5, <3>1, <3>2
  <2> QED BY <2>1, <2>6, <2>7, <2>8, <2>9 DEF Wrote
<1> QED BY <1>4, <1>5, <1>6, HoldersMove

LEMMA OnceInit == Init => OnceInv
<1> SUFFICES ASSUME Init PROVE OnceInv
  OBVIOUS
<1>1. \A t \in Tickets : born[t] = -1 /\ Fresh(t) /\ Unindexed(t)
  BY DEF Init, Fresh, Unindexed, Present, NoRecord
<1>2. Once /\ Past /\ Holding
  BY <1>1 DEF Init, Once, Fresh, Past, Holding, Holds
<1> QED BY <1>2, IInvInit DEF OnceInv

LEMMA OnceInvHolds == ASSUME ~Resends PROVE Spec => []OnceInv
<1>1. OnceInv /\ [Next]_vars => OnceInv'
  BY IInvStep, OnceStep, PastStep, HoldingStep DEF OnceInv
<1> QED BY <1>1, OnceInit, PTL DEF Spec

----------------------------------------------------------------------------
(* Keys.                                                                   *)
LEMMA LastingStep ==
  ASSUME OnceInv, Lasting, [Next]_vars, KeyTtl = Retention
  PROVE  Lasting'
<1> USE DEF OnceInv, IInv
<1> SUFFICES ASSUME NEW t \in Tickets, NEW l \in Layouts
             PROVE  /\ born'[t] <= clock'
                    /\ deadline'[l][t] <= MaxClock + Retention
                    /\ deadline'[l][t] # 0 => deadline'[l][t] >= born'[t] + Retention
                    /\ index'[l][t] # 0 => index'[l][t] >= born'[t] + Retention
  BY DEF Lasting
<1>1. /\ clock \in 0..MaxClock /\ Retention \in Nat /\ MaxClock \in Nat
      /\ deadline[l][t] \in Nat /\ index[l][t] \in Nat /\ born[t] \in Nat \cup {-1}
  BY Constants DEF Typed
<1>2. clock' \in {clock, clock + 1}
  <2>1. CASE Fade
    BY <2>1 DEF Fade
  <2>2. ASSUME NEW c \in Callers, Step(c) PROVE clock' = clock
    BY <2>2, Steps DEF Advance
  <2> QED BY <2>1, <2>2, TicketMove
<1>3. /\ born[t] <= clock /\ deadline[l][t] <= MaxClock + Retention
      /\ deadline[l][t] # 0 => deadline[l][t] >= born[t] + Retention
      /\ index[l][t] # 0 => index[l][t] >= born[t] + Retention
  BY DEF Lasting
<1>4. CASE Still(t)
  <2>1. born'[t] = born[t] /\ deadline'[l][t] \in {deadline[l][t], 0}
    BY <1>4 DEF Still
  <2>2. index'[l][t] \in {index[l][t], 0} \/ index'[l][t] = clock + Retention
    BY IndexOf
  <2> QED BY <1>1, <1>2, <1>3, <2>1, <2>2
<1>5. ASSUME NEW c \in Callers, Step(c), Wrote(c), call[c].ticket = t, ~Fade
      PROVE  /\ born'[t] <= clock'
             /\ deadline'[l][t] <= MaxClock + Retention
             /\ deadline'[l][t] # 0 => deadline'[l][t] >= born'[t] + Retention
             /\ index'[l][t] # 0 => index'[l][t] >= born'[t] + Retention
  <2>1. index'[l][t] \in {index[l][t], 0}
    BY <1>5, IndexOf
  <2>2. CASE Borne(c)
    <3>1. born'[t] = clock /\ deadline[l][t] = 0 /\ index[l][t] = 0
      BY <1>5, <2>2, Writes DEF Fresh, Unindexed
    <3>2. deadline'[l][t] \in {clock + KeyTtl, deadline[l][t]}
      BY <1>5, <2>2, BorneIs DEF AllPlaced
    <3> QED BY <1>1, <1>2, <2>1, <3>1, <3>2
  <2>3. ASSUME NEW m \in Layouts, Spent(c, m) \/ Ended(c, m) \/ Taken(c, m)
        PROVE  born'[t] = born[t] /\ deadline' = deadline
    BY <1>5, <2>3, Writes
  <2>4. CASE born'[t] = born[t] /\ deadline' = deadline
    BY <1>1, <1>2, <1>3, <2>1, <2>4
  <2> QED BY <1>5, <2>2, <2>3, <2>4 DEF Wrote
<1>6. Fade => Still(t)
  BY DEF Fade, Still, historyVars
<1> QED BY <1>4, <1>5, <1>6, TicketMove DEF Same

(* When the retention is a whole number of seconds and no command is sent  *)
(* twice, the server keeps a record and its index for as long as the       *)
(* gateway promised, and no write makes a key that stays for ever.         *)
THEOREM KeysOutlast ==
  ASSUME ~Resends, KeyTtl = Retention
  PROVE  Spec => [](KeysCoverRetention /\ NothingImmortal)
<1>1. Init => Lasting
  BY Constants DEF Init, Lasting
<1>2. OnceInv /\ Lasting /\ [Next]_vars => Lasting'
  BY LastingStep
<1>3. OnceInv /\ Lasting => KeysCoverRetention /\ NothingImmortal
  <2> SUFFICES ASSUME OnceInv, Lasting, NEW l \in Layouts, NEW t \in Tickets
               PROVE  /\ deadline[l][t] # 0 => deadline[l][t] >= born[t] + Retention
                      /\ index[l][t] # 0 => index[l][t] >= born[t] + Retention
                      /\ deadline[l][t] # Never
    BY DEF KeysCoverRetention, NothingImmortal
  <2>1. deadline[l][t] \in Nat /\ MaxClock \in Nat /\ Retention \in Nat
    BY Constants DEF OnceInv, IInv, Typed
  <2> QED BY <2>1 DEF Lasting, Never
<1> QED BY <1>1, <1>2, <1>3, OnceInvHolds, PTL DEF Spec

----------------------------------------------------------------------------
(* The contract.                                                           *)
LifeOf(t) == IF Present(Held(t)) THEN Held(t).status ELSE IF born[t] # -1 THEN "gone" ELSE "unborn"

LEMMA LifeIs ==
  /\ Life = [t \in Tickets |-> LifeOf(t)]
  /\ Life' = [t \in Tickets |-> LifeOf(t)']
BY DEF Life, LifeOf

LEMMA SameLife ==
  ASSUME NEW t \in Tickets, Same(t)
  PROVE  LifeOf(t)' = LifeOf(t)
<1>1. "new" \in Layouts /\ "old" \in Layouts
  BY DEF Layouts
<1>2. Under("new", t)' = Under("new", t) /\ Under("old", t)' = Under("old", t)
  BY <1>1 DEF Same, Still, Under
<1> QED BY <1>2 DEF Same, Still, LifeOf, Held

(* A ticket that nothing is written for stays what it is, or is gone.      *)
LEMMA FadingLife ==
  ASSUME OnceInv, NEW t \in Tickets, Still(t), Fade
  PROVE  LifeOf(t)' = LifeOf(t) \/ (LifeOf(t)' = "gone" /\ LifeOf(t) # "unborn")
<1> USE DEF OnceInv, IInv
<1>1. clock \in Nat /\ \A l \in Layouts : deadline[l][t] \in Nat
  BY DEF Typed
<1>2. ASSUME NEW l \in Layouts, Present(Under(l, t)') PROVE Under(l, t)' = Under(l, t)
  <2>1. clock' < deadline'[l][t]
    BY <1>2 DEF Under, Present, NoRecord
  <2>2. clock < deadline[l][t]
    BY <1>1, <2>1 DEF Still, Fade
  <2> QED BY <2>1, <2>2 DEF Under, Still
<1>3. "new" \in Layouts /\ "old" \in Layouts
  BY DEF Layouts
<1>4. CASE Present(Held(t)')
  <2>1. PICK l \in Layouts : Present(Under(l, t)') /\ Held(t)' = Under(l, t)'
    BY <1>3, <1>4 DEF Held
  <2>2. Under(l, t) = Held(t)' /\ Present(Under(l, t))
    BY <1>2, <2>1
  <2>3. Held(t) = Held(t)'
    BY <2>2, HeldIs, Found
  <2> QED BY <2>3 DEF LifeOf, Still
<1>5. CASE ~Present(Held(t)') /\ born[t] # -1
  <2>1. LifeOf(t)' = "gone"
    BY <1>5 DEF LifeOf, Still
  <2>2. LifeOf(t) # "unborn"
    BY <1>5, HeldIs DEF LifeOf, Statuses
  <2> QED BY <2>1, <2>2
<1>6. CASE ~Present(Held(t)') /\ born[t] = -1
  <2>1. ~Present(Held(t))
    BY <1>6, HeldIs DEF Once, Fresh
  <2> QED BY <1>6, <2>1 DEF LifeOf, Still
<1> QED BY <1>4, <1>5, <1>6

LEMMA ContractForget ==
  ASSUME OnceInv, Fade, \A t \in Tickets : Still(t)
  PROVE  [Contract!ContractNext]_Contract!contractVars
<1> DEFINE forgotten == {t \in Tickets : LifeOf(t)' # LifeOf(t)}
<1>1. \A u \in Tickets : LifeOf(u)' = IF u \in forgotten THEN "gone" ELSE LifeOf(u)
  BY FadingLife
<1>2. \A u \in forgotten : LifeOf(u) # "unborn"
  BY FadingLife
<1>3. won' = won /\ took' = took
  BY DEF Fade, historyVars
<1>4. Contract!Forget(forgotten)
  BY <1>1, <1>2, <1>3, LifeIs DEF Contract!Forget
<1>5. forgotten \in SUBSET Tickets
  OBVIOUS
<1> QED BY <1>4, <1>5 DEF Contract!ContractNext

(* The life of a ticket that is written for, before and after.             *)
LEMMA WrittenLife ==
  ASSUME OnceInv, NEW c \in Callers, NEW t \in Tickets, t = call[c].ticket, NEW l \in Layouts,
         Spent(c, l) \/ Ended(c, l) \/ Taken(c, l), NEW s \in Statuses, Only(l, t, s)
  PROVE  LifeOf(t) = records[l][t].status /\ LifeOf(t)' = s
<1> USE DEF OnceInv, IInv
<1>1. Present(Under(l, t)) /\ UNCHANGED <<clock, deadline>>
  BY DEF Spent, Ended, Taken, Written
<1>2. Present(records[l][t]) /\ clock < deadline[l][t] /\ clock' < deadline'[l][t]
  BY <1>1, Found
<1>3. Held(t) = records[l][t]
  BY <1>2, HeldIs
<1>4. LifeOf(t) = records[l][t].status
  BY <1>2, <1>3 DEF LifeOf
<1>5. Held(t)'.status = s /\ Present(Held(t)')
  <2>1. Under(l, t)'.status = s /\ s # "absent"
    BY <1>2 DEF Only, Under, Statuses
  <2>2. \A m \in Layouts : m # l => ~Present(Under(m, t)')
    BY DEF Only, Under, Present, NoRecord
  <2> QED BY <2>1, <2>2 DEF Held, Layouts, Present
<1> QED BY <1>4, <1>5 DEF LifeOf

LEMMA BornLife ==
  ASSUME OnceInv, NEW c \in Callers, NEW t \in Tickets, t = call[c].ticket, Borne(c)
  PROVE  LifeOf(t) = "unborn" /\ LifeOf(t)' = "issued"
<1> USE DEF OnceInv, IInv
<1> DEFINE l == LayoutOf(c[1])
<1>1. Fresh(t) /\ Only(l, t, "issued") /\ l \in Layouts
  BY Writes, Constants
<1>2. LifeOf(t) = "unborn"
  BY <1>1, HeldIs DEF Fresh, LifeOf
<1>3. clock' < deadline'[l][t]
  <2>1. deadline'[l][t] = clock + KeyTtl /\ clock' = clock /\ clock \in Nat
    BY <1>1, BorneIs DEF AllPlaced, Borne, Typed
  <2>2. KeyTtl > 0
    BY KeyTtlPositive
  <2> QED BY <2>1, <2>2, KeyTtlType
<1>4. Held(t)'.status = "issued" /\ Present(Held(t)')
  <2>1. Under(l, t)'.status = "issued"
    BY <1>1, <1>3 DEF Only, Under
  <2>2. \A m \in Layouts : m # l => ~Present(Under(m, t)')
    BY <1>1 DEF Only, Under, Present, NoRecord
  <2> QED BY <1>1, <2>1, <2>2 DEF Held, Layouts, Present
<1> QED BY <1>2, <1>4 DEF LifeOf

LEMMA ContractWrite ==
  ASSUME OnceInv, NEW c \in Callers, Wrote(c)
  PROVE  Contract!ContractNext
<1> USE DEF OnceInv, IInv
<1>1. PICK t \in Tickets : t = call[c].ticket /\ \A u \in Tickets \ {t} : Same(u)
  BY OthersStay DEF AllPlaced
<1>2. \A u \in Tickets \ {t} : LifeOf(u)' = LifeOf(u) /\ won'[u] = won[u] /\ took'[u] = took[u]
  BY <1>1, SameLife DEF Same, Still
<1>3. ASSUME NEW s, LifeOf(t)' = s PROVE Life' = [Life EXCEPT ![t] = s]
  BY <1>2, <1>3, LifeIs
<1>4. CASE Borne(c)
  <2>1. LifeOf(t) = "unborn" /\ LifeOf(t)' = "issued"
    BY <1>1, <1>4, BornLife
  <2>2. won' = won /\ took' = took
    BY <1>4 DEF Borne
  <2>3. Contract!Issue(t, {})
    BY <1>2, <2>1, <2>2, LifeIs DEF Contract!Issue
  <2>4. {} \in SUBSET Tickets
    OBVIOUS
  <2> QED BY <2>3, <2>4 DEF Contract!ContractNext
<1>5. ASSUME NEW l \in Layouts, Spent(c, l) PROVE Contract!ContractNext
  <2>1. /\ records[l][t].status = "issued" /\ Only(l, t, "redeemed") /\ won[t] = {} /\ took' = took
        /\ won' = [won EXCEPT ![t] = @ \cup {c}]
    BY <1>1, <1>5, Writes DEF Spent
  <2>2. LifeOf(t) = "issued" /\ LifeOf(t)' = "redeemed"
    BY <1>1, <1>5, <2>1, WrittenLife DEF Statuses
  <2>3. won' = [won EXCEPT ![t] = {c}]
    BY <2>1
  <2>4. Contract!Spend(t, c)
    BY <1>3, <2>1, <2>2, <2>3, LifeIs DEF Contract!Spend
  <2> QED BY <2>4 DEF Contract!ContractNext
<1>6. ASSUME NEW l \in Layouts, Ended(c, l) PROVE Contract!ContractNext
  <2>1. /\ records[l][t].status = "redeemed" /\ won' = won /\ took' = took
        /\ \E e \in {"completed", "failed"} : Only(l, t, e)
    BY <1>1, <1>6, Writes DEF Ended
  <2>2. PICK e \in {"completed", "failed"} : Only(l, t, e)
    BY <2>1
  <2>3. LifeOf(t) = "redeemed" /\ LifeOf(t)' = e
    BY <1>1, <1>6, <2>1, <2>2, WrittenLife DEF Statuses
  <2>4. Life[t] = "redeemed" /\ Life' = [Life EXCEPT ![t] = e]
    BY <1>3, <2>3, LifeIs
  <2>5. Contract!End(t)
    BY <2>1, <2>4 DEF Contract!End
  <2> QED BY <2>5 DEF Contract!ContractNext
<1>7. ASSUME NEW l \in Layouts, Taken(c, l) PROVE Contract!ContractNext
  <2>1. /\ records[l][t].status = "completed" /\ Only(l, t, "claimed") /\ took[t] = {} /\ won' = won
        /\ took' = [took EXCEPT ![t] = @ \cup {c}]
    BY <1>1, <1>7, Writes DEF Taken
  <2>2. LifeOf(t) = "completed" /\ LifeOf(t)' = "claimed"
    BY <1>1, <1>7, <2>1, WrittenLife DEF Statuses
  <2>3. took' = [took EXCEPT ![t] = {c}]
    BY <2>1
  <2>4. Contract!Take(t, c)
    BY <1>3, <2>1, <2>2, <2>3, LifeIs DEF Contract!Take
  <2> QED BY <2>4 DEF Contract!ContractNext
<1> QED BY <1>4, <1>5, <1>6, <1>7 DEF Wrote

LEMMA ContractStarts == Init => Contract!ContractInit
<1> SUFFICES ASSUME Init PROVE Contract!ContractInit
  OBVIOUS
<1>1. \A t \in Tickets : LifeOf(t) = "unborn"
  BY DEF Init, LifeOf, Held, Under, Present, NoRecord, Layouts
<1> QED BY <1>1, LifeIs DEF Contract!ContractInit, Init

(* While no command is sent twice, the round trips of all calls of all     *)
(* processes, failing or raising after they took effect, implement the     *)
(* package's contract: a ticket is issued once, spent by one call, ended   *)
(* by one and claimed by one, and no command brings back what is gone.     *)
THEOREM RedisImplementsContract ==
  ASSUME ~Resends
  PROVE  Spec => ImplementsContract
<1>1. OnceInv /\ [Next]_vars => [Contract!ContractNext]_Contract!contractVars
  BY TicketMove, ContractForget, ContractWrite DEF OnceInv, IInv
<1> QED BY <1>1, ContractStarts, OnceInvHolds, PTL DEF Spec, ImplementsContract, Contract!ContractSpec
----------------------------------------------------------------------------
(* Refusals.  All that follows holds whether commands are sent twice or not. *)

Remembered(t) == \E p \in Processes : t \in ToSet(memo[p])
Asking == {"redeem", "finish", "claim"}

(* A call asks for a ticket that was issued, so one nobody still puts.     *)
Known ==
  /\ \A c \in Callers : call[c].op \in Asking => call[c].ticket \in issued
  /\ \A x \in uploading : x[2] \in issued
  /\ \A c \in Callers : pc[c] \in {"write", "index"} => call[c].ticket \notin issued

(* What is remembered, or has an index, in the new layout is not in the    *)
(* old one, and never will be.                                             *)
Laid ==
  \A t \in Tickets : Remembered(t) \/ index["new"][t] # 0 =>
    /\ t \in minted /\ ~Present(records["old"][t])
    /\ \A c \in Callers : Puts(c, t) => LayoutOf(c[1]) = "new"

(* A record keeps the end of its retention, which is its put's.            *)
Kept ==
  \A t \in Tickets, l \in Layouts :
    /\ deadline[l][t] <= clock + KeyTtl
    /\ ~Present(records[l][t]) => records[l][t].retentionUntil = 0
    /\ \A c \in Callers : Puts(c, t) /\ Present(records[l][t])
         => records[l][t].retentionUntil = call[c].now + Retention

(* A sweep that has decided is of a record whose retention is over, by a   *)
(* clock at most Skew ahead.                                               *)
Sweeping ==
  \A c \in Callers :
    LET rec == records[call[c].at][call[c].ticket] IN
    /\ pc[c] \in {"look", "delete", "unindex"} => call[c].now <= clock + Skew
    /\ pc[c] \in {"delete", "unindex"} => Present(rec) /\ rec.retentionUntil <= call[c].now

(* The index of an issued ticket outlasts its record, unless it was swept. *)
Swept(l, t) == clock + Skew >= records[l][t].retentionUntil
Findable ==
  \A t \in issued, l \in Layouts :
    Present(records[l][t]) => index[l][t] >= deadline[l][t] \/ Swept(l, t)

(* What a call knows at each round trip.                                   *)
Elsewhere(c) ==
  \A l \in Layouts \ {call[c].at} : ~Present(records[l][call[c].ticket])
Informed(c) ==
  /\ pc[c] # "idle" => Would(c) \in could[c]
  /\ pc[c] = "act" => Elsewhere(c)
  /\ pc[c] \in {"oldindex", "oldscript"} =>
       "not_found" \in could[c] \/ ~Present(records["new"][call[c].ticket])

Late(t) == \A l \in Layouts : Present(Under(l, t)) => Swept(l, t)
Right(c) ==
  pc[c] = "idle" /\ call[c].op \in Asking /\ call[c].answer \in Refusals
    => call[c].answer \in could[c] \/ (call[c].answer = "not_found" /\ Late(call[c].ticket))

MemoTyped ==
  /\ memo \in [Processes -> Seq(Tickets)]
  /\ \A p \in Processes : Len(memo[p]) <= MemoSize
CouldTyped == could \in [Callers -> SUBSET Answers]

AnswerInv ==
  /\ IInv /\ MemoTyped /\ CouldTyped /\ Known /\ Laid /\ Kept /\ Sweeping /\ Findable
  /\ \A c \in Callers : Informed(c) /\ Right(c)
----------------------------------------------------------------------------
(* What a process remembers.                                               *)
LEMMA ForgottenIs ==
  ASSUME NEW S, NEW s \in Seq(S), NEW t
  PROVE  /\ Forgotten(s, t) \in Seq(S) /\ Len(Forgotten(s, t)) <= Len(s)
         /\ ToSet(Forgotten(s, t)) \subseteq ToSet(s)
<1>1. CASE t \notin ToSet(s)
  BY <1>1 DEF Forgotten
<1>2. CASE t \in ToSet(s)
  <2> DEFINE k == CHOOSE i \in DOMAIN s : s[i] = t
             a == SubSeq(s, 1, k - 1)
             b == SubSeq(s, k + 1, Len(s))
  <2>1. k \in 1..Len(s)
    BY <1>2 DEF ToSet
  <2>2. Forgotten(s, t) = a \o b
    BY <1>2 DEF Forgotten, RemoveAt
  <2> HIDE DEF k
  <2>3. /\ a \in Seq(S) /\ Len(a) = k - 1
        /\ \A i \in 1..Len(a) : a[i] = s[i]
    <3>1. /\ a \in Seq(S) /\ Len(a) = IF 1 <= k - 1 THEN k - 1 - 1 + 1 ELSE 0
          /\ \A i \in 1..(k - 1) - 1 + 1 : a[i] = s[1 + i - 1]
      BY <2>1, SubSeqProperties
    <3> HIDE DEF a
    <3> QED BY <2>1, <3>1
  <2>4. /\ b \in Seq(S) /\ Len(b) = Len(s) - k
        /\ \A i \in 1..Len(b) : b[i] = s[k + i]
    <3>1. /\ b \in Seq(S) /\ Len(b) = IF k + 1 <= Len(s) THEN Len(s) - (k + 1) + 1 ELSE 0
          /\ \A i \in 1..Len(s) - (k + 1) + 1 : b[i] = s[k + 1 + i - 1]
      BY <2>1, SubSeqProperties
    <3> HIDE DEF b
    <3>2. Len(b) = Len(s) - k
      BY <2>1, <3>1
    <3>3. ASSUME NEW i \in 1..Len(b) PROVE b[i] = s[k + i]
      <4>1. i \in 1..Len(s) - (k + 1) + 1 /\ k + 1 + i - 1 = k + i
        BY <2>1, <3>2, <3>3
      <4> QED BY <3>1, <4>1
    <3> QED BY <3>1, <3>2, <3>3
  <2> HIDE DEF a, b
  <2>5. /\ a \o b \in Seq(S) /\ Len(a \o b) = Len(a) + Len(b)
        /\ \A i \in 1..Len(a) + Len(b) : (a \o b)[i] = IF i <= Len(a) THEN a[i] ELSE b[i - Len(a)]
    BY <2>3, <2>4, ConcatProperties
  <2>6. ASSUME NEW i \in DOMAIN (a \o b) PROVE \E j \in DOMAIN s : (a \o b)[i] = s[j]
    <3>1. i \in 1..Len(a) + Len(b) /\ DOMAIN s = 1..Len(s)
      BY <2>5, <2>6
    <3>2. CASE i <= Len(a)
      <4>1. i \in 1..Len(a) /\ i \in 1..Len(s)
        BY <2>1, <2>3, <3>1, <3>2
      <4>2. (a \o b)[i] = s[i]
        BY <2>3, <2>5, <3>1, <3>2, <4>1
      <4> QED BY <3>1, <4>1, <4>2
    <3>3. CASE ~(i <= Len(a))
      <4> DEFINE j == i - Len(a)
      <4>1. j \in 1..Len(b) /\ k + j \in 1..Len(s)
        BY <2>1, <2>3, <2>4, <3>1, <3>3
      <4>2. (a \o b)[i] = b[j]
        BY <2>5, <3>1, <3>3
      <4>3. b[j] = s[k + j]
        BY <2>4, <4>1
      <4> QED BY <3>1, <4>1, <4>2, <4>3
    <3> QED BY <3>2, <3>3
  <2>7. ToSet(a \o b) \subseteq ToSet(s)
    BY <2>6 DEF ToSet
  <2> QED BY <2>1, <2>2, <2>3, <2>4, <2>5, <2>7
<1> QED BY <1>1, <1>2

LEMMA RememberIs ==
  ASSUME MemoTyped, NEW p \in Processes, NEW t \in Tickets, Remember(p, t)
  PROVE  /\ MemoTyped'
         /\ \A q \in Processes : ToSet(memo'[q]) \subseteq ToSet(memo[q]) \cup {t}
<1> DEFINE s == memo[p]
           kept == IF Len(s) >= MemoSize THEN Tail(s) ELSE s
<1>1. s \in Seq(Tickets) /\ Len(s) <= MemoSize /\ MemoSize \in Nat \ {0} /\ Len(s) \in Nat
  BY RedisAssumption DEF MemoTyped, RedisAssumption
<1>2. CASE t \in ToSet(s)
  BY <1>2 DEF Remember, MemoTyped
<1>3. CASE t \notin ToSet(s)
  <2>1. memo' = [memo EXCEPT ![p] = Append(kept, t)]
    BY <1>3 DEF Remember
  <2>2. /\ kept \in Seq(Tickets) /\ Len(kept) < MemoSize
        /\ \A i \in 1..Len(kept) : \E j \in 1..Len(s) : kept[i] = s[j]
    <3>1. CASE Len(s) >= MemoSize
      <4>1. s # <<>>
        BY <1>1, <3>1
      <4>2. /\ Tail(s) \in Seq(Tickets) /\ Len(Tail(s)) = Len(s) - 1
            /\ \A i \in 1..Len(Tail(s)) : Tail(s)[i] = s[i + 1]
        BY <1>1, <4>1, HeadTailProperties
      <4>3. \A i \in 1..Len(Tail(s)) : i + 1 \in 1..Len(s)
        BY <1>1, <4>2
      <4> QED BY <1>1, <3>1, <4>2, <4>3
    <3>2. CASE ~(Len(s) >= MemoSize)
      BY <1>1, <3>2
    <3> QED BY <3>1, <3>2
  <2> HIDE DEF kept
  <2>3. /\ Append(kept, t) \in Seq(Tickets) /\ Len(Append(kept, t)) = Len(kept) + 1
        /\ \A i \in 1..Len(kept) : Append(kept, t)[i] = kept[i]
        /\ Append(kept, t)[Len(kept) + 1] = t
    BY <2>2, AppendProperties
  <2>4. memo' \in [Processes -> Seq(Tickets)]
    BY <2>1, <2>3 DEF MemoTyped
  <2>5. \A q \in Processes : memo'[q] = IF q = p THEN Append(kept, t) ELSE memo[q]
    BY <2>1 DEF MemoTyped
  <2>6. Len(Append(kept, t)) <= MemoSize
    <3>1. Len(kept) \in Nat
      BY <2>2
    <3> QED BY <1>1, <2>2, <2>3, <3>1
  <2>7. ToSet(Append(kept, t)) \subseteq ToSet(s) \cup {t}
    <3> SUFFICES ASSUME NEW i \in DOMAIN Append(kept, t)
                 PROVE  Append(kept, t)[i] = t \/ \E j \in DOMAIN s : Append(kept, t)[i] = s[j]
      BY DEF ToSet
    <3>1. DOMAIN Append(kept, t) = 1..Len(kept) + 1 /\ Len(kept) \in Nat /\ DOMAIN s = 1..Len(s)
      BY <1>1, <2>2, <2>3
    <3>2. i \in 1..Len(kept) \/ i = Len(kept) + 1
      BY <3>1
    <3> QED BY <2>2, <2>3, <3>1, <3>2
  <2> QED BY <2>4, <2>5, <2>6, <2>7 DEF MemoTyped
<1> QED BY <1>2, <1>3

(* What a step makes a process remember.                                   *)
Recalled(t) ==
  \/ Remembered(t) \/ index["new"][t] # 0 \/ Present(records["new"][t])
  \/ \E c \in Callers : Puts(c, t) /\ LayoutOf(c[1]) = "new"

LEMMA MemoSteps ==
  ASSUME Typed, AllPlaced, MemoTyped, NEW c \in Callers, Step(c)
  PROVE  /\ MemoTyped'
         /\ \A u \in Tickets : Remembered(u)' => Recalled(u)
<1> DEFINE t == call[c].ticket
           p == c[1]
<1>1. p \in Processes /\ Placed(c) /\ "new" \in Layouts
  BY Constants DEF AllPlaced, Layouts
<1>2. ASSUME \A q \in Processes : ToSet(memo'[q]) \subseteq ToSet(memo[q])
      PROVE  \A u \in Tickets : Remembered(u)' => Recalled(u)
  BY <1>2 DEF Remembered, Recalled
<1>3. CASE memo' = memo
  BY <1>2, <1>3 DEF MemoTyped
<1>4. ASSUME t \in Tickets, Recalled(t), Remember(p, t)
      PROVE  /\ MemoTyped'
             /\ \A u \in Tickets : Remembered(u)' => Recalled(u)
  <2>1. MemoTyped' /\ \A q \in Processes : ToSet(memo'[q]) \subseteq ToSet(memo[q]) \cup {t}
    BY <1>1, <1>4, RememberIs
  <2> QED BY <1>4, <2>1 DEF Remembered, Recalled
<1>5. CASE PutIndex(c)
  <2>1. memo' = memo \/ (LayoutOf(p) = "new" /\ Remember(p, t) /\ pc[c] = "index")
    BY <1>5 DEF PutIndex
  <2>2. pc[c] = "index" => t \in Tickets /\ Puts(c, t)
    BY <1>1 DEF Placed, Puts
  <2> QED BY <1>3, <1>4, <2>1, <2>2 DEF Recalled
<1>6. ASSUME NEW l \in Layouts, pc[c] \in {"script", "oldscript"}, RedeemAt(c, l)
      PROVE  /\ MemoTyped'
             /\ \A u \in Tickets : Remembered(u)' => Recalled(u)
  <2>1. t \in Tickets /\ call[c].answer = "none" /\ pc[c] # "idle"
    BY <1>1, <1>6 DEF Placed
  <2>2. CASE memo' = memo
    BY <1>3, <2>2
  <2>3. CASE l = "new" /\ Remember(p, t) /\ call'[c].answer = "redeemed"
    <3>1. RedeemScript(c, l) = "redeemed"
      <4>1. Reply(c, RedeemScript(c, l)) /\ RedeemScript(c, l) \in Answers /\ "raised" \in Answers
        BY <1>6 DEF RedeemAt, RedeemScript, Answers
      <4>2. CASE Ends(c, RedeemScript(c, l))
        BY <2>1, <2>3, <4>1, <4>2, EndsMoves
      <4>3. CASE Ends(c, "raised")
        BY <2>1, <2>3, <4>1, <4>3, EndsMoves
      <4>4. CASE UNCHANGED callVars
        BY <2>1, <2>3, <4>4 DEF callVars
      <4> QED BY <4>1, <4>2, <4>3, <4>4 DEF Reply
    <3>2. Present(Under("new", t))
      BY <2>3, <3>1 DEF RedeemScript
    <3>3. Recalled(t)
      BY <1>1, <2>1, <3>2, Found DEF Recalled
    <3> QED BY <1>4, <2>1, <2>3, <3>3
  <2>4. memo' = memo \/ (l = "new" /\ Remember(p, t) /\ call'[c].answer = "redeemed")
    BY <1>6 DEF RedeemAt
  <2> QED BY <2>2, <2>3, <2>4
<1>7. CASE Redeem(c)
  <2>1. pc[c] = "script" /\ (RedeemAt(c, "new") \/ memo' = memo)
    BY <1>7 DEF Redeem
  <2> QED BY <1>1, <1>3, <1>6, <2>1
<1>8. CASE RedeemOld(c)
  BY <1>6, <1>8 DEF RedeemOld, Layouts
<1>9. CASE Locate(c)
  <2>1. memo' = memo \/ (Indexed("new", t) /\ Remember(p, t))
    BY <1>9 DEF Locate
  <2>2. t \in Tickets
    BY <1>1, <1>9 DEF Locate, Placed
  <2>3. Indexed("new", t) => Recalled(t)
    <3>1. clock \in Nat /\ index["new"][t] \in Nat
      BY <1>1, <2>2 DEF Typed
    <3> QED BY <3>1 DEF Indexed, Recalled
  <2> QED BY <1>3, <1>4, <2>1, <2>2, <2>3
<1>10. CASE Sweep(c)
  <2>1. memo' = memo \/ memo' = [memo EXCEPT ![p] = Forgotten(memo[p], t)]
    BY <1>10 DEF Sweep
  <2>2. CASE memo' = [memo EXCEPT ![p] = Forgotten(memo[p], t)]
    <3>1. memo[p] \in Seq(Tickets) /\ Len(memo[p]) <= MemoSize /\ MemoSize \in Nat
      BY <1>1, RedisAssumption DEF MemoTyped, RedisAssumption
    <3>2. /\ Forgotten(memo[p], t) \in Seq(Tickets) /\ Len(Forgotten(memo[p], t)) <= Len(memo[p])
          /\ ToSet(Forgotten(memo[p], t)) \subseteq ToSet(memo[p])
      BY <3>1, ForgottenIs
    <3>3. Len(Forgotten(memo[p], t)) <= MemoSize
      <4>1. Len(Forgotten(memo[p], t)) \in Nat /\ Len(memo[p]) \in Nat
        BY <3>1, <3>2
      <4> QED BY <3>1, <3>2, <4>1
    <3>4. \A q \in Processes : memo'[q] = IF q = p THEN Forgotten(memo[p], t) ELSE memo[q]
      BY <2>2 DEF MemoTyped
    <3>5. memo' \in [Processes -> Seq(Tickets)]
      BY <2>2, <3>2 DEF MemoTyped
    <3>6. MemoTyped'
      BY <3>3, <3>4, <3>5 DEF MemoTyped
    <3> QED BY <1>2, <3>2, <3>4, <3>6
  <2> QED BY <1>3, <2>1, <2>2
<1>11. CASE PutRecord(c) \/ RedeemOldIndex(c) \/ Finish(c) \/ Claim(c) \/ SweepRecord(c)
            \/ SweepIndex(c) \/ Raises(c)
  BY <1>3, <1>11 DEF PutRecord, RedeemOldIndex, Finish, Claim, SweepRecord, SweepIndex, Raises
<1> QED BY <1>5, <1>7, <1>8, <1>9, <1>10, <1>11 DEF Step

LEMMA MemoMove ==
  ASSUME Typed, AllPlaced, MemoTyped, [Next]_vars
  PROVE  /\ MemoTyped'
         /\ \A u \in Tickets : Remembered(u)' => Recalled(u)
<1>1. CASE memo' = memo
  BY <1>1 DEF MemoTyped, Remembered, Recalled
<1>2. ASSUME NEW p \in Processes, NEW t \in Tickets, Lookup(p, t)
      PROVE  /\ MemoTyped'
             /\ \A u \in Tickets : Remembered(u)' => Recalled(u)
  <2>1. MemoTyped' /\ \A q \in Processes : ToSet(memo'[q]) \subseteq ToSet(memo[q]) \cup {t}
    BY <1>2, RememberIs DEF Lookup
  <2>2. Recalled(t)
    <3>1. clock \in Nat /\ index["new"][t] \in Nat /\ "new" \in Layouts
      BY DEF Typed, Layouts
    <3>2. Present(Under("new", t)) \/ Indexed("new", t)
      BY <1>2 DEF Lookup
    <3> QED BY <3>1, <3>2, Found DEF Indexed, Recalled
  <2> QED BY <2>1, <2>2 DEF Remembered, Recalled
<1>3. ASSUME NEW p \in Processes, Crash(p)
      PROVE  /\ MemoTyped'
             /\ \A u \in Tickets : Remembered(u)' => Recalled(u)
  <2>1. memo' = [memo EXCEPT ![p] = <<>>]
    BY <1>3 DEF Crash
  <2>2. \A q \in Processes : memo'[q] = IF q = p THEN <<>> ELSE memo[q]
    BY <2>1 DEF MemoTyped
  <2>3. ToSet(<<>>) = {} /\ <<>> \in Seq(Tickets) /\ Len(<<>>) = 0 /\ MemoSize >= 0
    BY RedisAssumption DEF ToSet, RedisAssumption
  <2>4. MemoTyped'
    BY <2>1, <2>2, <2>3 DEF MemoTyped
  <2>5. \A u : Remembered(u)' => Remembered(u)
    BY <2>2, <2>3 DEF Remembered
  <2> QED BY <2>4, <2>5 DEF Recalled
<1>4. ASSUME NEW c \in Callers, Starts(c) PROVE memo' = memo
  BY <1>4 DEF Starts, BeginPut, BeginRedeem, BeginClaim, BeginFinish, BeginSweep, Begin
<1>5. CASE Tick \/ UNCHANGED vars
  BY <1>1, <1>5 DEF Tick, vars
<1> QED BY <1>1, <1>2, <1>3, <1>4, <1>5, MemoSteps DEF Next

(* A ticket is issued when its put returns, its index just written.        *)
Issues(c, t) ==
  /\ Puts(c, t) /\ pc'[c] = "idle"
  /\ index'[LayoutOf(c[1])][t] = clock + KeyTtl
  /\ UNCHANGED <<clock, records, deadline>>

LEMMA Issuing ==
  ASSUME Typed, AllPlaced, [Next]_vars
  PROVE  issued \subseteq issued' /\ \A t \in issued' \ issued : \E c \in Callers : Issues(c, t)
<1>1. CASE Cease \/ \E c \in Callers : Starts(c)
  BY <1>1, Begins DEF Cease, Started
<1>2. ASSUME NEW c \in Callers, PutIndex(c)
      PROVE  issued \subseteq issued' /\ \A t \in issued' \ issued : Issues(c, t)
  <2> DEFINE t == call[c].ticket
             l == LayoutOf(c[1])
  <2>1. pc[c] = "index" /\ Placed(c) /\ t \in Tickets /\ l \in Layouts /\ call[c].answer = "none"
    BY <1>2, Constants DEF PutIndex, AllPlaced, Placed
  <2>2. "stored" \in Answers /\ "raised" \in Answers
    BY DEF Answers
  <2>3. CASE call'[c].answer # "stored"
    BY <1>2, <2>3 DEF PutIndex
  <2>4. CASE call'[c].answer = "stored"
    <3>1. CASE Ends(c, "raised")
      BY <2>1, <2>2, <2>4, <3>1, EndsMoves
    <3>2. CASE call' = [call EXCEPT ![c].broken = FALSE]
      <4>1. call'[c].answer = call[c].answer
        BY <3>2 DEF Typed, Call
      <4> QED BY <2>1, <2>4, <4>1
    <3>3. CASE index' = [index EXCEPT ![l][t] = clock + KeyTtl] /\ Ends(c, "stored")
      <4>1. pc'[c] = "idle"
        BY <2>1, <2>2, <3>3, EndsMoves
      <4>2. index'[l][t] = clock + KeyTtl
        BY <2>1, <3>3 DEF Typed
      <4>3. issued' = issued \cup {t} /\ UNCHANGED <<clock, records, deadline>>
        BY <1>2, <2>4 DEF PutIndex
      <4> QED BY <2>1, <4>1, <4>2, <4>3 DEF Issues, Puts
    <3> QED BY <1>2, <3>1, <3>2, <3>3 DEF PutIndex
  <2> QED BY <2>3, <2>4
<1>3. ASSUME NEW c \in Callers, Step(c), ~PutIndex(c) PROVE issued' = issued
  BY <1>3 DEF Step, PutRecord, Redeem, RedeemAt, RedeemOldIndex, RedeemOld, Locate, Finish, Claim,
              Sweep, SweepRecord, SweepIndex, Raises, callerVars
<1> QED BY <1>1, <1>2, <1>3, OtherSteps

(* An index is written by the ticket's put, or goes in a sweep.            *)
LEMMA IndexAt ==
  ASSUME Typed, AllPlaced, [Next]_vars, NEW l \in Layouts, NEW t \in Tickets,
         index'[l][t] # index[l][t]
  PROVE  \E c \in Callers :
           /\ call[c].ticket = t
           /\ \/ pc[c] = "index" /\ l = LayoutOf(c[1])
              \/ pc[c] = "unindex" /\ l = call[c].at /\ index'[l][t] = 0
<1>1. CASE index' = index
  BY <1>1
<1>2. CASE Cease \/ \E c \in Callers : Starts(c)
  BY <1>1, <1>2, Begins DEF Cease, Started, keyVars
<1>3. ASSUME NEW c \in Callers, PutIndex(c)
      PROVE  pc[c] = "index" /\ l = LayoutOf(c[1]) /\ call[c].ticket = t
  <2>1. pc[c] = "index" /\ index' = [index EXCEPT ![LayoutOf(c[1])][call[c].ticket] = clock + KeyTtl]
    BY <1>1, <1>3 DEF PutIndex
  <2>2. index \in [Layouts -> [Tickets -> Nat]] /\ clock + KeyTtl \in Nat
        /\ LayoutOf(c[1]) \in Layouts /\ call[c].ticket \in Tickets
    BY <2>1, Constants, KeyTtlType DEF Typed, AllPlaced, Placed
  <2>3. index'[l][t] = IF l = LayoutOf(c[1]) /\ t = call[c].ticket THEN clock + KeyTtl ELSE index[l][t]
    BY <2>1, <2>2, OneKey
  <2> QED BY <2>1, <2>3
<1>4. ASSUME NEW c \in Callers, SweepIndex(c)
      PROVE  pc[c] = "unindex" /\ l = call[c].at /\ call[c].ticket = t /\ index'[l][t] = 0
  <2>1. pc[c] = "unindex" /\ index' = [index EXCEPT ![call[c].at][call[c].ticket] = 0]
    BY <1>1, <1>4 DEF SweepIndex
  <2>2. index \in [Layouts -> [Tickets -> Nat]] /\ 0 \in Nat
        /\ call[c].at \in Layouts /\ call[c].ticket \in Tickets
    BY <2>1 DEF Typed, Call, AllPlaced, Placed
  <2>3. index'[l][t] = IF l = call[c].at /\ t = call[c].ticket THEN 0 ELSE index[l][t]
    BY <2>1, <2>2, OneKey
  <2> QED BY <2>1, <2>3
<1>5. ASSUME NEW c \in Callers, Step(c), ~PutIndex(c), ~SweepIndex(c) PROVE index' = index
  BY <1>5 DEF Step, PutRecord, Redeem, RedeemAt, RedeemOldIndex, RedeemOld, Locate, Finish, Claim,
              Sweep, SweepRecord, Raises, keyVars
<1> QED BY <1>1, <1>2, <1>3, <1>4, <1>5, OtherSteps

LEMMA ClockMove ==
  ASSUME Typed, AllPlaced, [Next]_vars
  PROVE  clock' \in {clock, clock + 1}
<1>1. CASE Fade
  BY <1>1 DEF Fade
<1>2. ASSUME NEW c \in Callers, Step(c) PROVE clock' = clock
  BY <1>2, Steps DEF Advance
<1> QED BY <1>1, <1>2, TicketMove

(* What becomes of a record: its put writes it, and nothing else changes   *)
(* when its retention ends.                                                *)
LEMMA RecordMove ==
  ASSUME Typed, AllPlaced, [Next]_vars, NEW l \in Layouts, NEW t \in Tickets,
         records'[l][t] # records[l][t]
  PROVE  /\ Present(records'[l][t])
         /\ \/ /\ Present(records[l][t])
               /\ records'[l][t].retentionUntil = records[l][t].retentionUntil
            \/ \E c \in Callers :
                 /\ Puts(c, t) /\ l = LayoutOf(c[1])
                 /\ records'[l][t].retentionUntil = call[c].now + Retention
<1>1. PICK c \in Callers :
        /\ Step(c) /\ call[c].ticket = t
        /\ \/ Borne(c) /\ l = LayoutOf(c[1]) /\ records'[l][t].status = "issued"
           \/ Spent(c, l) /\ records[l][t].status = "issued" /\ records'[l][t].status = "redeemed"
           \/ Ended(c, l) /\ records'[l][t].status \in {"completed", "failed"}
           \/ Taken(c, l) /\ records[l][t].status = "completed" /\ records'[l][t].status = "claimed"
  BY StatusMove
<1>2. Present(records'[l][t])
  BY <1>1 DEF Present
<1>3. call[c].now \in Nat /\ records[l][t] \in Slot
  BY DEF Typed, Call
<1>4. CASE Borne(c) /\ l = LayoutOf(c[1])
  <2>1. records' = [records EXCEPT ![l][t] = NewRecord(Nobody, call[c].now, Ttl, Retention)]
        /\ Puts(c, t)
    BY <1>1, <1>4 DEF Borne, Puts
  <2>2. records'[l][t] = NewRecord(Nobody, call[c].now, Ttl, Retention)
    BY <2>1 DEF Typed
  <2>3. records'[l][t].retentionUntil = call[c].now + Retention
    BY <2>2 DEF NewRecord
  <2> QED BY <1>2, <1>4, <2>1, <2>3
<1>5. CASE Spent(c, l) \/ Ended(c, l) \/ Taken(c, l)
  <2>1. PICK rec \in {Redeemed(records[l][t], call[c].now), Finished(records[l][t], call[c].ending),
                      Claimed(records[l][t])} : Written(l, t, rec)
    BY <1>1, <1>5 DEF Spent, Ended, Taken
  <2>2. rec.retentionUntil = records[l][t].retentionUntil
    BY <1>3, <2>1 DEF Redeemed, Finished, Claimed, Slot
  <2>3. records'[l][t] = rec /\ Present(Under(l, t))
    BY <2>1 DEF Written, Typed
  <2>4. Present(records[l][t])
    BY <2>3, Found
  <2> QED BY <1>2, <2>2, <2>3, <2>4
<1> QED BY <1>1, <1>4, <1>5

LEMMA DeadlineMove ==
  ASSUME Typed, AllPlaced, [Next]_vars, NEW l \in Layouts, NEW t \in Tickets
  PROVE  \/ deadline'[l][t] \in {deadline[l][t], 0}
         \/ deadline'[l][t] = clock + KeyTtl /\ clock' = clock
<1>1. CASE Still(t)
  BY <1>1 DEF Still
<1>2. ASSUME NEW c \in Callers, Step(c), Wrote(c), call[c].ticket = t
      PROVE  \/ deadline'[l][t] \in {deadline[l][t], 0}
             \/ deadline'[l][t] = clock + KeyTtl /\ clock' = clock
  <2>1. clock' = clock /\ Placed(c)
    BY <1>2, Steps DEF Advance, AllPlaced
  <2>2. CASE Borne(c)
    BY <1>2, <2>1, <2>2, BorneIs
  <2>3. ASSUME NEW m \in Layouts, Spent(c, m) \/ Ended(c, m) \/ Taken(c, m)
        PROVE  deadline' = deadline
    BY <2>3 DEF Spent, Ended, Taken, Written
  <2> QED BY <1>2, <2>1, <2>2, <2>3 DEF Wrote
<1> QED BY <1>1, <1>2, TicketMove DEF Same

(* What becomes of a call.                                                 *)
LEMMA CallMove ==
  ASSUME Typed, AllPlaced, [Next]_vars, NEW c \in Callers
  PROVE  \/ pc'[c] = pc[c] /\ call'[c] = call[c]
         \/ pc'[c] = "idle" /\ call'[c] = NoCall
         \/ Started(c)
         \/ Step(c) /\ Moves(c)
<1>1. CASE Cease
  BY <1>1 DEF Cease
<1>2. ASSUME NEW d \in Callers, Starts(d)
      PROVE  Started(c) \/ (pc'[c] = pc[c] /\ call'[c] = call[c])
  <2>1. Started(d)
    BY <1>2, Begins
  <2> QED BY <2>1 DEF Started, Mine
<1>3. ASSUME NEW d \in Callers, Step(d)
      PROVE  (Step(c) /\ Moves(c)) \/ (pc'[c] = pc[c] /\ call'[c] = call[c])
  <2>1. Moves(d)
    BY <1>3, Steps DEF Advance
  <2> QED BY <1>3, <2>1 DEF Moves, Mine
<1> QED BY <1>1, <1>2, <1>3, OtherSteps

----------------------------------------------------------------------------
(* Each part of AnswerInv is kept.                                         *)
LEMMA NotPut ==
  ASSUME IInv, Known, [Next]_vars, NEW t \in issued
  PROVE  /\ \A c \in Callers : ~Puts(c, t)
         /\ \A l \in Layouts : Present(records'[l][t]) => Present(records[l][t])
<1>1. \A c \in Callers : ~Puts(c, t)
  BY DEF Known, Puts
<1> QED BY <1>1, PresentMove DEF IInv, Typed

LEMMA KnownStep ==
  ASSUME IInv, Known, [Next]_vars
  PROVE  Known'
<1> USE DEF IInv
<1>1. issued \subseteq issued'
  BY Issuing
<1>2. ASSUME NEW c \in Callers, call'[c].op \in Asking PROVE call'[c].ticket \in issued'
  <2>1. CASE call'[c] = call[c]
    BY <1>1, <1>2, <2>1 DEF Known
  <2>2. CASE call'[c] = NoCall
    BY <1>2, <2>2 DEF NoCall, Asking
  <2>3. CASE Started(c)
    BY <1>1, <1>2, <2>3 DEF Started, Known, Asking
  <2>4. CASE Moves(c)
    BY <1>1, <1>2, <2>4 DEF Moves, Known
  <2> QED BY <2>1, <2>2, <2>3, <2>4, CallMove
<1>3. ASSUME NEW x \in uploading' PROVE x[2] \in issued'
  <2>1. CASE uploading' \subseteq uploading
    BY <1>1, <1>3, <2>1 DEF Known
  <2>2. ASSUME NEW c \in Callers, Step(c), ~(uploading' \subseteq uploading) PROVE x[2] \in issued'
    <3>1. PICK l \in Layouts : Spent(c, l)
      BY <2>2, Steps DEF Advance, Wrote, Borne, Ended, Taken
    <3>2. x \in uploading \/ x = <<c[1], call[c].ticket>>
      BY <1>3, <3>1 DEF Spent
    <3>3. call[c].ticket \in issued
      BY <3>1 DEF Spent, AllPlaced, Placed, Known, Asking
    <3> QED BY <1>1, <3>2, <3>3 DEF Known
  <2>3. ASSUME NEW c \in Callers, Starts(c) PROVE uploading' \subseteq uploading
    BY <2>3, Begins DEF Started
  <2> QED BY <2>1, <2>2, <2>3, OtherSteps DEF Cease
<1>4. ASSUME NEW c \in Callers, pc'[c] \in {"write", "index"} PROVE call'[c].ticket \notin issued'
  <2>1. AllPlaced'
    BY PlacedStep
  <2>2. PICK t \in Tickets : t = call'[c].ticket /\ Puts(c, t)'
    BY <1>4, <2>1 DEF AllPlaced, Placed, Puts
  <2>3. \A d \in Callers : Puts(d, t) => t \in minted
    BY DEF AllPlaced, Placed, Puts
  <2>4. Puts(c, t) \/ t \notin minted
    BY <1>4, <2>2, PutsMove DEF Puts
  <2>5. t \notin issued
    BY <2>4 DEF Known, Puts, Typed
  <2>6. ASSUME NEW d \in Callers, Issues(d, t) PROVE FALSE
    <3>1. Puts(d, t) /\ pc'[d] = "idle"
      BY <2>6 DEF Issues
    <3>2. Puts(c, t)
      BY <2>3, <2>4, <3>1
    <3>3. c = d
      BY <2>2, <3>1, <3>2 DEF OnePut
    <3> QED BY <1>4, <3>1, <3>3
  <2> QED BY <2>2, <2>5, <2>6, Issuing
<1> QED BY <1>2, <1>3, <1>4 DEF Known

LEMMA LaidStep ==
  ASSUME IInv, MemoTyped, Laid, [Next]_vars
  PROVE  Laid'
<1> USE DEF IInv
<1> SUFFICES ASSUME NEW t \in Tickets, Remembered(t)' \/ index'["new"][t] # 0
             PROVE  /\ t \in minted' /\ ~Present(records'["old"][t])
                    /\ \A c \in Callers : Puts(c, t)' => LayoutOf(c[1])' = "new"
  BY DEF Laid
<1>1. "new" \in Layouts /\ "old" \in Layouts
  BY DEF Layouts
<1>2. Recalled(t)
  <2>1. ASSUME index'["new"][t] # 0 PROVE Recalled(t)
    BY <1>1, <2>1, IndexAt DEF Recalled, Puts
  <2> QED BY <2>1, MemoMove
<1>3. t \in minted /\ ~Present(records["old"][t]) /\ \A c \in Callers : Puts(c, t) => LayoutOf(c[1]) = "new"
  <2>1. CASE Remembered(t) \/ index["new"][t] # 0
    BY <2>1 DEF Laid
  <2>2. CASE Present(records["new"][t])
    BY <1>1, <2>2 DEF Home
  <2>3. ASSUME NEW c \in Callers, Puts(c, t), LayoutOf(c[1]) = "new"
        PROVE  /\ t \in minted /\ ~Present(records["old"][t])
               /\ \A d \in Callers : Puts(d, t) => LayoutOf(d[1]) = "new"
    BY <1>1, <2>3 DEF Home, OnePut, AllPlaced, Placed, Puts
  <2> QED BY <1>2, <2>1, <2>2, <2>3 DEF Recalled
<1>4. ~Present(records'["old"][t])
  BY <1>1, <1>3, PresentMove
<1>5. \A c \in Callers : Puts(c, t)' => LayoutOf(c[1])' = "new"
  BY <1>3, PutsMove DEF LayoutOf
<1> QED BY <1>3, <1>4, <1>5, Growth

LEMMA KeptStep ==
  ASSUME IInv, Kept, [Next]_vars
  PROVE  Kept'
<1> USE DEF IInv
<1> SUFFICES ASSUME NEW t \in Tickets, NEW l \in Layouts
             PROVE  /\ deadline'[l][t] <= clock' + KeyTtl
                    /\ ~Present(records'[l][t]) => records'[l][t].retentionUntil = 0
                    /\ \A c \in Callers : Puts(c, t)' /\ Present(records'[l][t])
                         => records'[l][t].retentionUntil = call'[c].now + Retention
  BY DEF Kept, KeyTtl
<1>1. deadline'[l][t] <= clock' + KeyTtl
  <2>1. /\ clock \in Nat /\ KeyTtl \in Nat /\ deadline[l][t] \in Nat
        /\ deadline[l][t] <= clock + KeyTtl /\ clock' \in {clock, clock + 1}
    BY KeyTtlType, ClockMove DEF Typed, Kept
  <2> QED BY <2>1, DeadlineMove
<1>2. ~Present(records'[l][t]) => records'[l][t].retentionUntil = 0
  BY RecordMove DEF Kept
<1>3. ASSUME NEW c \in Callers, Puts(c, t)', Present(records'[l][t])
      PROVE  records'[l][t].retentionUntil = call'[c].now + Retention
  <2>1. t \in minted
    BY <1>3, PresentMove DEF Home, AllPlaced, Placed, Puts
  <2>2. Puts(c, t)
    BY <1>3, <2>1, PutsMove
  <2>3. call'[c].now = call[c].now
    BY <1>3, <2>2, CallMove DEF Puts, Started, Moves, Onward
  <2>4. CASE records'[l][t] = records[l][t]
    BY <1>3, <2>2, <2>3, <2>4 DEF Kept
  <2>5. CASE records'[l][t] # records[l][t]
    BY <2>2, <2>3, <2>5, RecordMove DEF Kept, OnePut
  <2> QED BY <2>4, <2>5
<1> QED BY <1>1, <1>2, <1>3

(* A record that is there stays, and so does the end of its retention.     *)
LEMMA Retained ==
  ASSUME IInv, Kept, [Next]_vars, NEW l \in Layouts, NEW t \in Tickets, Present(records[l][t])
  PROVE  Present(records'[l][t]) /\ records'[l][t].retentionUntil = records[l][t].retentionUntil
<1>1. CASE records'[l][t] = records[l][t]
  BY <1>1
<1>2. CASE records'[l][t] # records[l][t]
  BY <1>2, RecordMove DEF Kept, IInv
<1> QED BY <1>1, <1>2

LEMMA SweepingStep ==
  ASSUME IInv, Kept, Sweeping, [Next]_vars
  PROVE  Sweeping'
<1> USE DEF IInv
<1> SUFFICES ASSUME NEW c \in Callers
             PROVE  LET rec == records'[call'[c].at][call'[c].ticket] IN
                    /\ pc'[c] \in {"look", "delete", "unindex"} => call'[c].now <= clock' + Skew
                    /\ pc'[c] \in {"delete", "unindex"} => Present(rec) /\ rec.retentionUntil <= call'[c].now
  BY DEF Sweeping
<1> DEFINE t == call[c].ticket
           l == call[c].at
<1>1. /\ clock \in Nat /\ clock' \in {clock, clock + 1} /\ Skew \in Nat
      /\ call[c].now \in Nat /\ l \in Layouts /\ (pc[c] # "idle" => t \in Tickets)
  BY ClockMove, Constants DEF Typed, Call, AllPlaced, Placed
<1>2. /\ pc[c] \in {"look", "delete", "unindex"} => call[c].now <= clock + Skew
      /\ pc[c] \in {"delete", "unindex"} =>
           Present(records[l][t]) /\ records[l][t].retentionUntil <= call[c].now
  BY DEF Sweeping
<1>3. pc[c] \in {"delete", "unindex"} =>
        Present(records'[l][t]) /\ records'[l][t].retentionUntil <= call[c].now
  BY <1>1, <1>2, Retained
<1>4. CASE pc'[c] = pc[c] /\ call'[c] = call[c]
  BY <1>1, <1>2, <1>3, <1>4
<1>5. CASE Started(c)
  <2>1. clock' = clock /\ call'[c].now = NowOf(c[1]) /\ pc'[c] \notin {"delete", "unindex"}
    BY <1>5 DEF Started
  <2> QED BY <1>1, <2>1 DEF NowOf
<1>6. ASSUME Step(c), Moves(c), pc'[c] \in {"look", "delete", "unindex"}
      PROVE  /\ call'[c].now <= clock' + Skew
             /\ pc'[c] \in {"delete", "unindex"} =>
                  Present(records'[l][t]) /\ records'[l][t].retentionUntil <= call[c].now
             /\ call'[c].now = call[c].now /\ call'[c].at = l /\ call'[c].ticket = t
  <2>1. /\ call'[c].now = call[c].now /\ call'[c].at = l /\ call'[c].ticket = t
        /\ pc[c] \in {"look", "delete", "unindex"}
        /\ pc'[c] \in {"delete", "unindex"} => pc[c] \in {"delete", "unindex"} \/ pc[c] = "look"
    BY <1>6 DEF Moves, Onward
  <2>2. ASSUME pc[c] = "look", pc'[c] = "delete"
        PROVE  Present(records'[l][t]) /\ records'[l][t].retentionUntil <= call[c].now
    <3>1. Sweep(c)
      BY <1>6, <2>2 DEF Step, PutRecord, PutIndex, Redeem, RedeemOldIndex, RedeemOld, Locate, Finish,
                        Claim, SweepRecord, SweepIndex, Raises, Ends, Typed
    <3>2. Present(Under(l, t)) /\ Under(l, t).retentionUntil <= call[c].now
      <4>1. CASE Reply(c, "swept")
        <5>1. "swept" \in Answers
          BY DEF Answers
        <5> QED BY <2>2, <4>1, <5>1, ReplyMoves DEF callVars
      <4> QED BY <3>1, <4>1 DEF Sweep
    <3>3. t \in Tickets /\ Under(l, t) = records[l][t]
      BY <1>1, <2>2, <3>2, Found
    <3> QED BY <1>1, <3>2, <3>3, Retained
  <2>3. pc'[c] \in {"delete", "unindex"} => pc[c] \in {"delete", "unindex"} \/ pc'[c] = "delete"
    BY <1>6 DEF Moves, Onward
  <2> QED BY <1>1, <1>2, <1>3, <2>1, <2>2, <2>3
<1> QED BY <1>4, <1>5, <1>6, CallMove

(* The two conditions under which a record may be missed stay true.        *)
LEMMA SweptStays ==
  ASSUME IInv, Kept, [Next]_vars, NEW l \in Layouts, NEW t \in Tickets,
         Present(records[l][t]), Swept(l, t)
  PROVE  Swept(l, t)'
<1>1. records'[l][t].retentionUntil = records[l][t].retentionUntil /\ clock' \in {clock, clock + 1}
  BY Retained, ClockMove DEF IInv
<1>2. records[l][t].retentionUntil \in Nat /\ clock \in Nat /\ Skew \in Nat
  BY Constants DEF IInv, Typed, Slot
<1> QED BY <1>1, <1>2 DEF Swept

LEMMA LateStays ==
  ASSUME IInv, Known, Kept, [Next]_vars, NEW t \in issued, Late(t)
  PROVE  Late(t)'
<1> USE DEF IInv
<1> SUFFICES ASSUME NEW l \in Layouts, Present(Under(l, t))' PROVE Swept(l, t)'
  BY DEF Late
<1>1. t \in Tickets
  BY DEF Typed
<1>2. Present(records'[l][t]) /\ clock' < deadline'[l][t]
  BY DEF Under, Present, NoRecord
<1>3. Present(records[l][t])
  BY <1>2, NotPut
<1>4. clock < deadline[l][t]
  <2>1. clock \in Nat /\ deadline[l][t] \in Nat /\ clock' \in {clock, clock + 1}
    BY <1>1, ClockMove DEF Typed
  <2>2. deadline'[l][t] \in {deadline[l][t], 0}
    <3>1. CASE \A u \in Tickets : Still(u)
      BY <1>1, <3>1 DEF Still
    <3>2. ASSUME NEW c \in Callers, Step(c), Wrote(c), \A u \in Tickets \ {call[c].ticket} : Same(u)
          PROVE  deadline'[l][t] \in {deadline[l][t], 0}
      <4>1. CASE call[c].ticket # t
        BY <1>1, <3>2, <4>1 DEF Same, Still
      <4>2. CASE call[c].ticket = t
        <5>1. ~Borne(c)
          BY <4>2, NotPut DEF Borne, Puts
        <5> QED BY <3>2, <5>1 DEF Wrote, Spent, Ended, Taken, Written
      <4> QED BY <4>1, <4>2
    <3> QED BY <3>1, <3>2, TicketMove
  <2> QED BY <1>2, <2>1, <2>2
<1>5. Swept(l, t)
  BY <1>3, <1>4 DEF Late, Under
<1> QED BY <1>1, <1>3, <1>5, SweptStays

LEMMA FindableStep ==
  ASSUME IInv, Known, Kept, Sweeping, Findable, [Next]_vars
  PROVE  Findable'
<1> USE DEF IInv
<1> SUFFICES ASSUME NEW t \in issued', NEW l \in Layouts, Present(records'[l][t])
             PROVE  index'[l][t] >= deadline'[l][t] \/ Swept(l, t)'
  BY DEF Findable
<1>1. Typed' /\ t \in Tickets
  BY TypedStep DEF Typed
<1>2. CASE t \in issued
  <2>1. Present(records[l][t]) /\ \A c \in Callers : ~Puts(c, t)
    BY <1>2, NotPut
  <2>2. CASE Swept(l, t)
    BY <1>1, <2>1, <2>2, SweptStays
  <2>3. CASE index[l][t] >= deadline[l][t] /\ index'[l][t] = index[l][t]
    <3>1. deadline'[l][t] \in {deadline[l][t], 0}
      <4>1. CASE \A u \in Tickets : Still(u)
        BY <1>1, <4>1 DEF Still
      <4>2. ASSUME NEW c \in Callers, Wrote(c), \A u \in Tickets \ {call[c].ticket} : Same(u)
            PROVE  deadline'[l][t] \in {deadline[l][t], 0}
        <5>1. CASE call[c].ticket # t
          BY <1>1, <4>2, <5>1 DEF Same, Still
        <5>2. CASE call[c].ticket = t
          BY <2>1, <4>2, <5>2 DEF Wrote, Borne, Puts, Spent, Ended, Taken, Written
        <5> QED BY <5>1, <5>2
      <4> QED BY <4>1, <4>2, TicketMove
    <3>2. deadline[l][t] \in Nat /\ index[l][t] \in Nat
      BY <1>1 DEF Typed
    <3> QED BY <2>3, <3>1, <3>2
  <2>4. CASE index'[l][t] # index[l][t]
    <3>1. PICK c \in Callers : pc[c] = "unindex" /\ l = call[c].at /\ t = call[c].ticket
      BY <1>1, <2>1, <2>4, IndexAt DEF Puts
    <3>2. records[l][t].retentionUntil <= call[c].now /\ call[c].now <= clock + Skew
      BY <3>1 DEF Sweeping
    <3>3. /\ records[l][t].retentionUntil \in Nat /\ call[c].now \in Nat
          /\ clock \in Nat /\ Skew \in Nat
      BY <1>1, Constants DEF Typed, Slot, Call
    <3>4. Swept(l, t)
      BY <3>2, <3>3 DEF Swept
    <3> QED BY <1>1, <2>1, <3>4, SweptStays
  <2> QED BY <2>1, <2>2, <2>3, <2>4, <1>2 DEF Findable
<1>3. CASE t \notin issued
  <2>1. PICK c \in Callers : Issues(c, t)
    BY <1>3, Issuing
  <2>2. Present(records[l][t]) /\ Puts(c, t)
    BY <2>1 DEF Issues
  <2>3. l = LayoutOf(c[1])
    BY <1>1, <2>2 DEF Home
  <2>4. index'[l][t] = clock + KeyTtl /\ deadline'[l][t] = deadline[l][t]
    BY <2>1, <2>3 DEF Issues
  <2>5. deadline[l][t] <= clock + KeyTtl /\ deadline[l][t] \in Nat /\ clock \in Nat /\ KeyTtl \in Nat
    BY <1>1, KeyTtlType DEF Kept, Typed
  <2> QED BY <2>4, <2>5
<1> QED BY <1>2, <1>3

(* Where a call looks, against where the record is.                        *)
LEMMA HeldAt ==
  ASSUME NEW t \in Tickets, NEW l \in Layouts,
         \A m \in Layouts \ {l} : ~Present(Under(m, t))
  PROVE  Held(t).status = Under(l, t).status /\ (Present(Held(t)) => Held(t) = Under(l, t))
BY DEF Held, Layouts, Present

LEMMA AbsentUnder ==
  ASSUME NEW t \in Tickets, NEW l \in Layouts, ~Present(records[l][t])
  PROVE  ~Present(Under(l, t))
BY DEF Under, Present, NoRecord

(* The answers of a call that acts on the record where it is are right.    *)
LEMMA ScriptIsRight ==
  ASSUME NEW c \in Callers, NEW l \in Layouts, call[c].ticket \in Tickets, call[c].op = "redeem",
         \A m \in Layouts \ {l} : ~Present(Under(m, call[c].ticket))
  PROVE  RedeemScript(c, l) = Would(c)
BY HeldAt DEF RedeemScript, Would, Present

LEMMA ActIsRight ==
  ASSUME NEW c \in Callers, NEW l \in Layouts, call[c].ticket \in Tickets,
         \A m \in Layouts \ {l} : ~Present(Under(m, call[c].ticket))
  PROVE  /\ call[c].op = "claim" => ClaimScript(Under(l, call[c].ticket)) = Would(c)
         /\ call[c].op = "finish" /\ ~Present(Under(l, call[c].ticket)) => Would(c) = "not_found"
<1>1. ASSUME call[c].op = "finish", ~Present(Under(l, call[c].ticket)) PROVE Would(c) = "not_found"
  <2>1. ~Present(Held(call[c].ticket))
    BY <1>1, HeldAt DEF Present
  <2> QED BY <1>1, <2>1 DEF Would
<1>2. ASSUME call[c].op = "claim" PROVE ClaimScript(Under(l, call[c].ticket)) = Would(c)
  <2>1. Held(call[c].ticket).status = Under(l, call[c].ticket).status
    BY HeldAt
  <2>2. Would(c) = ClaimScript(Held(call[c].ticket))
    BY <1>2 DEF Would
  <2> QED BY <2>1, <2>2 DEF ClaimScript, Present
<1> QED BY <1>1, <1>2

LEMMA NothingHeld ==
  ASSUME NEW c \in Callers, call[c].op \in Asking, call[c].ticket \in Tickets,
         \A l \in Layouts : ~Present(Under(l, call[c].ticket))
  PROVE  Would(c) = "not_found"
<1>1. ~Present(Held(call[c].ticket))
  BY DEF Held, Layouts
<1>2. ClaimScript(Held(call[c].ticket)) = "not_found"
  BY <1>1 DEF ClaimScript, Present
<1>3. CASE call[c].op = "claim"
  BY <1>2, <1>3 DEF Would
<1>4. CASE call[c].op \in {"redeem", "finish"}
  BY <1>1, <1>4 DEF Would
<1> QED BY <1>3, <1>4 DEF Asking

(* The answer of a call that ends is the one given, or it raised.          *)
LEMMA Answered ==
  ASSUME Typed, NEW c \in Callers, NEW a \in Answers, pc[c] # "idle", Reply(c, a), pc'[c] = "idle"
  PROVE  call'[c].answer \in {a, "raised"}
<1>1. "raised" \in Answers
  BY DEF Answers
<1> QED BY <1>1, EndsMoves DEF Reply, callVars

Owed(c, answer) ==
  answer \in could[c] \/ (answer = "not_found" /\ Late(call[c].ticket))

LEMMA AnswerIsRight ==
  ASSUME AnswerInv, NEW c \in Callers, Step(c), pc'[c] = "idle",
         call'[c].op \in Asking, call'[c].answer \in Refusals
  PROVE  Owed(c, call'[c].answer)
<1> USE DEF AnswerInv, IInv
<1> DEFINE t == call[c].ticket
           answer == call'[c].answer
<1>1. /\ pc[c] # "idle" /\ call[c].op \in Asking /\ t \in Tickets /\ t \in issued
      /\ Would(c) \in could[c] /\ call[c].at \in Layouts /\ Placed(c)
      /\ call[c].ending \in {"completed", "failed"}
  <2>1. Moves(c)
    BY Steps DEF Advance
  <2> QED BY <2>1 DEF Moves, AllPlaced, Placed, Known, Informed, Typed, Call
<1>2. "new" \in Layouts /\ "old" \in Layouts /\ "not_found" \in Answers /\ "raised" \notin Refusals
      /\ \A l \in Layouts : l \in {"new", "old"}
  BY DEF Layouts, Answers, Refusals
<1>3. ASSUME Would(c) = answer PROVE Owed(c, answer)
  BY <1>1, <1>3 DEF Owed
<1>4. ASSUME NEW l \in Layouts, NEW m \in Layouts, Present(Under(l, t)), l # m PROVE ~Present(Under(m, t))
  BY <1>1, <1>4, Found DEF Home
(* When nothing is found where the index says, the record is gone or late. *)
<1>5. ASSUME NEW l \in Layouts, ~Indexed(l, t), \A m \in Layouts \ {l} : ~Present(Under(m, t))
      PROVE  Owed(c, "not_found")
  <2>1. CASE Present(Under(l, t))
    <3>1. Present(records[l][t]) /\ clock < deadline[l][t]
      BY <1>1, <2>1, Found
    <3>2. clock \in Nat /\ index[l][t] \in Nat /\ deadline[l][t] \in Nat
      BY <1>1 DEF Typed
    <3>3. Swept(l, t)
      BY <1>1, <1>5, <3>1, <3>2 DEF Findable, Indexed
    <3>4. Late(t)
      BY <1>5, <3>3 DEF Late
    <3> QED BY <3>4 DEF Owed
  <2>2. CASE ~Present(Under(l, t))
    <3>1. Would(c) = "not_found"
      BY <1>1, <1>5, <2>2, NothingHeld
    <3> QED BY <1>1, <3>1 DEF Owed
  <2> QED BY <2>1, <2>2
<1>6. ASSUME NEW l \in Layouts, pc[c] \in {"script", "oldscript"}, RedeemAt(c, l)
      PROVE  answer = RedeemScript(c, l) /\ call[c].op = "redeem"
  <2>1. Reply(c, RedeemScript(c, l)) /\ RedeemScript(c, l) \in Answers
    BY <1>6 DEF RedeemAt, RedeemScript, Answers
  <2>2. answer \in {RedeemScript(c, l), "raised"}
    BY <1>1, <2>1, Answered
  <2> QED BY <1>1, <1>2, <1>6, <2>2 DEF Placed
<1>7. CASE Redeem(c)
  <2>1. RedeemScript(c, "new") # "not_found" /\ RedeemAt(c, "new") /\ pc[c] = "script"
    BY <1>7 DEF Redeem, Goes, Typed
  <2>2. Present(Under("new", t))
    BY <2>1 DEF RedeemScript
  <2>3. answer = Would(c)
    BY <1>1, <1>2, <1>4, <1>6, <2>1, <2>2, ScriptIsRight
  <2> QED BY <1>3, <2>3
<1>8. CASE RedeemOldIndex(c)
  <2>1. pc[c] = "oldindex" /\ ~Indexed("old", t) /\ Reply(c, "not_found")
    BY <1>8 DEF RedeemOldIndex, Goes, Typed
  <2>2. answer = "not_found"
    BY <1>1, <1>2, <2>1, Answered
  <2>3. CASE "not_found" \in could[c]
    BY <2>2, <2>3 DEF Owed
  <2>4. CASE ~Present(records["new"][t])
    <3>1. \A m \in Layouts \ {"old"} : ~Present(Under(m, t))
      BY <1>1, <1>2, <2>4, AbsentUnder
    <3> QED BY <1>2, <1>5, <2>1, <2>2, <3>1
  <2> QED BY <2>1, <2>3, <2>4 DEF Informed
<1>9. CASE RedeemOld(c)
  <2>1. pc[c] = "oldscript" /\ RedeemAt(c, "old")
    BY <1>9 DEF RedeemOld
  <2>2. CASE Present(Under("old", t)) \/ ~Present(records["new"][t])
    <3>1. \A m \in Layouts \ {"old"} : ~Present(Under(m, t))
      BY <1>1, <1>2, <1>4, <2>2, AbsentUnder
    <3>2. answer = Would(c)
      BY <1>1, <1>2, <1>6, <2>1, <3>1, ScriptIsRight
    <3> QED BY <1>3, <3>2
  <2>3. CASE ~Present(Under("old", t)) /\ "not_found" \in could[c]
    <3>1. answer = "not_found"
      BY <1>2, <1>6, <2>1, <2>3 DEF RedeemScript
    <3> QED BY <2>3, <3>1 DEF Owed
  <2> QED BY <2>1, <2>2, <2>3 DEF Informed
<1>10. CASE Locate(c)
  <2>1. pc[c] = "locate" /\ pc'[c] # "act"
    BY <1>10 DEF Locate
  <2>2. ~Indexed("new", t) /\ ~Present(Under("old", t)) /\ Reply(c, "not_found")
    BY <1>10, <2>1 DEF Locate, Typed
  <2>3. answer = "not_found"
    BY <1>1, <1>2, <2>2, Answered
  <2>4. \A m \in Layouts \ {"new"} : ~Present(Under(m, t))
    BY <1>2, <2>2
  <2> QED BY <1>2, <1>5, <2>2, <2>3, <2>4
<1>11. CASE Finish(c) \/ Claim(c)
  <2> DEFINE l == call[c].at
  <2>1. pc[c] = "act" /\ Elsewhere(c)
    BY <1>11 DEF Finish, Claim, Informed
  <2>2. \A m \in Layouts \ {l} : ~Present(Under(m, t))
    BY <1>1, <2>1, AbsentUnder DEF Elsewhere
  <2>3. CASE Finish(c)
    <3>1. CASE Present(Under(l, t))
      <4>1. Reply(c, call[c].ending) /\ call[c].ending \in Answers
        BY <1>1, <2>3, <3>1 DEF Finish, Answers
      <4>2. answer \in {call[c].ending, "raised"}
        BY <1>1, <4>1, Answered
      <4> QED BY <1>1, <4>2 DEF Refusals
    <3>2. CASE ~Present(Under(l, t))
      <4>1. Reply(c, "not_found") /\ call[c].op = "finish"
        BY <2>3, <3>2 DEF Finish
      <4>2. answer = "not_found"
        BY <1>1, <1>2, <4>1, Answered
      <4> QED BY <1>1, <1>3, <2>2, <3>2, <4>1, <4>2, ActIsRight
    <3> QED BY <3>1, <3>2
  <2>4. CASE Claim(c)
    <3>1. Reply(c, ClaimScript(Under(l, t))) /\ call[c].op = "claim"
      BY <2>4 DEF Claim
    <3>2. ClaimScript(Under(l, t)) \in Answers
      BY DEF ClaimScript, Answers
    <3>3. answer = ClaimScript(Under(l, t))
      BY <1>1, <1>2, <3>1, <3>2, Answered
    <3> QED BY <1>1, <1>3, <2>2, <3>1, <3>3, ActIsRight
  <2> QED BY <1>11, <2>3, <2>4
<1>12. CASE Sweep(c) \/ SweepRecord(c) \/ SweepIndex(c) \/ PutRecord(c) \/ PutIndex(c)
  BY <1>1, <1>12 DEF Sweep, SweepRecord, SweepIndex, PutRecord, PutIndex, Placed, Asking
<1>13. CASE Raises(c)
  <2>1. Ends(c, "raised") /\ "raised" \in Answers
    BY <1>13 DEF Raises, Answers
  <2> QED BY <1>1, <1>2, <2>1, EndsMoves
<1> QED BY <1>7, <1>8, <1>9, <1>10, <1>11, <1>12, <1>13 DEF Step

(* What a call knows, from one round trip to the next.                     *)
LEMMA Observed ==
  ASSUME Typed, CouldTyped, [Next]_vars, NEW c \in Callers
  PROVE  /\ pc'[c] # "idle" /\ (~UNCHANGED vars) => Would(c)' \in could'[c]
         /\ pc'[c] # "idle" /\ pc[c] # "idle" => could[c] \subseteq could'[c]
         /\ pc'[c] = "idle" => could[c] \cap {call'[c].answer} \subseteq could'[c]
<1>1. CASE UNCHANGED vars
  BY <1>1 DEF vars
<1>2. CASE Observe
  BY <1>2 DEF Observe
<1> QED BY <1>1, <1>2 DEF Next

LEMMA InformedStep ==
  ASSUME AnswerInv, [Next]_vars, NEW c \in Callers
  PROVE  Informed(c)'
<1> USE DEF AnswerInv, IInv
<1> DEFINE t == call[c].ticket
<1>1. Informed(c) /\ "new" \in Layouts /\ "old" \in Layouts /\ \A l \in Layouts : l \in {"new", "old"}
  BY DEF Layouts
<1>2. pc[c] \in {"script", "oldindex", "oldscript", "locate", "act"} => t \in issued /\ t \in Tickets
  BY DEF AllPlaced, Placed, Known, Asking
<1>3. ASSUME NEW l \in Layouts, t \in issued, ~Present(records[l][t]) PROVE ~Present(records'[l][t])
  BY <1>3, NotPut
<1>4. ASSUME pc'[c] # "idle" PROVE Would(c)' \in could'[c]
  <2>1. CASE UNCHANGED vars
    <3>1. Would(c)' = Would(c) /\ could' = could /\ pc' = pc
      BY <2>1 DEF vars, keyVars, callVars, callerVars, historyVars, Would, Held, Under, Judged
    <3> QED BY <1>1, <1>4, <3>1 DEF Informed
  <2> QED BY <1>4, <2>1, Observed
<1>5. ASSUME pc'[c] = "act" PROVE Elsewhere(c)'
  <2>1. CASE pc[c] = "act" /\ call'[c].at = call[c].at /\ call'[c].ticket = t
    BY <1>1, <1>2, <1>3, <2>1 DEF Informed, Elsewhere
  <2>2. CASE pc[c] = "locate" /\ Step(c) /\ call'[c].ticket = t
    <3>1. Locate(c)
      BY <1>5, <2>2 DEF Step, PutRecord, PutIndex, Redeem, RedeemOldIndex, RedeemOld, Finish, Claim,
                        Sweep, SweepRecord, SweepIndex, Raises, Ends, Typed
    <3>2. pc'[c] # pc[c]
      BY <1>5, <2>2
    <3>3. ~Reply(c, "not_found")
      <4>1. "not_found" \in Answers /\ pc[c] # "idle"
        BY <2>2 DEF Answers
      <4> QED BY <1>5, <3>2, <4>1, ReplyMoves DEF callVars
    <3>4. \/ call'[c].at = "new" /\ (Remembered(t) \/ Indexed("new", t))
          \/ call'[c].at = "old" /\ Present(Under("old", t))
      <4>1. ASSUME NEW l \in Layouts, call' = [call EXCEPT ![c].at = l] PROVE call'[c].at = l
        BY <4>1 DEF Typed, Call
      <4> QED BY <1>1, <3>1, <3>3, <4>1, Constants DEF Locate, Remembered
    <3>5. ASSUME NEW l \in Layouts \ {call'[c].at} PROVE ~Present(records[l][t])
      <4>1. CASE call'[c].at = "new" /\ (Remembered(t) \/ Indexed("new", t))
        <5>1. clock \in Nat /\ index["new"][t] \in Nat
          BY <1>1, <1>2, <2>2 DEF Typed
        <5>2. Remembered(t) \/ index["new"][t] # 0
          BY <4>1, <5>1 DEF Indexed
        <5> QED BY <1>1, <1>2, <2>2, <4>1, <5>2 DEF Laid
      <4>2. CASE call'[c].at = "old" /\ Present(Under("old", t))
        BY <1>1, <1>2, <2>2, <4>2, Found DEF Home
      <4> QED BY <3>4, <4>1, <4>2
    <3> QED BY <1>2, <1>3, <2>2, <3>5 DEF Elsewhere
  <2>3. \/ pc[c] = "act" /\ call'[c].at = call[c].at /\ call'[c].ticket = t
        \/ pc[c] = "locate" /\ Step(c) /\ call'[c].ticket = t
    BY <1>5, CallMove DEF Started, Moves, Onward, AllPlaced, Placed
  <2> QED BY <2>1, <2>2, <2>3
<1>6. ASSUME pc'[c] \in {"oldindex", "oldscript"}
      PROVE  "not_found" \in could'[c] \/ ~Present(records'["new"][call'[c].ticket])
  <2>1. /\ call'[c].ticket = t
        /\ pc[c] \in {"oldindex", "oldscript"} \/ (pc[c] = "script" /\ Step(c))
    BY <1>6, CallMove DEF Started, Moves, Onward
  <2>2. could[c] \subseteq could'[c] /\ t \in issued /\ t \in Tickets
    BY <1>2, <1>6, <2>1, Observed
  <2>3. CASE pc[c] \in {"oldindex", "oldscript"}
    BY <1>1, <1>3, <2>1, <2>2, <2>3 DEF Informed
  <2>4. CASE pc[c] = "script" /\ Step(c)
    <3>1. Redeem(c)
      BY <1>6, <2>4 DEF Step, PutRecord, PutIndex, RedeemOldIndex, RedeemOld, Locate, Finish, Claim,
                        Sweep, SweepRecord, SweepIndex, Raises, Ends, Typed
    <3>2. ~Present(Under("new", t))
      <4>1. CASE RedeemAt(c, "new")
        <5>1. Reply(c, RedeemScript(c, "new")) /\ RedeemScript(c, "new") \in Answers
          BY <4>1 DEF RedeemAt, RedeemScript, Answers
        <5> QED BY <1>6, <2>4, <5>1, ReplyMoves DEF callVars
      <4>2. CASE RedeemScript(c, "new") = "not_found"
        BY <4>2 DEF RedeemScript
      <4> QED BY <3>1, <4>1, <4>2 DEF Redeem
    <3>3. CASE Present(records["new"][t])
      <4>1. \A l \in Layouts : ~Present(Under(l, t))
        BY <1>1, <2>2, <3>2, <3>3, AbsentUnder DEF Home
      <4>2. call[c].op \in Asking
        BY <2>4 DEF AllPlaced, Placed, Asking
      <4>3. Would(c) = "not_found"
        BY <2>2, <4>1, <4>2, NothingHeld
      <4> QED BY <1>1, <2>2, <2>4, <4>3 DEF Informed
    <3>4. CASE ~Present(records["new"][t])
      BY <1>1, <1>3, <2>1, <2>2, <3>4
    <3> QED BY <3>3, <3>4
  <2> QED BY <2>1, <2>3, <2>4
<1> QED BY <1>4, <1>5, <1>6 DEF Informed

LEMMA RightStep ==
  ASSUME AnswerInv, [Next]_vars, NEW c \in Callers
  PROVE  Right(c)'
<1> USE DEF AnswerInv, IInv
<1> SUFFICES ASSUME pc'[c] = "idle", call'[c].op \in Asking, call'[c].answer \in Refusals
             PROVE  \/ call'[c].answer \in could'[c]
                    \/ call'[c].answer = "not_found" /\ Late(call[c].ticket)' /\ call'[c].ticket = call[c].ticket
  BY DEF Right, Late, Under, Swept
<1>1. Right(c) /\ (call[c].op \in Asking => call[c].ticket \in issued)
  BY DEF Known
<1>2. Owed(c, call'[c].answer) /\ call'[c].ticket = call[c].ticket /\ call[c].op \in Asking
  <2>1. CASE pc'[c] = pc[c] /\ call'[c] = call[c]
    BY <1>1, <2>1 DEF Right, Owed
  <2>2. CASE call'[c] = NoCall
    BY <2>2 DEF NoCall, Asking
  <2>3. CASE Started(c)
    BY <2>3 DEF Started
  <2>4. CASE Step(c) /\ Moves(c)
    BY <2>4, AnswerIsRight DEF Moves
  <2> QED BY <2>1, <2>2, <2>3, <2>4, CallMove
<1>3. Late(call[c].ticket) => Late(call[c].ticket)'
  BY <1>1, <1>2, LateStays
<1> QED BY <1>2, <1>3, Observed DEF Owed

LEMMA CouldStep ==
  ASSUME Typed, AllPlaced, CouldTyped, [Next]_vars
  PROVE  CouldTyped'
<1>1. Typed'
  BY TypedStep
<1>2. ASSUME NEW c \in Callers PROVE Would(c)' \in Answers
  <2>1. call'[c].ending \in Answers
    BY <1>1 DEF Typed, Call, Answers
  <2>2. ClaimScript(Held(call[c].ticket))' \in Answers
    BY DEF ClaimScript, Answers
  <2> QED BY <2>1, <2>2 DEF Would, Answers
<1>3. CASE Observe
  BY <1>2, <1>3 DEF Observe, CouldTyped
<1>4. CASE UNCHANGED vars
  BY <1>4 DEF vars, CouldTyped
<1> QED BY <1>3, <1>4 DEF Next

LEMMA AnswerStep == AnswerInv /\ [Next]_vars => AnswerInv'
<1> SUFFICES ASSUME AnswerInv, [Next]_vars PROVE AnswerInv'
  OBVIOUS
<1>1. IInv' /\ MemoTyped' /\ CouldTyped'
  BY IInvStep, MemoMove, CouldStep DEF AnswerInv, IInv
<1>2. Known' /\ Laid' /\ Kept' /\ Sweeping' /\ Findable'
  BY KnownStep, LaidStep, KeptStep, SweepingStep, FindableStep DEF AnswerInv
<1>3. \A c \in Callers : Informed(c)' /\ Right(c)'
  BY InformedStep, RightStep
<1> QED BY <1>1, <1>2, <1>3 DEF AnswerInv

LEMMA AnswerInit == Init => AnswerInv
<1> SUFFICES ASSUME Init PROVE AnswerInv
  OBVIOUS
<1>1. IInv
  BY IInvInit
<1>2. MemoTyped /\ \A p \in Processes : ToSet(memo[p]) = {}
  BY RedisAssumption DEF Init, MemoTyped, ToSet, RedisAssumption
<1>3. CouldTyped
  BY DEF Init, CouldTyped
<1>4. Known
  BY DEF Init, Known, NoCall, Asking
<1>5. \A l \in Layouts, t \in Tickets : ~Present(records[l][t]) /\ index[l][t] = 0 /\ deadline[l][t] = 0
                                        /\ records[l][t].retentionUntil = 0
  BY DEF Init, Present, NoRecord
<1>6. Laid
  BY <1>2, <1>5 DEF Laid, Remembered, Layouts
<1>7. Kept
  <2>1. clock = 0 /\ KeyTtl \in Nat
    BY KeyTtlType DEF Init
  <2> QED BY <1>5, <2>1 DEF Kept
<1>8. Sweeping /\ Findable
  BY DEF Init, Sweeping, Findable
<1>9. \A c \in Callers : Informed(c) /\ Right(c)
  BY DEF Init, Informed, Right, NoCall, Asking
<1> QED BY <1>1, <1>2, <1>3, <1>4, <1>6, <1>7, <1>8, <1>9 DEF AnswerInv

LEMMA AnswerInvHolds == Spec => []AnswerInv
BY AnswerInit, AnswerStep, PTL DEF Spec

(* Whatever other calls, crashes, sweeps and lost replies come between its *)
(* round trips, and whichever layout the record is in, a redeem, a finish  *)
(* or a claim that is refused could have been refused by a store of one    *)
(* step at some moment of the call; only a record whose retention is over  *)
(* may be missed.                                                          *)
THEOREM RefusalsAreTrue == Spec => []RefusalsWereTrue
<1>1. AnswerInv => RefusalsWereTrue
  <2> SUFFICES ASSUME AnswerInv, NEW c \in Callers, pc[c] = "idle", call[c].op \in Asking,
                      call[c].answer \in Refusals, call[c].answer \notin could[c]
               PROVE  /\ call[c].answer = "not_found"
                      /\ clock + Skew >= Held(call[c].ticket).retentionUntil
    BY DEF RefusalsWereTrue, Asking
  <2> DEFINE t == call[c].ticket
  <2>1. call[c].answer = "not_found" /\ Late(t)
    BY DEF AnswerInv, Right
  <2>2. t \in Tickets /\ clock \in Nat /\ Skew \in Nat
    BY Constants DEF AnswerInv, IInv, Typed, Known
  <2>3. CASE Present(Held(t))
    <3>1. PICK l \in Layouts : Present(Under(l, t)) /\ Held(t) = records[l][t]
      BY <2>2, <2>3, HeldFrom DEF Under
    <3> QED BY <2>1, <3>1 DEF Late, Swept
  <2>4. CASE ~Present(Held(t))
    <3>1. "old" \in Layouts /\ ~Present(Under("old", t)) /\ Held(t) = Under("old", t)
      BY <2>4 DEF Held, Layouts
    <3>2. Under("old", t).retentionUntil = 0
      BY <2>2, <3>1 DEF Under, NoRecord, AnswerInv, Kept
    <3> QED BY <2>1, <2>2, <3>1, <3>2
  <2> QED BY <2>1, <2>3, <2>4
<1> QED BY <1>1, AnswerInvHolds, PTL

(* Besides, when the retention is a whole number of seconds and no command *)
(* is sent twice, every variable has its type, a memo is never longer than *)
(* its bound, and the server keeps each key for as long as was promised    *)
(* and no longer than that.                                                *)
THEOREM KeysLastTheirRetention ==
  ASSUME ~Resends, KeyTtl = Retention
  PROVE  Spec => []KeysLast
<1>1. AnswerInv => RedisTypeOK
  <2> SUFFICES ASSUME AnswerInv PROVE RedisTypeOK
    OBVIOUS
  <2>1. ASSUME NEW p \in Processes
        PROVE  Len(memo[p]) <= MemoSize /\ ToSet(memo[p]) \subseteq Tickets
    <3>1. memo[p] \in Seq(Tickets) /\ Len(memo[p]) <= MemoSize
      BY DEF AnswerInv, MemoTyped
    <3> QED BY <3>1 DEF ToSet
  <2> QED BY <2>1 DEF AnswerInv, IInv, Typed, CouldTyped, RedisTypeOK
<1>2. Spec => [](KeysCoverRetention /\ NothingImmortal)
  BY KeysOutlast
<1> QED BY <1>1, <1>2, AnswerInvHolds, PTL DEF KeysLast
==============================================================================
