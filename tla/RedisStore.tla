----------------------------- MODULE RedisStore ------------------------------
(***************************************************************************)
(* The ticket store in Redis (redis_store.py), shared by processes on      *)
(* several machines whose clocks may disagree.  A call is a few round      *)
(* trips; a command or a script is atomic, and those of other calls come   *)
(* between two of one call.  Each round trip can fail before it does       *)
(* anything, and its reply can be lost after it did; a client that retries *)
(* then sends it again.                                                    *)
(*                                                                         *)
(* A record lives under one key and is found by another, in one of two     *)
(* layouts: "new" has the record under the ticket's hash and an index from *)
(* the id, "old" (0.4.0) the record under its id and an index from the     *)
(* hash.  Hash and id are one name here, and a key is a layout and a name. *)
(* A key is gone once the server's clock reaches its deadline.             *)
(***************************************************************************)
EXTENDS TicketRecords, Sequences, SequencesExt, FiniteSets

CONSTANTS
  Tickets,     \* the record ids that can be minted
  Processes,   \* the processes, each with a store object
  Calls,       \* bound: the calls a process makes at one time
  Legacy,      \* the processes started with legacy_layout
  ServerClock, \* server_clock
  Fast,        \* the processes whose clocks are ahead of the server's
  Skew,        \* by how much they are
  Ttl,         \* ttl of a ticket
  Retention,   \* retention of a record
  Second,      \* the ticks of a second: key deadlines are whole seconds
  MemoSize,    \* _MEMO_SIZE
  Resends,     \* the client sends a command again when its reply is lost
  CallTime,    \* bound: the longest a call takes
  MaxClock     \* bound: the clock stops at this tick

ASSUME RedisAssumption ==
  /\ Calls \in Nat \ {0} /\ Second \in Nat \ {0} /\ MemoSize \in Nat \ {0}
  /\ {Skew, Ttl, Retention, CallTime, MaxClock} \subseteq Nat
  /\ Ttl <= Retention
  /\ Legacy \subseteq Processes /\ Fast \subseteq Processes
  /\ {ServerClock, Resends} \subseteq BOOLEAN

VARIABLES
  clock,      \* the server's clock
  records,    \* layout, ticket -> the record last written under the key
  deadline,   \* layout, ticket -> when that key goes, 0 if never written
  index,      \* layout, ticket -> when its index key goes, 0 if there is none
  memo,       \* process -> the ids whose hash it remembers, oldest first
  pc,         \* call -> its next round trip, or idle
  call,       \* call -> what was passed, the layout located, the answer
  minted,     \* the ids put was called for
  issued,     \* those it returned for, which callers can know
  uploading,  \* <<process, ticket>>: redeemed there, finish still to come
  born,       \* history: ticket -> when its record was written, -1 if never
  won, took,  \* history: ticket -> the calls whose script redeemed, or claimed, it
  could       \* history: call -> the answers a one-step store would have given so far

keyVars == <<records, deadline, index>>
callVars == <<pc, call>>
callerVars == <<minted, issued, uploading>>
historyVars == <<born, won, took>>
vars == <<clock, keyVars, memo, callVars, callerVars, historyVars, could>>

Layouts == {"new", "old"}
Callers == Processes \X (1..Calls)
Never == MaxClock + Retention + 1
NoTicket == "no ticket"

Ops == {"none", "put", "redeem", "finish", "claim", "sweep"}
Answers == {"none", "stored", "redeemed", "not_found", "already_used", "expired", "completed",
            "failed", "claimed", "already_claimed", "not_completed", "swept", "raised"}
Call == [op : Ops, ticket : Tickets \cup {NoTicket}, now : Nat,
         ending : {"completed", "failed"}, at : Layouts, broken : BOOLEAN, answer : Answers]
NoCall == [op |-> "none", ticket |-> NoTicket, now |-> 0, ending |-> "failed", at |-> "new",
           broken |-> FALSE, answer |-> "none"]

RedisTypeOK ==
  /\ clock \in 0..MaxClock
  /\ records \in [Layouts -> [Tickets -> Slot]]
  /\ deadline \in [Layouts -> [Tickets -> Nat]]
  /\ index \in [Layouts -> [Tickets -> Nat]]
  /\ \A p \in Processes : Len(memo[p]) <= MemoSize /\ ToSet(memo[p]) \subseteq Tickets
  /\ pc \in [Callers -> {"idle", "write", "index", "script", "oldindex", "oldscript", "locate",
                         "act", "look", "delete", "unindex"}]
  /\ call \in [Callers -> Call]
  /\ minted \subseteq Tickets
  /\ issued \subseteq minted
  /\ uploading \subseteq Processes \X Tickets
  /\ born \in [Tickets -> Nat \cup {-1}]
  /\ won \in [Tickets -> SUBSET Callers]
  /\ took \in [Tickets -> SUBSET Callers]
  /\ could \in [Callers -> SUBSET Answers]

Init ==
  /\ clock = 0
  /\ records = [l \in Layouts |-> [t \in Tickets |-> NoRecord]]
  /\ deadline = [l \in Layouts |-> [t \in Tickets |-> 0]]
  /\ index = [l \in Layouts |-> [t \in Tickets |-> 0]]
  /\ memo = [p \in Processes |-> <<>>]
  /\ pc = [c \in Callers |-> "idle"]
  /\ call = [c \in Callers |-> NoCall]
  /\ minted = {}
  /\ issued = {}
  /\ uploading = {}
  /\ born = [t \in Tickets |-> -1]
  /\ won = [t \in Tickets |-> {}]
  /\ took = [t \in Tickets |-> {}]
  /\ could = [c \in Callers |-> {}]

(* What the server finds under a key now.                                  *)
Under(l, t) == IF clock < deadline[l][t] THEN records[l][t] ELSE NoRecord
Indexed(l, t) == clock < index[l][t]
Held(t) == IF Present(Under("new", t)) THEN Under("new", t) ELSE Under("old", t)

----------------------------------------------------------------------------
(* Calls.                                                                  *)

NowOf(p) == IF p \in Fast THEN clock + Skew ELSE clock
LayoutOf(p) == IF p \in Legacy THEN "old" ELSE "new"

Begin(c, op, t, ending, first) ==
  /\ pc[c] = "idle"
  /\ pc' = [pc EXCEPT ![c] = first]
  /\ call' = [call EXCEPT ![c] =
                [NoCall EXCEPT !.op = op, !.ticket = t, !.now = NowOf(c[1]), !.ending = ending]]
  /\ UNCHANGED <<clock, keyVars, memo, historyVars>>

BeginPut(c, t) ==
  /\ t \notin minted
  /\ minted' = minted \cup {t}
  /\ Begin(c, "put", t, "failed", "write")
  /\ UNCHANGED <<issued, uploading>>
BeginRedeem(c, t) ==
  t \in issued /\ Begin(c, "redeem", t, "failed", "script") /\ UNCHANGED callerVars
BeginClaim(c, t) ==
  t \in issued /\ Begin(c, "claim", t, "failed", "locate") /\ UNCHANGED callerVars
BeginFinish(c, t, ending) ==
  /\ <<c[1], t>> \in uploading
  /\ Begin(c, "finish", t, ending, "locate")
  /\ uploading' = uploading \ {<<c[1], t>>}
  /\ UNCHANGED <<minted, issued>>

(* SCAN finds a key; the deletions are the same for each.                  *)
BeginSweep(c, l, t) ==
  /\ Present(Under(l, t))
  /\ pc[c] = "idle"
  /\ pc' = [pc EXCEPT ![c] = "look"]
  /\ call' = [call EXCEPT ![c] =
                [NoCall EXCEPT !.op = "sweep", !.ticket = t, !.now = NowOf(c[1]), !.at = l]]
  /\ UNCHANGED <<clock, keyVars, memo, callerVars, historyVars>>

Goes(c, trip) == pc' = [pc EXCEPT ![c] = trip] /\ UNCHANGED call

(* The reply of a call's last round trip: it arrives, or is lost and the   *)
(* call raises, or is lost and the client sends the command again.         *)
Ends(c, answer) ==
  /\ call' = [call EXCEPT ![c] = [NoCall EXCEPT !.op = call[c].op, !.ticket = call[c].ticket,
                                               !.answer = answer]]
  /\ pc' = [pc EXCEPT ![c] = "idle"]
Reply(c, answer) ==
  \/ Ends(c, answer)
  \/ Ends(c, "raised")
  \/ Resends /\ UNCHANGED callVars

(* _remember: the oldest entry makes room.                                 *)
Remember(p, t) ==
  memo' = IF t \in ToSet(memo[p]) THEN memo
          ELSE [memo EXCEPT ![p] = Append(IF Len(@) >= MemoSize THEN Tail(@) ELSE @, t)]

----------------------------------------------------------------------------
(* put.  The two writes are a pipeline to two cluster slots: either can    *)
(* fail alone, and put raises when one did.                                *)

KeyTtl == LET seconds == Retention \div Second IN
          Second * (IF seconds > 1 THEN seconds ELSE 1)

PutRecord(c) ==
  LET t == call[c].ticket
      l == LayoutOf(c[1])
  IN
  /\ pc[c] = "write"
  /\ pc' = [pc EXCEPT ![c] = "index"]
  /\ \/ /\ records' = [records EXCEPT ![l][t] = NewRecord(Nobody, call[c].now, Ttl, Retention)]
        /\ deadline' = [deadline EXCEPT ![l][t] = clock + KeyTtl]
        /\ born' = [born EXCEPT ![t] = clock]
        /\ UNCHANGED call
     \/ /\ call' = [call EXCEPT ![c].broken = TRUE]
        /\ UNCHANGED <<records, deadline, born>>
  /\ UNCHANGED <<clock, index, memo, callerVars, won, took>>

PutIndex(c) ==
  LET t == call[c].ticket
      l == LayoutOf(c[1])
      indexed == index' = [index EXCEPT ![l][t] = clock + KeyTtl]
  IN
  /\ pc[c] = "index"
  /\ \/ ~call[c].broken /\ indexed /\ Ends(c, "stored")
     \/ (indexed \/ UNCHANGED index) /\ Ends(c, "raised")
     \/ /\ Resends
        /\ indexed \/ UNCHANGED index
        /\ call' = [call EXCEPT ![c].broken = FALSE]
        /\ pc' = [pc EXCEPT ![c] = "write"]
  /\ IF call'[c].answer = "stored"
       THEN /\ issued' = issued \cup {t}
            /\ IF l = "new" THEN Remember(c[1], t) ELSE UNCHANGED memo
       ELSE UNCHANGED <<issued, memo>>
  /\ UNCHANGED <<clock, records, deadline, minted, uploading, historyVars>>

----------------------------------------------------------------------------
(* The scripts.  A write to a key that is gone would make a new one that   *)
(* has no deadline.                                                        *)

WriteKey(l, t, rec) ==
  /\ records' = [records EXCEPT ![l][t] = rec]
  /\ deadline' = [deadline EXCEPT ![l][t] = IF clock < @ THEN @ ELSE Never]

Mutant_Judged(c) == call[c].now
Judged(c) == IF ServerClock THEN clock ELSE call[c].now

Mutant_RedeemScript(c, l) ==
  LET rec == Under(l, call[c].ticket) IN
  IF ~Present(rec) THEN "not_found"
  ELSE IF Expired(rec, Judged(c)) THEN "expired"
  ELSE "redeemed"
RedeemScript(c, l) ==
  LET rec == Under(l, call[c].ticket) IN
  IF ~Present(rec) THEN "not_found"
  ELSE IF rec.status # "issued" THEN "already_used"
  ELSE IF Expired(rec, Judged(c)) THEN "expired"
  ELSE "redeemed"

(* _redeem_at, and what redeem does with an answer other than not_found.   *)
RedeemAt(c, l) ==
  LET t == call[c].ticket
      result == RedeemScript(c, l)
  IN
  /\ IF result = "redeemed"
       THEN /\ WriteKey(l, t, Redeemed(records[l][t], call[c].now))
            /\ won' = [won EXCEPT ![t] = @ \cup {c}]
       ELSE UNCHANGED <<records, deadline, won>>
  /\ Reply(c, result)
  /\ IF call'[c].answer = "redeemed"
       THEN /\ uploading' = uploading \cup {<<c[1], t>>}
            /\ IF l = "new" THEN Remember(c[1], t) ELSE UNCHANGED memo
       ELSE UNCHANGED <<uploading, memo>>
  /\ UNCHANGED <<clock, index, minted, issued, born, took>>

(* redeem: the new layout first, and the old one if there is nothing.      *)
Redeem(c) ==
  /\ pc[c] = "script"
  /\ \/ RedeemScript(c, "new") # "not_found" /\ RedeemAt(c, "new")
     \/ /\ RedeemScript(c, "new") = "not_found"
        /\ Goes(c, "oldindex")
        /\ UNCHANGED <<clock, keyVars, memo, callerVars, historyVars>>
RedeemOldIndex(c) ==
  /\ pc[c] = "oldindex"
  /\ IF Indexed("old", call[c].ticket) THEN Goes(c, "oldscript") ELSE Reply(c, "not_found")
  /\ UNCHANGED <<clock, keyVars, memo, callerVars, historyVars>>
RedeemOld(c) == pc[c] = "oldscript" /\ RedeemAt(c, "old")

(* get_by_hash, and get by the index: what they find is remembered.        *)
Lookup(p, t) ==
  /\ t \in issued
  /\ Present(Under("new", t)) \/ Indexed("new", t)
  /\ Remember(p, t)
  /\ UNCHANGED <<clock, keyVars, callVars, callerVars, historyVars>>

(* _locate, for finish and claim: the memo, or the index and the old key.  *)
Mutant_Locate(c) ==
  /\ pc[c] = "locate"
  /\ IF call[c].ticket \in ToSet(memo[c[1]]) \/ Indexed("new", call[c].ticket)
       THEN /\ call' = [call EXCEPT ![c].at = "new"]
            /\ pc' = [pc EXCEPT ![c] = "act"]
       ELSE Reply(c, "not_found")
  /\ UNCHANGED <<clock, keyVars, memo, callerVars, historyVars>>
Locate(c) ==
  LET t == call[c].ticket
      p == c[1]
      found(l) == call' = [call EXCEPT ![c].at = l] /\ pc' = [pc EXCEPT ![c] = "act"]
  IN
  /\ pc[c] = "locate"
  /\ \/ t \in ToSet(memo[p]) /\ found("new") /\ UNCHANGED memo
     \/ t \notin ToSet(memo[p]) /\ Indexed("new", t) /\ found("new") /\ Remember(p, t)
     \/ /\ t \notin ToSet(memo[p]) /\ ~Indexed("new", t)
        /\ IF Present(Under("old", t)) THEN found("old") ELSE Reply(c, "not_found")
        /\ UNCHANGED memo
  /\ UNCHANGED <<clock, keyVars, callerVars, historyVars>>

Mutant_Finish(c) ==
  LET t == call[c].ticket
      l == call[c].at
  IN
  /\ pc[c] = "act" /\ call[c].op = "finish"
  /\ WriteKey(l, t, Finished(records[l][t], call[c].ending))
  /\ Reply(c, call[c].ending)
  /\ UNCHANGED <<clock, index, memo, callerVars, historyVars>>
Finish(c) ==
  LET t == call[c].ticket
      l == call[c].at
  IN
  /\ pc[c] = "act" /\ call[c].op = "finish"
  /\ IF Present(Under(l, t))
       THEN WriteKey(l, t, Finished(records[l][t], call[c].ending)) /\ Reply(c, call[c].ending)
       ELSE UNCHANGED <<records, deadline>> /\ Reply(c, "not_found")
  /\ UNCHANGED <<clock, index, memo, callerVars, historyVars>>

ClaimScript(rec) ==
  CASE ~Present(rec) -> "not_found"
    [] rec.status = "claimed" -> "already_claimed"
    [] rec.status = "completed" -> "claimed"
    [] OTHER -> "not_completed"

Claim(c) ==
  LET t == call[c].ticket
      l == call[c].at
      result == ClaimScript(Under(l, t))
  IN
  /\ pc[c] = "act" /\ call[c].op = "claim"
  /\ IF result = "claimed"
       THEN /\ WriteKey(l, t, Claimed(records[l][t]))
            /\ took' = [took EXCEPT ![t] = @ \cup {c}]
       ELSE UNCHANGED <<records, deadline, took>>
  /\ Reply(c, result)
  /\ UNCHANGED <<clock, index, memo, callerVars, born, won>>

----------------------------------------------------------------------------
(* An id taken out of the memo.                                            *)
Forgotten(ids, t) ==
  IF t \in ToSet(ids) THEN RemoveAt(ids, CHOOSE i \in DOMAIN ids : ids[i] = t) ELSE ids

(* sweep, for one key: look, then forget the id and delete the record and  *)
(* its index, of which either deletion can fail alone.                     *)
Sweep(c) ==
  LET k == call[c]
      rec == Under(k.at, k.ticket)
  IN
  /\ pc[c] = "look"
  /\ IF Present(rec) /\ rec.retentionUntil <= k.now
       THEN /\ Goes(c, "delete")
            /\ memo' = IF k.at = "new" THEN [memo EXCEPT ![c[1]] = Forgotten(@, k.ticket)] ELSE memo
       ELSE Reply(c, "swept") /\ UNCHANGED memo
  /\ UNCHANGED <<clock, keyVars, callerVars, historyVars>>
SweepRecord(c) ==
  /\ pc[c] = "delete"
  /\ Goes(c, "unindex")
  /\ \/ deadline' = [deadline EXCEPT ![call[c].at][call[c].ticket] = 0]
     \/ UNCHANGED deadline
  /\ UNCHANGED <<clock, records, index, memo, callerVars, historyVars>>
SweepIndex(c) ==
  LET k == call[c] IN
  /\ pc[c] = "unindex"
  /\ \/ index' = [index EXCEPT ![k.at][k.ticket] = 0]
     \/ UNCHANGED index
  /\ Reply(c, "swept")
  /\ UNCHANGED <<clock, records, deadline, memo, callerVars, historyVars>>

----------------------------------------------------------------------------
(* A round trip fails and does nothing.                                    *)
Raises(c) ==
  /\ pc[c] # "idle"
  /\ Ends(c, "raised")
  /\ UNCHANGED <<clock, keyVars, memo, callerVars, historyVars>>

(* A process starts anew: without its memo, its calls and its uploads.     *)
Busy(c) == pc[c] # "idle"
Crash(p) ==
  /\ \/ memo[p] # <<>>
     \/ \E c \in Callers : c[1] = p /\ Busy(c)
     \/ \E t \in Tickets : <<p, t>> \in uploading
  /\ memo' = [memo EXCEPT ![p] = <<>>]
  /\ pc' = [c \in Callers |-> IF c[1] = p THEN "idle" ELSE pc[c]]
  /\ call' = [c \in Callers |-> IF c[1] = p /\ Busy(c) THEN NoCall ELSE call[c]]
  /\ uploading' = {x \in uploading : x[1] # p}
  /\ UNCHANGED <<clock, keyVars, minted, issued, historyVars>>

Tick ==
  /\ clock < MaxClock
  /\ \A c \in Callers : pc[c] # "idle" => NowOf(c[1]) < call[c].now + CallTime
  /\ clock' = clock + 1
  /\ UNCHANGED <<keyVars, memo, callVars, callerVars, historyVars>>

----------------------------------------------------------------------------
Step(c) ==
  \/ PutRecord(c) \/ PutIndex(c)
  \/ Redeem(c) \/ RedeemOldIndex(c) \/ RedeemOld(c)
  \/ Locate(c) \/ Finish(c) \/ Claim(c)
  \/ Sweep(c) \/ SweepRecord(c) \/ SweepIndex(c)
  \/ Raises(c)

Starts(c) ==
  \/ \E t \in Tickets : BeginPut(c, t) \/ BeginRedeem(c, t) \/ BeginClaim(c, t)
  \/ \E t \in Tickets, ending \in {"completed", "failed"} : BeginFinish(c, t, ending)
  \/ \E l \in Layouts, t \in Tickets : BeginSweep(c, l, t)

(* What the call would answer were it made now and one step long.          *)
Would(c) ==
  LET k == call[c]
      rec == Held(call[c].ticket)
  IN
  CASE k.op = "redeem" -> IF ~Present(rec) THEN "not_found"
                          ELSE IF rec.status # "issued" THEN "already_used"
                          ELSE IF Expired(rec, Judged(c)) THEN "expired"
                          ELSE "redeemed"
    [] k.op = "claim" -> ClaimScript(rec)
    [] k.op = "finish" -> IF Present(rec) THEN k.ending ELSE "not_found"
    [] OTHER -> "none"

(* All the right answers while a call runs, then whether its own was one.  *)
Observe ==
  could' = [c \in Callers |->
              IF pc'[c] = "idle" THEN could[c] \cap {call'[c].answer}
              ELSE (IF pc[c] = "idle" THEN {} ELSE could[c]) \cup {Would(c)'}]

Next ==
  /\ \/ \E c \in Callers : Starts(c) \/ Step(c)
     \/ \E p \in Processes : Crash(p) \/ \E t \in Tickets : Lookup(p, t)
     \/ Tick
  /\ Observe

Spec == Init /\ [][Next]_vars
==============================================================================
