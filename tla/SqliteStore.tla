----------------------------- MODULE SqliteStore -----------------------------
(***************************************************************************)
(* The ticket store in a database file (store.py, SqliteStore), shared by  *)
(* processes on one host.  A call runs on a thread of its process's pool   *)
(* and is one to three SQL statements, each atomic and committed at once;  *)
(* calls of other threads and processes come between two statements.       *)
(* Writes of one process also queue for a lock, which put keeps over all   *)
(* its statements.  close() ends a process's pool and its connections; a   *)
(* call made meanwhile or later starts another.                            *)
(*                                                                         *)
(* `store` is the table.  The operators of MemoryStore say what a store    *)
(* whose calls are one step would answer.                                  *)
(***************************************************************************)
EXTENDS MemoryStore

CONSTANTS
  NoTicket,   \* the ticket of a call that is about none
  Processes,  \* the processes sharing the file
  Threads,    \* threads: the size of each one's pool
  Closes,     \* bound: the processes that close their store
  Crashes,    \* bound: the processes that die
  Ttl,        \* ttl of a ticket
  Retention,  \* retention of a record
  CallTime,   \* the longest a call takes, with its waits of at most `timeout` for the file
  MaxClock    \* bound: the clock stops at this tick

ASSUME SqliteAssumption ==
  /\ NoTicket \notin Tickets
  /\ Threads \in Nat \ {0}
  /\ Closes \cup Crashes \subseteq Processes
  /\ {Ttl, Retention, CallTime, MaxClock} \subseteq Nat
  /\ Ttl <= Retention

VARIABLES
  clock,      \* the wall clock, which callers read before they call
  count,      \* ticket_count.n, kept by triggers
  lock,       \* process -> the thread holding its write lock, or Free
  pc,         \* thread -> the next statement of its call, or idle
  call,       \* thread -> its call: what the caller passed, and rowcount = 1
  closing,    \* the processes in close(), waiting for calls
  awaited,    \* the threads of ended pools whose calls close() waits for
  opened,     \* the threads of the pools started meanwhile, with their connections
  cut,        \* the threads whose connection close() closed
  minted,     \* the ids put was called for
  issued,     \* those it stored, which callers can know
  uploading,  \* <<process, ticket>>: redeemed there, finish still to come
  won,        \* history: ticket -> the threads whose UPDATE redeemed it
  took,       \* history: ticket -> the threads whose UPDATE claimed it
  could,      \* history: thread -> the answers a one-step store would have given so far
  told        \* history: the call answered by the last step, its answer and those it could have had

callVars == <<pc, call>>
poolVars == <<closing, awaited, opened, cut>>
callerVars == <<minted, issued, uploading>>
historyVars == <<won, took>>
vars == <<store, clock, count, lock, callVars, poolVars, callerVars, historyVars, could, told>>

Callers == Processes \X (1..Threads)
Free == <<>>
Ops == {"none", "put", "redeem", "finish", "claim", "sweep"}
Answers == {"stored", "full", "redeemed", "not_found", "already_used", "expired",
            "completed", "failed", "claimed", "already_claimed", "not_completed",
            "swept", "raised"}

Call == [op : Ops, ticket : Tickets \cup {NoTicket}, now : 0..MaxClock, ending : {"completed", "failed"},
         rowcount : BOOLEAN]

NoCall == [op |-> "none", ticket |-> NoTicket, now |-> 0, ending |-> "failed",
           rowcount |-> FALSE]

Told == [caller : Callers, call : Call, answer : Answers, could : SUBSET Answers]

SqliteTypeOK ==
  /\ StoreTypeOK
  /\ clock \in 0..MaxClock
  /\ count \in 0..MaxRecords
  /\ lock \in [Processes -> Callers \cup {Free}]
  /\ pc \in [Callers -> {"idle", "insert", "purge", "reinsert", "update", "select", "delete"}]
  /\ call \in [Callers -> Call]
  /\ closing \subseteq Closes
  /\ {awaited, opened, cut} \subseteq SUBSET Callers
  /\ minted \subseteq Tickets
  /\ issued \subseteq minted
  /\ uploading \subseteq Processes \X Tickets
  /\ won \in [Tickets -> SUBSET Callers]
  /\ took \in [Tickets -> SUBSET Callers]
  /\ could \in [Callers -> SUBSET Answers]
  /\ told \subseteq Told

Init ==
  /\ StoreInit
  /\ clock = 0
  /\ count = 0
  /\ lock = [p \in Processes |-> Free]
  /\ pc = [c \in Callers |-> "idle"]
  /\ call = [c \in Callers |-> NoCall]
  /\ closing = {}
  /\ awaited = {}
  /\ opened = {}
  /\ cut = {}
  /\ minted = {}
  /\ issued = {}
  /\ uploading = {}
  /\ won = [t \in Tickets |-> {}]
  /\ took = [t \in Tickets |-> {}]
  /\ could = [c \in Callers |-> {}]
  /\ told = {}

----------------------------------------------------------------------------
(* Calls.  A caller passes the time it read before it called.  A thread    *)
(* opens its connection at its first call.                                 *)

Begin(c, op, t, ending, first) ==
  /\ pc[c] = "idle"
  /\ pc' = [pc EXCEPT ![c] = first]
  /\ call' = [call EXCEPT ![c] = [op |-> op, ticket |-> t, now |-> clock, ending |-> ending,
                                  rowcount |-> FALSE]]
  /\ told' = {}
  /\ opened' = IF c[1] \in closing THEN opened \cup {c} ELSE opened
  /\ UNCHANGED <<store, clock, count, lock, closing, awaited, cut, historyVars>>

BeginPut(c, t) ==
  /\ t \notin minted
  /\ minted' = minted \cup {t}
  /\ Begin(c, "put", t, "failed", "insert")
  /\ UNCHANGED <<issued, uploading>>
BeginRedeem(c, t) ==
  t \in issued /\ Begin(c, "redeem", t, "failed", "update") /\ UNCHANGED callerVars
BeginClaim(c, t) ==
  t \in issued /\ Begin(c, "claim", t, "failed", "update") /\ UNCHANGED callerVars
BeginSweep(c) ==
  Begin(c, "sweep", NoTicket, "failed", "delete") /\ UNCHANGED callerVars

(* The request that redeemed a ticket finishes its record, once.           *)
BeginFinish(c, t, ending) ==
  /\ <<c[1], t>> \in uploading
  /\ Begin(c, "finish", t, ending, "update")
  /\ uploading' = uploading \ {<<c[1], t>>}
  /\ UNCHANGED <<minted, issued>>

At(c, place) == pc[c] = place /\ c \notin cut
Goes(c, place) == pc' = [pc EXCEPT ![c] = place] /\ told' = {}
(* The threads of a pool that close() ended are gone after their calls.    *)
Answer(c, answer) ==
  /\ told' = {[caller |-> c, call |-> call[c], answer |-> answer, could |-> could[c]]}
  /\ call' = [call EXCEPT ![c] = NoCall]
  /\ pc' = [pc EXCEPT ![c] = "idle"]
  /\ awaited' = awaited \ {c}
  /\ cut' = cut \ (awaited \cap {c})
  /\ UNCHANGED <<closing, opened>>

----------------------------------------------------------------------------
(* Statements.  A write of a process waits until its lock is free.         *)

MayWrite(c) == lock[c[1]] \in {Free, c}
Release(c) == lock' = [lock EXCEPT ![c[1]] = Free]

(* The triggers, for n rows at once.                                       *)
CountInserted(n) == count' = count + n
CountDeleted(n) == count' = count - n

(* DELETE ... WHERE retention_until <= ?                                   *)
DeleteDead(now) ==
  /\ store' = [t \in Tickets |-> IF store[t].retentionUntil <= now THEN NoRecord ELSE store[t]]
  /\ CountDeleted(Cardinality(Dead(now)))

(* INSERT ... WHERE the count is below the cap.                            *)
Mutant_InsertRow(t, now) ==
  /\ count <= MaxRecords
  /\ store' = [store EXCEPT ![t] = NewRecord(Nobody, now, Ttl, Retention)]
  /\ CountInserted(1)
InsertRow(t, now) ==
  /\ count < MaxRecords
  /\ store' = [store EXCEPT ![t] = NewRecord(Nobody, now, Ttl, Retention)]
  /\ CountInserted(1)

Inserted(c) ==
  /\ InsertRow(call[c].ticket, call[c].now)
  /\ issued' = issued \cup {call[c].ticket}
  /\ Answer(c, "stored")
  /\ Release(c)

(* put: at the cap, delete dead records and try once more.                 *)
Insert(c) ==
  /\ At(c, "insert")
  /\ MayWrite(c)
  /\ \/ Inserted(c)
     \/ /\ count >= MaxRecords
        /\ lock' = [lock EXCEPT ![c[1]] = c]
        /\ Goes(c, "purge")
        /\ UNCHANGED <<store, count, call, poolVars, issued>>
  /\ UNCHANGED <<clock, minted, uploading, historyVars>>

Purge(c) ==
  /\ At(c, "purge")
  /\ DeleteDead(call[c].now)
  /\ Goes(c, "reinsert")
  /\ UNCHANGED <<clock, lock, call, poolVars, callerVars, historyVars>>

Reinsert(c) ==
  /\ At(c, "reinsert")
  /\ \/ Inserted(c)
     \/ /\ count >= MaxRecords
        /\ Answer(c, "full")
        /\ Release(c)
        /\ UNCHANGED <<store, count, issued>>
  /\ UNCHANGED <<clock, minted, uploading, historyVars>>

(* The WHERE clauses of the conditional UPDATEs.                           *)
Mutant_MayRedeem(t, now) == store[t].status # "absent" /\ store[t].expiresAt > now
MayRedeem(t, now) == store[t].status = "issued" /\ store[t].expiresAt > now
MayClaim(t) == store[t].status = "completed"

Update(c) ==
  LET k == call[c]
      t == call[c].ticket
      hit == CASE k.op = "redeem" -> MayRedeem(t, k.now)
               [] k.op = "finish" -> Present(store[t])
               [] k.op = "claim" -> MayClaim(t)
               [] OTHER -> FALSE
  IN
  /\ At(c, "update")
  /\ MayWrite(c)
  /\ store' = IF ~hit THEN store
              ELSE [store EXCEPT ![t] = CASE k.op = "redeem" -> Redeemed(@, k.now)
                                          [] k.op = "finish" -> Finished(@, k.ending)
                                          [] OTHER -> Claimed(@)]
  /\ call' = [call EXCEPT ![c].rowcount = hit]
  /\ Goes(c, "select")
  /\ won' = IF hit /\ k.op = "redeem" THEN [won EXCEPT ![t] = @ \cup {c}] ELSE won
  /\ took' = IF hit /\ k.op = "claim" THEN [took EXCEPT ![t] = @ \cup {c}] ELSE took
  /\ UNCHANGED <<clock, count, lock, poolVars, callerVars>>

(* What the SELECT after the UPDATE is answered with.  A redemption that   *)
(* won reads a record, and there is none to read if it was swept.          *)
Mutant_RedeemAnswer(k, rec) ==
  IF k.rowcount THEN (IF Present(rec) THEN "redeemed" ELSE "raised")
  ELSE IF ~Present(rec) THEN "not_found" ELSE "already_used"
RedeemAnswer(k, rec) ==
  IF k.rowcount THEN (IF Present(rec) THEN "redeemed" ELSE "raised")
  ELSE IF ~Present(rec) THEN "not_found"
  ELSE IF rec.status # "issued" THEN "already_used"
  ELSE "expired"

FinishAnswer(rec) == IF Present(rec) THEN rec.status ELSE "not_found"

ClaimAnswer(k, rec) ==
  IF ~Present(rec) THEN "not_found"
  ELSE IF k.rowcount THEN "claimed"
  ELSE IF rec.status = "claimed" THEN "already_claimed"
  ELSE "not_completed"

Select(c) ==
  LET k == call[c]
      rec == store[call[c].ticket]
      answer == CASE k.op = "redeem" -> RedeemAnswer(k, rec)
                  [] k.op = "finish" -> FinishAnswer(rec)
                  [] OTHER -> ClaimAnswer(k, rec)
  IN
  /\ At(c, "select")
  /\ Answer(c, answer)
  /\ uploading' = IF answer = "redeemed" THEN uploading \cup {<<c[1], k.ticket>>} ELSE uploading
  /\ UNCHANGED <<store, clock, count, lock, minted, issued, historyVars>>

DeleteSwept(c) ==
  /\ At(c, "delete")
  /\ MayWrite(c)
  /\ DeleteDead(call[c].now)
  /\ Answer(c, "swept")
  /\ UNCHANGED <<clock, lock, callerVars, historyVars>>

(* A statement that finds its connection closed, the database locked for   *)
(* longer than the busy timeout, or the disk full raises and does nothing. *)
Raises(c) ==
  /\ pc[c] # "idle"
  /\ pc[c] = "select" \/ MayWrite(c)
  /\ Answer(c, "raised")
  /\ lock' = IF lock[c[1]] = c THEN [lock EXCEPT ![c[1]] = Free] ELSE lock
  /\ UNCHANGED <<store, clock, count, callerVars, historyVars>>

(* close(): the pool is ended, and with it its idle threads; what runs is  *)
(* waited for.                                                             *)
OfProcess(p) == {c \in Callers : c[1] = p}
Close(p) ==
  /\ p \in Closes \ closing
  /\ closing' = closing \cup {p}
  /\ told' = {}
  /\ awaited' = awaited \cup {c \in OfProcess(p) : pc[c] # "idle"}
  /\ cut' = cut \ {c \in OfProcess(p) : pc[c] = "idle"}
  /\ UNCHANGED <<store, clock, count, lock, callVars, opened, callerVars, historyVars>>

(* Then every connection is closed, those opened since included.           *)
Closed(p) ==
  /\ p \in closing
  /\ OfProcess(p) \cap awaited = {}
  /\ told' = {}
  /\ closing' = closing \ {p}
  /\ cut' = cut \cup (opened \cap OfProcess(p))
  /\ opened' = opened \ OfProcess(p)
  /\ UNCHANGED <<store, clock, count, lock, callVars, awaited, callerVars, historyVars>>

(* A process dies and is started again: its calls and uploads are lost,    *)
(* what was committed stays.                                               *)
Crash(p) ==
  /\ p \in Crashes
  /\ \/ \E c \in Callers : c[1] = p /\ pc[c] # "idle"
     \/ \E t \in Tickets : <<p, t>> \in uploading
  /\ pc' = [c \in Callers |-> IF c[1] = p THEN "idle" ELSE pc[c]]
  /\ call' = [c \in Callers |-> IF c[1] = p THEN NoCall ELSE call[c]]
  /\ told' = {}
  /\ lock' = [lock EXCEPT ![p] = Free]
  /\ closing' = closing \ {p}
  /\ awaited' = awaited \ OfProcess(p)
  /\ opened' = opened \ OfProcess(p)
  /\ cut' = cut \ OfProcess(p)
  /\ uploading' = {x \in uploading : x[1] # p}
  /\ UNCHANGED <<store, clock, count, minted, issued, historyVars>>

Tick ==
  /\ clock < MaxClock
  /\ \A c \in Callers : pc[c] # "idle" => clock < call[c].now + CallTime
  /\ clock' = clock + 1
  /\ told' = {}
  /\ UNCHANGED <<store, count, lock, callVars, poolVars, callerVars, historyVars>>

----------------------------------------------------------------------------
Step(c) ==
  \/ Insert(c) \/ Purge(c) \/ Reinsert(c)
  \/ Update(c) \/ Select(c)
  \/ DeleteSwept(c)
  \/ Raises(c)

Starts(c) ==
  \/ \E t \in Tickets : BeginPut(c, t) \/ BeginRedeem(c, t) \/ BeginClaim(c, t)
  \/ \E t \in Tickets, ending \in {"completed", "failed"} : BeginFinish(c, t, ending)
  \/ BeginSweep(c)

(* What the call would answer were it made now and one step long.          *)
Would(k) ==
  CASE k.op = "put" -> IF HasRoom(Stored \ Dead(k.now)) THEN "stored" ELSE "full"
    [] k.op = "redeem" -> RedeemResult(k.ticket, k.now)
    [] k.op = "claim" -> IF Claimable(k.ticket) THEN "claimed"
                         ELSE IF ~Present(store[k.ticket]) THEN "not_found"
                         ELSE IF store[k.ticket].status = "claimed" THEN "already_claimed"
                         ELSE "not_completed"
    [] OTHER -> "raised"

(* All the right answers while a call runs.                                *)
Observe ==
  could' = [c \in Callers |-> IF pc'[c] = "idle" THEN {} ELSE could[c] \cup {Would(call[c])'}]

Next ==
  /\ \/ \E c \in Callers : Starts(c) \/ Step(c)
     \/ \E p \in Processes : Close(p) \/ Closed(p) \/ Crash(p)
     \/ Tick
  /\ Observe

Spec == Init /\ [][Next]_vars
==============================================================================
