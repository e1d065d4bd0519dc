------------------------------- MODULE Intake -------------------------------
(***************************************************************************)
(* The pump and the watchdog of one upload (gateway.py: _pump, _Meter,     *)
(* _watch), with the body's bytes and the time they take.  The client      *)
(* sends its bytes in reads cut anywhere and at any pace; the queue, when  *)
(* full, makes the pump wait on the backend.  Time is counted in the       *)
(* watchdog's ticks.  What the handler makes of the chunks is in Streaming.*)
(***************************************************************************)
EXTENDS FilePart

CONSTANTS
  Uploads,        \* the uploads considered: FilePart's records with bytes,
                  \* stall (stall_timeout) and limit (upload_timeout), or None
  StallMinBytes,  \* stall_min_bytes
  MaxClock        \* bound on time

ASSUME IntakeAssumption ==
  /\ StallMinBytes \in Nat \ {0} /\ MaxClock \in Nat
  /\ \A u \in Uploads :
       /\ u.bytes \in Seq(STRING)
       /\ u.raw \in BOOLEAN
       /\ {u.stall, u.limit} \subseteq {None} \cup (Nat \ {0})
       /\ {u.maxSize, u.expectedSize} \subseteq {None} \cup Nat
       /\ u.expectedSize # None /\ u.maxSize # None => u.expectedSize <= u.maxSize

VARIABLES
  up,      \* the upload
  unread,  \* the bytes the client has yet to send
  body,    \* the body so far
  pump,    \* waiting (on the client), putting (on the queue), over, cancelled
  result,  \* how it ended: complete, or an error code
  now,
  meter,   \* waiting_since, waited, window_bytes
  due,     \* when the watchdog looks next
  paid     \* history: the bytes read by each tick of those spent waiting on the client

vars == <<up, unread, body, pump, result, now, meter, due, paid>>

Init ==
  /\ up \in Uploads
  /\ unread = up.bytes
  /\ body = NewBody
  /\ pump = "waiting"
  /\ result = "none"
  /\ now = 0
  /\ meter = [since |-> 0, waited |-> 0, window |-> 0]
  /\ due = 1
  /\ paid = <<0>>

Timed == {up.stall, up.limit} # {None}

Pumping == pump \in {"waiting", "putting"}

(* The watchdog's task runs before time passes on.                         *)
Awake == now = due

(* The pump ends on its own, or the watchdog cancels it.                   *)
End(r) == pump' = "over" /\ result' = r
Cancel(r) == pump' = "cancelled" /\ result' = r

(* The meter when a read of n bytes returns.                               *)
Mutant_Metered(n) ==
  LET full == meter.window + n >= StallMinBytes
  IN [since |-> now, waited |-> IF full THEN 0 ELSE meter.waited + now - meter.since,
      window |-> IF full THEN 0 ELSE meter.window + n]
Metered(n) ==
  LET full == meter.window + n >= StallMinBytes
  IN [since |-> None, waited |-> IF full THEN 0 ELSE meter.waited + now - meter.since,
      window |-> IF full THEN 0 ELSE meter.window + n]

(* A read returns and is fed on; putting what it held may have to wait.    *)
Read(n) ==
  LET chunk == SubSeq(unread, 1, n)
      b == IF up.raw THEN RawFeed(up, body, chunk) ELSE FormFeed(up, body, chunk)
      done == FinalError(up, b)
  IN /\ pump = "waiting"
     /\ n \in 1..Len(unread)
     /\ unread' = From(unread, n + 1)
     /\ body' = b
     /\ paid' = [paid EXCEPT ![Len(paid)] = @ + n]
     /\ IF b.error # "none" \/ b.enough
          THEN End(IF done = "none" THEN "complete" ELSE done) /\ meter' = Metered(n)
          ELSE /\ UNCHANGED result
               /\ \/ pump' = "waiting" /\ meter' = [Metered(n) EXCEPT !.since = now]
                  \/ Timed /\ b.stored # body.stored /\ pump' = "putting" /\ meter' = Metered(n)
     /\ UNCHANGED <<up, now, due>>

(* The body is over: it has to have been whole, and what was declared.     *)
BodyOver ==
  LET done == FinalError(up, body) IN
  /\ pump = "waiting"
  /\ unread = <<>>
  /\ End(IF done = "none" THEN "complete" ELSE done)
  /\ meter' = [meter EXCEPT !.since = None]
  /\ UNCHANGED <<up, unread, body, now, due, paid>>

Disconnect ==
  /\ pump = "waiting"
  /\ unread # <<>>
  /\ End("client_disconnected")
  /\ meter' = [meter EXCEPT !.since = None]
  /\ UNCHANGED <<up, unread, body, now, due, paid>>

(* The queue has room again.                                               *)
PutDone ==
  /\ pump = "putting"
  /\ pump' = "waiting"
  /\ meter' = [meter EXCEPT !.since = now]
  /\ UNCHANGED <<up, unread, body, result, now, due, paid>>

(* _watch after its sleep.                                                 *)
Waited == meter.waited + (IF meter.since = None THEN 0 ELSE now - meter.since)

Watch ==
  /\ Awake
  /\ Pumping
  /\ due' = due + 1
  /\ IF up.limit # None /\ now >= up.limit THEN Cancel("upload_timeout")
     ELSE IF up.stall # None /\ Waited >= up.stall THEN Cancel("too_slow")
     ELSE UNCHANGED <<pump, result>>
  /\ UNCHANGED <<up, unread, body, now, meter, paid>>

Tick ==
  /\ Timed
  /\ Pumping
  /\ ~Awake
  /\ now < MaxClock
  /\ now' = now + 1
  /\ paid' = IF pump = "waiting" THEN Append(paid, Last(paid)) ELSE paid
  /\ UNCHANGED <<up, unread, body, pump, result, meter, due>>

Next == \/ \E n \in 1..Len(unread) : Read(n)
        \/ BodyOver
        \/ Disconnect
        \/ PutDone
        \/ Watch
        \/ Tick

Spec == Init /\ [][Next]_vars
=============================================================================
