------------------------------ MODULE Streaming ------------------------------
(***************************************************************************)
(* One upload on its way through _forward (gateway.py).  Three coroutines  *)
(* share a queue: the pump reads and checks the client's body, the         *)
(* watchdog cancels the pump of a client that takes too long, and the      *)
(* handler hands the file to the destination, an HTTP backend or a sink.   *)
(* The destination reads from within the handler, so the two never run at  *)
(* once.  One action is what a coroutine does between two awaits.          *)
(*                                                                         *)
(* Chunks are numbered from 1 in the order the client sends them.          *)
(***************************************************************************)
EXTENDS Integers, Sequences

CONSTANTS
  Kinds,      \* the destinations considered: {"http", "sink"} or one of them
  QueueSize,  \* queue_size
  MaxChunks   \* bound: the chunks a client sends at most

ASSUME StreamingAssumption ==
  /\ Kinds \subseteq {"http", "sink"}
  /\ QueueSize \in Nat \ {0}
  /\ MaxChunks \in Nat

VARIABLES
  kind,       \* what the destination is
  pump,       \* reading, putting (a chunk), ending (putting the end), done, cancelled
  cancelling, \* pump.cancel() was called
  queue,      \* the forwarding queue
  taken,      \* chunks read from the client; the last is the one being put
  named,      \* target.filename is set: a usable file part was seen
  begun,      \* the event state.started
  verified,   \* history: the whole request parsed and target.verify() passed
  error,      \* state.error
  handler,    \* where _forward is
  reader,     \* the destination: busy with its own work, waiting in stream.read, or
              \* answering: httpx reads the response
  ended,      \* stream.ended
  got,        \* the chunks the destination read
  reply,      \* how the destination ended
  verdict     \* completed, an error code, or raised: an exception nobody catches

clientVars == <<taken, named, verified>>
handlerVars == <<handler, reply, verdict>>
readerVars == <<reader, ended, got>>
vars == <<kind, pump, cancelling, queue, clientVars, begun, error, handlerVars, readerVars>>

(* The two sentinels of the queue, which chunk numbers are never.          *)
Done == 0
Abort == -1

Over == pump \in {"done", "cancelled"}
HasSpace == Len(queue) < QueueSize

Failures == {"client", "watchdog", "closed_early", "rejected", "unreachable", "sink_failed"}

StreamingTypeOK ==
  /\ kind \in Kinds
  /\ pump \in {"reading", "putting", "ending", "done", "cancelled"}
  /\ cancelling \in BOOLEAN /\ named \in BOOLEAN /\ begun \in BOOLEAN
  /\ verified \in BOOLEAN /\ ended \in BOOLEAN
  /\ queue \in Seq({Done, Abort} \cup 1..taken)
  /\ Len(queue) <= QueueSize
  /\ taken \in 0..MaxChunks
  /\ error \in {"none", "client", "watchdog"}
  /\ handler \in {"starting", "joining", "sending", "stopping", "closing", "ended"}
  /\ reader \in {"busy", "waiting", "answering"}
  /\ got \in Seq(1..taken)
  /\ reply \in {"none", "accepted", "refused", "returned"}
  /\ verdict \in {"none", "completed", "raised"} \cup Failures

Init ==
  /\ kind \in Kinds
  /\ pump = "reading"
  /\ cancelling = FALSE
  /\ queue = <<>>
  /\ taken = 0
  /\ named = FALSE
  /\ begun = FALSE
  /\ verified = FALSE
  /\ error = "none"
  /\ handler = "starting"
  /\ reader = "busy"
  /\ ended = FALSE
  /\ got = <<>>
  /\ reply = "none"
  /\ verdict = "none"

----------------------------------------------------------------------------
(* The pump.  A failure ends it in the same step: its `finally` puts the   *)
(* abort without waiting, and lets it go if the queue is full.             *)

Mutant_Signalled(q) == q
Signalled(q) == IF Len(q) < QueueSize THEN Append(q, Abort) ELSE q

Reading == pump = "reading" /\ ~cancelling

(* A chunk that passes the limits is put; a full queue makes the pump wait *)
(* and with it the client.                                                 *)
TakeChunk ==
  /\ Reading
  /\ taken < MaxChunks
  /\ taken' = taken + 1
  /\ IF HasSpace
       THEN queue' = Append(queue, taken + 1) /\ UNCHANGED pump
       ELSE pump' = "putting" /\ UNCHANGED queue
  /\ named' = TRUE
  /\ begun' = TRUE
  /\ UNCHANGED <<kind, cancelling, verified, error, handlerVars, readerVars>>

(* A limit exceeded, a body refused, a mismatch or a client gone.  What is *)
(* wrong may show before or after the file part got its name.              *)
BodyFails ==
  /\ Reading
  /\ pump' = "done"
  /\ error' = "client"
  /\ queue' = Signalled(queue)
  /\ begun' = TRUE
  /\ named' \in {named, TRUE}
  /\ UNCHANGED <<kind, cancelling, taken, verified, handlerVars, readerVars>>

(* The body is over and body.end() and target.verify() passed.             *)
Mutant_BodyEnds ==
  /\ Reading
  /\ verified' \in BOOLEAN
  /\ named' = TRUE
  /\ begun' = TRUE
  /\ IF HasSpace
       THEN pump' = "done" /\ queue' = Append(queue, Done)
       ELSE pump' = "ending" /\ UNCHANGED queue
  /\ UNCHANGED <<kind, cancelling, taken, error, handlerVars, readerVars>>
BodyEnds ==
  /\ Reading
  /\ verified' = TRUE
  /\ named' = TRUE
  /\ begun' = TRUE
  /\ IF HasSpace
       THEN pump' = "done" /\ queue' = Append(queue, Done)
       ELSE pump' = "ending" /\ UNCHANGED queue
  /\ UNCHANGED <<kind, cancelling, taken, error, handlerVars, readerVars>>

(* A put that had to wait goes through.                                    *)
PumpResumes ==
  /\ ~cancelling
  /\ HasSpace
  /\ \/ /\ pump = "putting"
        /\ queue' = Append(queue, taken)
        /\ pump' = "reading"
     \/ /\ pump = "ending"
        /\ queue' = Append(queue, Done)
        /\ pump' = "done"
  /\ UNCHANGED <<kind, cancelling, clientVars, begun, error, handlerVars, readerVars>>

(* The cancellation reaches the pump, whatever it awaits.                  *)
PumpCancelled ==
  /\ cancelling
  /\ ~Over
  /\ pump' = "cancelled"
  /\ IF error # "none"
       THEN queue' = Signalled(queue) /\ begun' = TRUE
       ELSE UNCHANGED <<queue, begun>>
  /\ UNCHANGED <<kind, cancelling, clientVars, error, handlerVars, readerVars>>

(* _watch, with a limit passed.  It fires once, and the handler's `finally`*)
(* cancels it.                                                             *)
WatchdogFires ==
  /\ handler \notin {"closing", "ended"}
  /\ ~Over
  /\ error = "none"
  /\ error' = "watchdog"
  /\ cancelling' = TRUE
  /\ UNCHANGED <<kind, pump, queue, clientVars, begun, handlerVars, readerVars>>

----------------------------------------------------------------------------
(* The handler, up to the destination.                                     *)

(* Leaving the `try`: the `finally` cancels a pump that still runs.        *)
Leave(v) ==
  /\ verdict' = v
  /\ handler' = IF Over THEN "ended" ELSE "closing"
  /\ cancelling' = (cancelling \/ ~Over)

HandlerStarts ==
  /\ handler = "starting"
  /\ begun \/ Over
  /\ IF error = "none" /\ named
       THEN handler' = "sending" /\ UNCHANGED <<verdict, cancelling>>
     ELSE IF Over
       THEN Leave(error)
     ELSE handler' = "joining" /\ UNCHANGED <<verdict, cancelling>>
  /\ UNCHANGED <<kind, pump, queue, clientVars, begun, error, reply, readerVars>>

(* `await pump` in the branch for a body without a usable file: it returns *)
(* unless the pump was cancelled, whose CancelledError is no UploadError.  *)
HandlerJoins ==
  /\ handler = "joining"
  /\ Over
  /\ Leave(IF pump = "cancelled" THEN "raised" ELSE error)
  /\ UNCHANGED <<kind, pump, queue, clientVars, begun, error, reply, readerVars>>

(* The destination is through.  _stop_reading collects a finished pump or  *)
(* cancels one that still reads, and waits for it.                         *)
OwnError(otherwise) == IF error # "none" THEN error ELSE otherwise

HttpVerdict(answered, stopped) ==
  IF stopped /\ answered = "accepted" THEN "closed_early"
  ELSE OwnError(IF answered = "refused" THEN "rejected" ELSE "completed")

Mutant_SinkVerdict(stopped) == OwnError(IF stopped THEN "closed_early" ELSE "completed")
SinkVerdict(stopped) == OwnError(IF stopped \/ ~ended THEN "closed_early" ELSE "completed")

VerdictOn(how, stopped) == IF kind = "http" THEN HttpVerdict(how, stopped) ELSE SinkVerdict(stopped)

Answered(how) ==
  /\ handler = "sending"
  /\ reply' = how
  /\ IF Over
       THEN Leave(VerdictOn(how, FALSE))
       ELSE handler' = "stopping" /\ cancelling' = TRUE /\ UNCHANGED verdict
  /\ UNCHANGED <<kind, pump, queue, clientVars, begun, error, readerVars>>

Stopped ==
  /\ handler = "stopping"
  /\ Over
  /\ Leave(VerdictOn(reply, TRUE))
  /\ UNCHANGED <<kind, pump, queue, clientVars, begun, error, reply, readerVars>>

Gone ==
  /\ handler = "closing"
  /\ Over
  /\ handler' = "ended"
  /\ UNCHANGED <<kind, pump, cancelling, queue, clientVars, begun, error, reply, verdict, readerVars>>

----------------------------------------------------------------------------
(* Reading the stream.  The UploadError a read raises ends a request to a  *)
(* backend; a sink gets UploadAborted and goes on as it likes.             *)

ReadRaises(q) ==
  /\ queue' = q
  /\ reader' = "busy"
  /\ IF kind = "http" THEN Leave(error) ELSE UNCHANGED <<handler, verdict, cancelling>>
  /\ UNCHANGED <<ended, got>>

Receive ==
  /\ queue' = Tail(queue)
  /\ reader' = "busy"
  /\ IF Head(queue) = Done
       THEN ended' = TRUE /\ UNCHANGED got
       ELSE got' = Append(got, Head(queue)) /\ UNCHANGED ended
  /\ UNCHANGED <<handler, verdict, cancelling>>

(* A read that need not wait, or starts to.                                *)
Read ==
  /\ handler = "sending"
  /\ reader = "busy"
  /\ ~ended
  /\ \/ error # "none" /\ ReadRaises(queue)
     \/ error = "none" /\ queue # <<>> /\ Receive
     \/ /\ error = "none"
        /\ queue = <<>>
        /\ reader' = "waiting"
        /\ UNCHANGED <<queue, ended, got, handler, verdict, cancelling>>
  /\ UNCHANGED <<kind, pump, clientVars, begun, error, reply>>

(* A read that waited is resumed, some time after the item was put.        *)
Mutant_Wake ==
  /\ handler = "sending"
  /\ reader = "waiting"
  /\ queue # <<>>
  /\ IF Head(queue) = Abort THEN ReadRaises(Tail(queue)) ELSE Receive
  /\ UNCHANGED <<kind, pump, clientVars, begun, error, reply>>
Wake ==
  /\ handler = "sending"
  /\ reader = "waiting"
  /\ queue # <<>>
  /\ IF Head(queue) = Abort \/ error # "none" THEN ReadRaises(Tail(queue)) ELSE Receive
  /\ UNCHANGED <<kind, pump, clientVars, begun, error, reply>>

----------------------------------------------------------------------------
(* The destination.                                                        *)

(* httpx sends the body, then reads the response; when the backend closed  *)
(* its side, a write fails and httpx reads the response early.             *)
ResponseStarts ==
  /\ kind = "http"
  /\ handler = "sending"
  /\ reader = "busy"
  /\ reader' = "answering"
  /\ UNCHANGED <<kind, pump, cancelling, queue, clientVars, begun, error, handlerVars, ended, got>>

BackendAnswers == /\ kind = "http"
                  /\ reader = "answering"
                  /\ \E how \in {"accepted", "refused"} : Answered(how)

(* Any httpx.HTTPError: no connection, a broken one, a timeout.            *)
BackendFails ==
  /\ kind = "http"
  /\ handler = "sending"
  /\ reader # "waiting"
  /\ Leave("unreachable")
  /\ UNCHANGED <<kind, pump, queue, clientVars, begun, error, reply, readerVars>>

(* The sink returns, at the end of the file or whenever it likes.          *)
SinkReturns == kind = "sink" /\ Answered("returned")

SinkFails ==
  /\ kind = "sink"
  /\ handler = "sending"
  /\ Leave(OwnError("sink_failed"))
  /\ UNCHANGED <<kind, pump, queue, clientVars, begun, error, reply, readerVars>>

(* dest.timeout after the end of the pump, however that came.              *)
SinkTimeout == Over /\ SinkFails

----------------------------------------------------------------------------
Pump == TakeChunk \/ BodyFails \/ BodyEnds \/ PumpResumes \/ PumpCancelled
Handler == HandlerStarts \/ HandlerJoins \/ Stopped \/ Gone
Backend == ResponseStarts \/ BackendAnswers \/ BackendFails
Sink == SinkReturns \/ SinkFails

Next == Pump \/ WatchdogFires \/ Handler \/ Read \/ Wake \/ Backend \/ Sink

Spec == Init /\ [][Next]_vars

(* The event loop resumes what can run; upload_timeout is set, so a pump   *)
(* that is not over is stopped some day; dest.timeout bounds the connect   *)
(* and every write to a backend, and a sink once the pump is over.  It     *)
(* bounds each read of a response, not the response: a backend may send it *)
(* bit by bit for ever, as a client may stall, and a sink do nothing,      *)
(* while the body is not over.                                             *)
Fairness ==
  /\ WF_vars(PumpResumes \/ PumpCancelled)
  /\ WF_vars(WatchdogFires)
  /\ WF_vars(Handler)
  /\ WF_vars(Wake)
  /\ WF_vars(kind = "http" /\ reader = "busy" /\ (Read \/ ResponseStarts \/ BackendFails))
  /\ WF_vars(SinkTimeout)

FairSpec == Spec /\ Fairness
==============================================================================
