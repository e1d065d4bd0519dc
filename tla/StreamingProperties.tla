------------------------- MODULE StreamingProperties -------------------------
(***************************************************************************)
(* What makes the forwarding of one upload correct.                        *)
(***************************************************************************)
EXTENDS Streaming

(* The server holds at most queue_size chunks and the one being put:       *)
(* `queue.put` is the backpressure _FileTarget's docstring describes.      *)
Backpressure == taken - Len(got) <= QueueSize + 1

(* No request is opened and no sink called for a body that failed before a *)
(* usable file part appeared: "the destination never sees a phantom        *)
(* upload" (_forward).                                                     *)
NoPhantomUpload == handler \in {"sending", "stopping"} => named

(* A reader waiting on the queue of a pump that is over has something to   *)
(* be woken by.  The abort may be dropped when the queue is full, and a    *)
(* full queue has no waiting reader (the `finally` of _pump).              *)
NoLostWakeup == handler = "sending" /\ reader = "waiting" /\ Over => queue # <<>>

(* Once the handler answered, nothing reads the client's body any more,    *)
(* nothing waits to put, and the watchdog can no longer change the error.  *)
PumpJoined == handler = "ended" => Over

(* An upload is recorded as completed only when the whole request parsed   *)
(* and matched the declared size and digest, whatever the destination      *)
(* said, and no limit cut it off.                                          *)
CompletedIsValid == verdict = "completed" => verified /\ error = "none"

(* An upload to a sink is recorded as completed only when the sink read    *)
(* all of it, the end included: `stream.ended` in _to_sink.                *)
CompletedIsWhole ==
  kind = "sink" /\ verdict = "completed" => ended /\ got = [i \in 1..taken |-> i]

(* A sink that raises or returns after the upload failed is reporting the  *)
(* upload's own failure (_to_sink), so that is what the record says.       *)
SinkKeepsCause ==
  kind = "sink" /\ handler \in {"closing", "ended"} /\ error # "none"
    => verdict \in {error, "raised"}

(* An upload to a backend is recorded as completed only when the backend   *)
(* accepted it.  A backend that accepts early is found out by a pump that  *)
(* still reads (_stop_reading in _to_http); if the pump is over, what the  *)
(* queue holds may never have been read, which is fewer than queue_size    *)
(* chunks, as the end stands behind them.                                  *)
CompletedIsAccepted ==
  kind = "http" /\ verdict = "completed" => reply = "accepted" /\ taken - Len(got) < QueueSize

(* The queue between client and destination: it bounds what is held, and   *)
(* its reader always hears of the end.                                     *)
QueueIsSound == Backpressure /\ NoLostWakeup

(* How an upload may begin and end at the destination and for the client.  *)
BeginsAndEndsWell == NoPhantomUpload /\ PumpJoined /\ CompletedIsValid

(* What is recorded of an upload is what happened to it at its destination.*)
JudgedRight == CompletedIsWhole /\ SinkKeepsCause /\ CompletedIsAccepted

(* Every upload whose ticket was spent reaches `finish`: _forward returns  *)
(* a status and never raises, so "`on_complete` is awaited with the final  *)
(* record of every redeemed upload, completed or failed"                   *)
(* (guide/usage.md).                                                  *)
EveryUploadRecorded == verdict # "raised"

(* Whatever client and destination do, the client's body is let go: it is  *)
(* read to its end, refused, or stopped by the watchdog.  And the handler  *)
(* ends and gives its slot back, unless it reads a backend's response for  *)
(* ever, which no timeout bounds; a stuck sink is stopped by dest.timeout. *)
UploadEnds ==
  /\ <>[]Over
  /\ <>[](handler = "ended" \/ reader = "answering")

----------------------------------------------------------------------------
(* The pipe as its reader sees it.  state.error outranks `ended`: a stream *)
(* that ended whole must never be broken afterwards.                       *)
Contract == INSTANCE StreamContract WITH
  sent <- taken,
  delivered <- got,
  pipe <- IF error # "none" THEN "broken"
          ELSE IF ended THEN "whole"
          ELSE IF verified THEN "checked" ELSE "open"

(* The destination reads the client's chunks in order and once each, an    *)
(* end only after all of them and only when the request validated, and     *)
(* nothing after a failure, "even if valid chunks are still queued"        *)
(* (_Stream).                                                              *)
ImplementsPipe == Contract!PipeSpec
==============================================================================
