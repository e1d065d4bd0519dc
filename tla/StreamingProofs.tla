--------------------------- MODULE StreamingProofs ---------------------------
(***************************************************************************)
(* Proofs about the forwarding of one upload, for every queue size and     *)
(* file length.  The inductive invariant has three parts: the types; what  *)
(* the coroutines know of each other (Control); and, while the upload is   *)
(* healthy, what is in the queue (Flow).                                   *)
(***************************************************************************)
EXTENDS StreamingProperties, TLAPS

Control ==
  /\ pump = "cancelled" => cancelling
  /\ error # "none" => cancelling \/ Over
  /\ cancelling /\ error = "none" => handler \in {"stopping", "closing", "ended"}
  /\ handler \in {"stopping", "closing"} => cancelling
  /\ handler = "stopping" /\ kind = "http" => reply \in {"accepted", "refused"}
  /\ verdict # "none" => handler \in {"closing", "ended"}
  /\ pump \in {"reading", "putting"} => ~verified
  /\ pump = "ending" => verified
  /\ pump = "done" /\ error = "none" => verified
  /\ ended => pump = "done" /\ error = "none"
  /\ handler \in {"starting", "joining"} => reader = "busy"
  /\ reader = "waiting" => ~ended

(* 1 when the end of the file is in the queue, when the pump holds a chunk *)
EndQueued == IF pump = "done" /\ ~ended THEN 1 ELSE 0
ChunkHeld == IF pump = "putting" THEN 1 ELSE 0

(* Every chunk taken is delivered, queued or held; the queue continues     *)
(* where the destination is; the end is its last item.                     *)
Flow ==
  error = "none" /\ ~cancelling =>
    /\ Len(got) <= taken
    /\ Len(got) + Len(queue) + ChunkHeld = taken + EndQueued
    /\ \A i \in 1..Len(queue) :
         queue[i] = IF EndQueued = 1 /\ i = Len(queue) THEN Done ELSE Len(got) + i

Data == StreamingTypeOK /\ Flow /\ Backpressure /\ NoLostWakeup

Course == Control /\ NoPhantomUpload /\ PumpJoined /\ CompletedIsValid

IInv == Data /\ Course

Items(n) == {Done, Abort} \cup 1..n

----------------------------------------------------------------------------
(* Sequences.                                                              *)

LEMMA SeqGrows ==
  ASSUME NEW S, NEW T, S \subseteq T, NEW s \in Seq(S)
  PROVE  s \in Seq(T)
OBVIOUS

LEMMA AppendFacts ==
  ASSUME NEW S, NEW s \in Seq(S), NEW e \in S
  PROVE  /\ Append(s, e) \in Seq(S)
         /\ Len(Append(s, e)) = Len(s) + 1
         /\ \A i \in 1..Len(s) : Append(s, e)[i] = s[i]
         /\ Append(s, e)[Len(s) + 1] = e
         /\ Append(s, e) # <<>>
OBVIOUS

LEMMA TailFacts ==
  ASSUME NEW S, NEW s \in Seq(S), s # <<>>
  PROVE  /\ Len(s) \in Nat \ {0}
         /\ Head(s) \in S
         /\ Head(s) = s[1]
         /\ Tail(s) \in Seq(S)
         /\ Len(Tail(s)) = Len(s) - 1
         /\ \A i \in 1..Len(Tail(s)) : Tail(s)[i] = s[i + 1]
OBVIOUS

LEMMA SignalledFacts ==
  ASSUME StreamingTypeOK
  PROVE  /\ Signalled(queue) \in Seq(Items(taken))
         /\ Len(Signalled(queue)) <= QueueSize
         /\ Signalled(queue) # <<>>
<1>1. queue \in Seq(Items(taken)) /\ Abort \in Items(taken) /\ QueueSize \in Nat \ {0}
  BY StreamingAssumption DEF StreamingAssumption, StreamingTypeOK, Items
<1>2. CASE Len(queue) < QueueSize
  <2>1. Signalled(queue) = Append(queue, Abort)
    BY <1>2 DEF Signalled
  <2> QED BY <1>1, <1>2, <2>1, AppendFacts
<1>3. CASE ~(Len(queue) < QueueSize)
  <2>1. Signalled(queue) = queue
    BY <1>3 DEF Signalled
  <2>2. queue # <<>>
    BY <1>1, <1>3
  <2> QED BY <1>1, <2>1, <2>2 DEF StreamingTypeOK
<1> QED BY <1>2, <1>3

----------------------------------------------------------------------------
(* The invariant holds initially.                                          *)

LEMMA IInvInit == Init => IInv
<1> SUFFICES ASSUME Init PROVE IInv
  OBVIOUS
<1> USE DEF Init
<1>1. StreamingTypeOK
  <2>1. <<>> \in Seq({Done, Abort} \cup 1..taken) /\ <<>> \in Seq(1..taken) /\ Len(<<>>) = 0
    OBVIOUS
  <2>2. Len(queue) <= QueueSize /\ taken \in 0..MaxChunks
    BY <2>1, StreamingAssumption DEF StreamingAssumption
  <2> QED BY <2>1, <2>2 DEF StreamingTypeOK
<1>2. Control
  BY DEF Control, Over
<1>3. Flow
  BY DEF Flow, EndQueued, ChunkHeld
<1>4. Backpressure
  BY StreamingAssumption DEF StreamingAssumption, Backpressure
<1>5. NoLostWakeup /\ NoPhantomUpload /\ PumpJoined /\ CompletedIsValid
  BY DEF NoLostWakeup, NoPhantomUpload, PumpJoined, CompletedIsValid
<1> QED BY <1>1, <1>2, <1>3, <1>4, <1>5 DEF IInv, Data, Course

----------------------------------------------------------------------------
(* What the coroutines know of each other is kept by every action.         *)

LEMMA PumpCourse ==
  ASSUME StreamingTypeOK, Course, Pump \/ WatchdogFires
  PROVE  Course'
<1> USE DEF StreamingTypeOK, Course, Control, NoPhantomUpload, PumpJoined, CompletedIsValid,
            Over, Reading, clientVars, handlerVars, readerVars
<1>1. CASE TakeChunk
  BY <1>1 DEF TakeChunk
<1>2. CASE BodyFails
  <2>1. pump' = "done" /\ error' = "client" /\ ~ended
    BY <1>2 DEF BodyFails
  <2>2. named => named'
    <3> HIDE DEF StreamingTypeOK, Course
    <3>1. named' = named \/ named' = TRUE
      BY <1>2 DEF BodyFails
    <3> QED BY <3>1, Zenon
  <2>3. handler \notin {"stopping", "closing", "ended"} /\ verdict = "none"
    BY <1>2 DEF BodyFails
  <2>4. UNCHANGED <<kind, cancelling, taken, verified, handler, reply, verdict, reader, ended>>
    BY <1>2 DEF BodyFails
  <2> QED BY <2>1, <2>2, <2>3, <2>4
<1>3. CASE BodyEnds
  <2>1. verified' /\ named' /\ pump' \in {"done", "ending"} /\ error = "none" /\ ~ended
    BY <1>3 DEF BodyEnds
  <2>2. handler \notin {"stopping", "closing", "ended"} /\ verdict = "none"
    BY <1>3 DEF BodyEnds
  <2>3. UNCHANGED <<kind, cancelling, taken, error, handler, reply, verdict, reader, ended>>
    BY <1>3 DEF BodyEnds
  <2> QED BY <2>1, <2>2, <2>3
<1>4. CASE PumpResumes
  BY <1>4 DEF PumpResumes
<1>5. CASE PumpCancelled
  BY <1>5 DEF PumpCancelled
<1>6. CASE WatchdogFires
  BY <1>6 DEF WatchdogFires
<1> QED BY <1>1, <1>2, <1>3, <1>4, <1>5, <1>6 DEF Pump

LEMMA HandlerCourse ==
  ASSUME StreamingTypeOK, Course, Handler
  PROVE  Course'
<1> USE DEF StreamingTypeOK, Course, Control, NoPhantomUpload, PumpJoined, CompletedIsValid,
            Over, Leave, OwnError, clientVars, handlerVars, readerVars
<1>1. CASE HandlerStarts
  BY <1>1 DEF HandlerStarts
<1>2. CASE HandlerJoins
  BY <1>2 DEF HandlerJoins
<1>3. CASE Stopped
  BY <1>3, StreamingAssumption DEF Stopped, VerdictOn, HttpVerdict, SinkVerdict, StreamingAssumption
<1>4. CASE Gone
  BY <1>4 DEF Gone
<1> QED BY <1>1, <1>2, <1>3, <1>4 DEF Handler

LEMMA DestinationCourse ==
  ASSUME StreamingTypeOK, Course, Backend \/ Sink
  PROVE  Course'
<1> USE DEF StreamingTypeOK, Course, Control, NoPhantomUpload, PumpJoined, CompletedIsValid,
            Over, Leave, OwnError, clientVars, handlerVars, readerVars
<1>1. ASSUME NEW how \in {"accepted", "refused", "returned"},
             kind = "http" => how # "returned", Answered(how)
      PROVE  Course'
  BY <1>1 DEF Answered, VerdictOn, HttpVerdict, SinkVerdict
<1>2. CASE BackendAnswers
  BY <1>1, <1>2 DEF BackendAnswers
<1>3. CASE BackendFails
  BY <1>3 DEF BackendFails
<1>4. CASE SinkReturns
  BY <1>1, <1>4 DEF SinkReturns
<1>5. CASE SinkFails
  BY <1>5 DEF SinkFails
<1>6. CASE ResponseStarts
  BY <1>6 DEF ResponseStarts
<1> QED BY <1>2, <1>3, <1>4, <1>5, <1>6 DEF Backend, Sink

----------------------------------------------------------------------------
(* What is in the queue is kept by every action.                           *)

LEMMA HandlerData ==
  ASSUME Data, Course, Handler \/ Backend \/ Sink
  PROVE  Data'
<1> DEFINE Quiet ==
      /\ UNCHANGED <<kind, pump, queue, taken, named, verified, begun, error, ended, got>>
      /\ reader' \in {reader, "answering"}
      /\ cancelling' \in BOOLEAN
      /\ cancelling => cancelling'
      /\ handler' \in {"starting", "joining", "sending", "stopping", "closing", "ended"}
      /\ reply' \in {"none", "accepted", "refused", "returned"}
      /\ verdict' \in {"none", "completed", "raised"} \cup Failures
      /\ handler' = "sending" => reader' # "waiting"
<1>1. Quiet
  <2> USE DEF Data, Course, StreamingTypeOK, Control, Over, Leave, OwnError, Failures,
              clientVars, handlerVars, readerVars
  <2>1. CASE HandlerStarts
    BY <2>1 DEF HandlerStarts
  <2>2. CASE HandlerJoins
    BY <2>2 DEF HandlerJoins
  <2>3. CASE Stopped
    BY <2>3 DEF Stopped, VerdictOn, HttpVerdict, SinkVerdict
  <2>4. CASE Gone
    BY <2>4 DEF Gone
  <2>5. ASSUME NEW how \in {"accepted", "refused", "returned"}, Answered(how)
        PROVE  Quiet
    BY <2>5 DEF Answered, VerdictOn, HttpVerdict, SinkVerdict
  <2>6. CASE BackendAnswers \/ SinkReturns
    BY <2>5, <2>6 DEF BackendAnswers, SinkReturns
  <2>7. CASE BackendFails \/ SinkFails
    BY <2>7 DEF BackendFails, SinkFails
  <2>8. CASE ResponseStarts
    BY <2>8 DEF ResponseStarts
  <2> QED BY <2>1, <2>2, <2>3, <2>4, <2>6, <2>7, <2>8 DEF Handler, Backend, Sink
<1>2. StreamingTypeOK'
  BY <1>1 DEF Data, StreamingTypeOK
<1>3. Flow'
  BY <1>1 DEF Data, Flow, EndQueued, ChunkHeld
<1>4. Backpressure' /\ NoLostWakeup'
  BY <1>1 DEF Data, Backpressure, NoLostWakeup
<1> QED BY <1>2, <1>3, <1>4 DEF Data

LEMMA FlowAfterPut ==
  ASSUME Data, error = "none", ~cancelling, ~ended, pump # "done",
         NEW e \in Items(taken'), queue \in Seq(Items(taken')), queue' = Append(queue, e),
         UNCHANGED <<got, ended>>, pump' # "putting", taken' \in Nat,
         IF pump' = "done" THEN e = Done ELSE e = Len(got) + Len(queue) + 1,
         Len(got) + Len(queue) + 1 = taken' + EndQueued'
  PROVE  Flow'
<1>1. /\ Len(queue') = Len(queue) + 1
      /\ \A i \in 1..Len(queue) : queue'[i] = queue[i]
      /\ queue'[Len(queue) + 1] = e
  BY AppendFacts
<1>2. Len(queue) \in Nat /\ Len(got) \in Nat
  BY DEF Data, StreamingTypeOK
<1>3. EndQueued' = IF pump' = "done" THEN 1 ELSE 0
  BY DEF EndQueued
<1>4. \A i \in 1..Len(queue) : queue[i] = Len(got) + i
  <2>1. EndQueued = 0
    BY DEF EndQueued
  <2>2. \A i \in 1..Len(queue) :
          queue[i] = IF EndQueued = 1 /\ i = Len(queue) THEN Done ELSE Len(got) + i
    BY DEF Data, Flow
  <2>3. ASSUME NEW i \in 1..Len(queue) PROVE queue[i] = Len(got) + i
    <3>1. queue[i] = IF EndQueued = 1 /\ i = Len(queue) THEN Done ELSE Len(got) + i
      BY <2>2
    <3>2. ~(EndQueued = 1)
      BY <2>1
    <3> QED BY <3>1, <3>2
  <2> QED BY <2>3
<1>5. ASSUME NEW i \in 1..Len(queue')
      PROVE  queue'[i] = IF EndQueued' = 1 /\ i = Len(queue') THEN Done ELSE Len(got) + i
  <2>1. CASE i = Len(queue) + 1
    BY <1>1, <1>2, <1>3, <2>1
  <2>2. CASE i # Len(queue) + 1
    <3>1. i \in 1..Len(queue) /\ i # Len(queue')
      BY <1>1, <1>2, <2>2
    <3> QED BY <1>1, <1>4, <3>1
  <2> QED BY <2>1, <2>2
<1>6. Len(got') + Len(queue') + ChunkHeld' = taken' + EndQueued' /\ Len(got') <= taken'
  BY <1>1, <1>2, <1>3 DEF ChunkHeld
<1> QED BY <1>5, <1>6 DEF Flow

LEMMA PumpData ==
  ASSUME Data, Course, Pump \/ WatchdogFires
  PROVE  Data'
<1> DEFINE Put(e) == queue' = Append(queue, e)
<1>1. /\ queue \in Seq(Items(taken)) /\ Len(queue) \in Nat /\ Len(queue) <= QueueSize
      /\ got \in Seq(1..taken) /\ Len(got) \in Nat /\ taken \in Nat
      /\ QueueSize \in Nat \ {0} /\ MaxChunks \in Nat
      /\ Abort \in Items(taken) /\ Done \in Items(taken)
  BY StreamingAssumption DEF StreamingAssumption, Data, StreamingTypeOK, Items
<1>2. CASE TakeChunk
  <2>1. /\ pump = "reading" /\ ~cancelling /\ error = "none" /\ ~ended
        /\ taken' = taken + 1 /\ taken < MaxChunks
        /\ UNCHANGED <<kind, cancelling, verified, error, handler, reply, verdict, reader, ended, got>>
    BY <1>2 DEF TakeChunk, Reading, Course, Control, Over, handlerVars, readerVars
  <2>2. queue \in Seq(Items(taken + 1)) /\ got \in Seq(1..(taken + 1)) /\ taken + 1 \in Items(taken + 1)
    BY <1>1, SeqGrows, Items(taken) \subseteq Items(taken + 1) DEF Items
  <2>3. Len(got) + Len(queue) = taken
    BY <1>1, <2>1 DEF Data, Flow, EndQueued, ChunkHeld
  <2>4. CASE HasSpace
    <3>1. Put(taken + 1) /\ pump' = "reading"
      BY <1>2, <2>1, <2>4 DEF TakeChunk
    <3>2. /\ queue' \in Seq(Items(taken + 1)) /\ Len(queue') = Len(queue) + 1
          /\ \A i \in 1..Len(queue) : queue'[i] = queue[i]
          /\ queue'[Len(queue) + 1] = taken + 1
      BY <2>2, <3>1, AppendFacts
    <3>3. StreamingTypeOK'
      BY <1>1, <1>2, <2>1, <2>2, <2>4, <3>1, <3>2
      DEF Data, StreamingTypeOK, Items, HasSpace, TakeChunk
    <3>4. Flow'
      <4>1. EndQueued' = 0 /\ pump' # "done" /\ pump' # "putting"
        BY <3>1 DEF EndQueued
      <4>2. queue \in Seq(Items(taken')) /\ taken + 1 \in Items(taken')
        BY <2>1, <2>2
      <4>3. Len(got) + Len(queue) + 1 = taken' + EndQueued' /\ taken + 1 = Len(got) + Len(queue) + 1
        BY <1>1, <2>1, <2>3, <4>1
      <4> QED BY <2>1, <3>1, <4>1, <4>2, <4>3, FlowAfterPut
    <3>5. Backpressure' /\ NoLostWakeup'
      BY <1>1, <2>1, <2>3, <2>4, <3>1 DEF Backpressure, NoLostWakeup, Over, HasSpace
    <3> QED BY <3>3, <3>4, <3>5 DEF Data
  <2>5. CASE ~HasSpace
    <3>1. queue' = queue /\ pump' = "putting"
      BY <1>2, <2>5 DEF TakeChunk
    <3>2. StreamingTypeOK'
      BY <1>1, <1>2, <2>1, <2>2, <3>1 DEF Data, StreamingTypeOK, Items, TakeChunk
    <3>3. Flow'
      BY <1>1, <2>1, <2>3, <3>1 DEF Data, Flow, EndQueued, ChunkHeld
    <3>4. Backpressure' /\ NoLostWakeup'
      BY <1>1, <2>1, <2>3, <3>1 DEF Backpressure, NoLostWakeup, Over
    <3> QED BY <3>2, <3>3, <3>4 DEF Data
  <2> QED BY <2>4, <2>5
<1>3. CASE BodyFails
  <2>1. Signalled(queue) \in Seq(Items(taken)) /\ Len(Signalled(queue)) <= QueueSize
        /\ Signalled(queue) # <<>>
    BY SignalledFacts DEF Data
  <2>2. StreamingTypeOK'
    <3>1. named' \in BOOLEAN
      BY <1>3 DEF BodyFails, Data, StreamingTypeOK
    <3> QED BY <1>3, <2>1, <3>1 DEF BodyFails, Data, StreamingTypeOK, Items, handlerVars, readerVars
  <2>3. Flow'
    BY <1>3 DEF BodyFails, Flow
  <2>4. Backpressure' /\ NoLostWakeup'
    BY <1>3, <2>1 DEF BodyFails, Data, Backpressure, NoLostWakeup, readerVars
  <2> QED BY <2>2, <2>3, <2>4 DEF Data
<1>4. ASSUME pump = "reading" \/ pump = "ending", ~cancelling, ~Over, Len(queue) < QueueSize,
             Put(Done), pump' = "done", verified' \in BOOLEAN, named' \in BOOLEAN, begun' \in BOOLEAN,
             UNCHANGED <<kind, cancelling, taken, error, handler, reply, verdict, reader, ended, got>>
      PROVE  Data'
  <2>1. /\ queue' \in Seq(Items(taken)) /\ Len(queue') = Len(queue) + 1 /\ queue' # <<>>
        /\ \A i \in 1..Len(queue) : queue'[i] = queue[i]
        /\ queue'[Len(queue) + 1] = Done
    BY <1>1, <1>4, AppendFacts
  <2>2. error = "none" /\ ~ended
    BY <1>4 DEF Course, Control, Over
  <2>3. StreamingTypeOK'
    BY <1>1, <1>4, <2>1 DEF Data, StreamingTypeOK, Items
  <2>4. Flow'
    <3>1. EndQueued' = 1 /\ Len(got) + Len(queue) = taken
      <4>1. EndQueued' = 1 /\ EndQueued = 0 /\ ChunkHeld = 0
        BY <1>4, <2>2 DEF EndQueued, ChunkHeld, Over
      <4>2. Len(got) + Len(queue) + ChunkHeld = taken + EndQueued
        BY <1>4, <2>2 DEF Data, Flow
      <4> QED BY <1>1, <4>1, <4>2
    <3>2. queue \in Seq(Items(taken')) /\ Done \in Items(taken')
      BY <1>1, <1>4
    <3>3. Len(got) + Len(queue) + 1 = taken' + EndQueued'
      BY <1>1, <1>4, <3>1
    <3>4. pump # "done" /\ taken' \in Nat
      BY <1>1, <1>4 DEF Over
    <3> QED BY <1>4, <2>2, <3>2, <3>3, <3>4, FlowAfterPut
  <2>5. Backpressure' /\ NoLostWakeup'
    BY <1>4, <2>1 DEF Data, Backpressure, NoLostWakeup
  <2> QED BY <2>3, <2>4, <2>5 DEF Data
<1>5. CASE BodyEnds
  <2>1. CASE HasSpace
    <3>1. verified' \in BOOLEAN /\ named' \in BOOLEAN /\ begun' \in BOOLEAN
      BY <1>5 DEF BodyEnds
    <3>2. Put(Done) /\ pump' = "done" /\ pump = "reading" /\ ~cancelling /\ Len(queue) < QueueSize
      BY <1>5, <2>1 DEF BodyEnds, Reading, HasSpace
    <3>3. UNCHANGED <<kind, cancelling, taken, error, handler, reply, verdict, reader, ended, got>>
      BY <1>5 DEF BodyEnds, handlerVars, readerVars
    <3> QED BY <1>4, <3>1, <3>2, <3>3 DEF Over
  <2>2. CASE ~HasSpace
    <3>1. StreamingTypeOK'
      BY <1>5, <2>2 DEF BodyEnds, Data, StreamingTypeOK, handlerVars, readerVars
    <3>2. Flow'
      BY <1>5, <2>2 DEF BodyEnds, Reading, Data, Flow, EndQueued, ChunkHeld, handlerVars, readerVars
    <3>3. Backpressure' /\ NoLostWakeup'
      BY <1>5, <2>2 DEF BodyEnds, Data, Backpressure, NoLostWakeup, Over, handlerVars, readerVars
    <3> QED BY <3>1, <3>2, <3>3 DEF Data
  <2> QED BY <2>1, <2>2
<1>6. CASE PumpResumes
  <2>1. CASE pump = "ending"
    <3>1. verified \in BOOLEAN /\ named \in BOOLEAN /\ begun \in BOOLEAN
      BY DEF Data, StreamingTypeOK
    <3> QED BY <1>4, <1>6, <2>1, <3>1 DEF PumpResumes, Over, HasSpace, clientVars, handlerVars, readerVars
  <2>2. CASE pump = "putting"
    <3>1. /\ ~cancelling /\ error = "none" /\ ~ended /\ Len(queue) < QueueSize
          /\ Put(taken) /\ pump' = "reading"
          /\ UNCHANGED <<kind, cancelling, taken, named, verified, begun, error, handler, reply,
                         verdict, reader, ended, got>>
      BY <1>6, <2>2
      DEF PumpResumes, HasSpace, Course, Control, Over, clientVars, handlerVars, readerVars
    <3>2. Len(got) + Len(queue) + 1 = taken
      BY <1>1, <2>2, <3>1 DEF Data, Flow, EndQueued, ChunkHeld
    <3>3. /\ queue' \in Seq(Items(taken)) /\ Len(queue') = Len(queue) + 1
          /\ \A i \in 1..Len(queue) : queue'[i] = queue[i]
          /\ queue'[Len(queue) + 1] = taken
      <4>1. taken \in Items(taken)
        BY <1>1, <3>2 DEF Items
      <4> QED BY <1>1, <3>1, <4>1, AppendFacts
    <3>4. StreamingTypeOK'
      BY <1>1, <3>1, <3>3 DEF Data, StreamingTypeOK, Items
    <3>5. Flow'
      <4>1. EndQueued' = 0 /\ taken \in Items(taken)
        BY <1>1, <3>1, <3>2 DEF EndQueued, Items
      <4> QED BY <1>1, <2>2, <3>1, <3>2, <4>1, FlowAfterPut
    <3>6. Backpressure' /\ NoLostWakeup'
      BY <3>1 DEF Data, Backpressure, NoLostWakeup, Over
    <3> QED BY <3>4, <3>5, <3>6 DEF Data
  <2> QED BY <1>6, <2>1, <2>2 DEF PumpResumes
<1>7. CASE PumpCancelled
  <2>1. Signalled(queue) \in Seq(Items(taken)) /\ Len(Signalled(queue)) <= QueueSize
        /\ Signalled(queue) # <<>>
    BY SignalledFacts DEF Data
  <2>2. StreamingTypeOK'
    <3>1. queue' \in Seq(Items(taken)) /\ Len(queue') <= QueueSize /\ begun' \in BOOLEAN
      BY <1>1, <1>7, <2>1 DEF PumpCancelled, Data, StreamingTypeOK
    <3> QED BY <1>7, <3>1 DEF PumpCancelled, Data, StreamingTypeOK, Items, clientVars, handlerVars, readerVars
  <2>3. Flow'
    BY <1>7 DEF PumpCancelled, Flow
  <2>4. Backpressure' /\ NoLostWakeup'
    BY <1>7, <2>1
    DEF PumpCancelled, Data, Course, Control, Backpressure, NoLostWakeup, clientVars, handlerVars, readerVars
  <2> QED BY <2>2, <2>3, <2>4 DEF Data
<1>8. CASE WatchdogFires
  <2>1. StreamingTypeOK'
    BY <1>8 DEF WatchdogFires, Data, StreamingTypeOK, clientVars, handlerVars, readerVars
  <2>2. Flow'
    BY <1>8 DEF WatchdogFires, Flow
  <2>3. Backpressure' /\ NoLostWakeup'
    BY <1>8 DEF WatchdogFires, Data, Backpressure, NoLostWakeup, Over, clientVars, handlerVars, readerVars
  <2> QED BY <2>1, <2>2, <2>3 DEF Data
<1> QED BY <1>2, <1>3, <1>5, <1>6, <1>7, <1>8 DEF Pump

----------------------------------------------------------------------------
(* Reading.                                                                *)

(* What the head of the queue of a healthy upload is.                      *)
LEMMA HeadOfQueue ==
  ASSUME Data, Course, handler = "sending", error = "none", queue # <<>>
  PROVE  /\ Head(queue) = Done => pump = "done" /\ ~ended /\ Len(queue) = 1 /\ Len(got) = taken
         /\ Head(queue) # Done => Head(queue) = Len(got) + 1 /\ Len(got) + 1 \in 1..taken
         /\ Head(queue) # Abort
<1>1. /\ Len(queue) \in Nat \ {0} /\ Head(queue) = queue[1]
      /\ Len(got) \in Nat /\ taken \in Nat
  <2>1. queue \in Seq(Items(taken))
    BY DEF Data, StreamingTypeOK, Items
  <2> QED BY <2>1, TailFacts DEF Data, StreamingTypeOK
<1>2. ~cancelling
  BY DEF Course, Control
<1>3. /\ Len(got) + Len(queue) + ChunkHeld = taken + EndQueued
      /\ \A i \in 1..Len(queue) :
           queue[i] = IF EndQueued = 1 /\ i = Len(queue) THEN Done ELSE Len(got) + i
      /\ Len(got) <= taken
  BY <1>2 DEF Data, Flow
<1>4. 1 \in 1..Len(queue)
  BY <1>1
<1>5. CASE EndQueued = 1 /\ Len(queue) = 1
  <2>1. Head(queue) = Done /\ pump = "done" /\ ~ended /\ ChunkHeld = 0
    BY <1>1, <1>3, <1>4, <1>5 DEF EndQueued, ChunkHeld
  <2>2. Len(got) = taken
    BY <1>1, <1>3, <1>5, <2>1
  <2> QED BY <1>5, <2>1, <2>2 DEF Done, Abort
<1>6. CASE ~(EndQueued = 1 /\ Len(queue) = 1)
  <2>1. Head(queue) = Len(got) + 1
    BY <1>1, <1>3, <1>4, <1>6
  <2>2. EndQueued \in {0, 1} /\ ChunkHeld \in {0, 1}
    BY DEF EndQueued, ChunkHeld
  <2>3. Len(got) + 1 \in 1..taken
    BY <1>1, <1>3, <1>6, <2>2
  <2> QED BY <1>1, <2>1, <2>3 DEF Done, Abort
<1> QED BY <1>5, <1>6

LEMMA ReceiveKeeps ==
  ASSUME Data, Course, handler = "sending", error = "none", queue # <<>>, Receive,
         UNCHANGED <<kind, pump, taken, named, verified, begun, error, reply>>
  PROVE  Data' /\ Course'
<1>1. /\ queue \in Seq(Items(taken)) /\ Len(queue) \in Nat \ {0} /\ got \in Seq(1..taken)
      /\ Len(got) \in Nat /\ taken \in Nat /\ Len(queue) <= QueueSize /\ QueueSize \in Nat
  <2>1. queue \in Seq(Items(taken))
    BY DEF Data, StreamingTypeOK, Items
  <2> QED BY <2>1, TailFacts, StreamingAssumption DEF StreamingAssumption, Data, StreamingTypeOK
<1>2. /\ queue' \in Seq(Items(taken)) /\ Len(queue') = Len(queue) - 1
      /\ \A i \in 1..Len(queue') : queue'[i] = queue[i + 1]
  BY <1>1, TailFacts DEF Receive
<1>3. reader' = "busy" /\ UNCHANGED <<handler, verdict, cancelling>>
  BY DEF Receive
<1>4. ~cancelling /\ Len(got) + Len(queue) + ChunkHeld = taken + EndQueued
  BY DEF Course, Control, Data, Flow
<1>5. \A i \in 1..Len(queue) :
        queue[i] = IF EndQueued = 1 /\ i = Len(queue) THEN Done ELSE Len(got) + i
  BY <1>4 DEF Data, Flow
<1>6. NoLostWakeup'
  BY <1>3 DEF NoLostWakeup
<1>7. CASE Head(queue) = Done
  <2>1. /\ pump = "done" /\ ~ended /\ Len(queue) = 1 /\ Len(got) = taken
        /\ ended' = TRUE /\ UNCHANGED got
    BY <1>7, HeadOfQueue DEF Receive
  <2>2. StreamingTypeOK'
    BY <1>1, <1>2, <1>3, <2>1 DEF Data, StreamingTypeOK, Items
  <2>3. Flow'
    BY <1>1, <1>2, <2>1 DEF Flow, EndQueued, ChunkHeld
  <2>4. Backpressure'
    BY <2>1 DEF Data, Backpressure
  <2>5. Course'
    BY <1>3, <2>1 DEF Course, Control, NoPhantomUpload, PumpJoined, CompletedIsValid, Over
  <2> QED BY <1>6, <2>2, <2>3, <2>4, <2>5 DEF Data
<1>8. CASE Head(queue) # Done
  <2>1. /\ Len(got) + 1 \in 1..taken /\ got' = Append(got, Len(got) + 1)
        /\ UNCHANGED ended
    BY <1>8, HeadOfQueue DEF Receive
  <2>2. got' \in Seq(1..taken) /\ Len(got') = Len(got) + 1
    BY <1>1, <2>1, AppendFacts
  <2>3. StreamingTypeOK'
    BY <1>1, <1>2, <1>3, <2>1, <2>2 DEF Data, StreamingTypeOK, Items
  <2>4. Flow'
    <3>1. EndQueued' = EndQueued /\ ChunkHeld' = ChunkHeld
      BY <2>1 DEF EndQueued, ChunkHeld
    <3>2. ASSUME NEW i \in 1..Len(queue')
          PROVE  queue'[i] = IF EndQueued' = 1 /\ i = Len(queue') THEN Done ELSE Len(got') + i
      <4>1. i + 1 \in 1..Len(queue) /\ queue'[i] = queue[i + 1] /\ Len(got') + i = Len(got) + (i + 1)
        BY <1>1, <1>2, <2>2
      <4>2. i = Len(queue') <=> i + 1 = Len(queue)
        BY <1>1, <1>2
      <4> QED BY <1>5, <3>1, <4>1, <4>2
    <3>3. Len(got') + Len(queue') + ChunkHeld' = taken' + EndQueued' /\ Len(got') <= taken'
      <4>1. EndQueued \in {0, 1} /\ ChunkHeld \in {0, 1}
        BY DEF EndQueued, ChunkHeld
      <4>2. (Len(got) + 1) + (Len(queue) - 1) + ChunkHeld = taken + EndQueued
        BY <1>1, <1>4, <4>1
      <4>3. Len(got) + 1 <= taken
        BY <1>1, <2>1
      <4> QED BY <1>2, <2>2, <3>1, <4>2, <4>3
    <3> QED BY <3>2, <3>3 DEF Flow
  <2>5. Backpressure'
    BY <1>1, <2>2 DEF Data, Backpressure
  <2>6. Course'
    BY <1>3, <2>1 DEF Course, Control, NoPhantomUpload, PumpJoined, CompletedIsValid, Over
  <2> QED BY <1>6, <2>3, <2>4, <2>5, <2>6 DEF Data
<1> QED BY <1>7, <1>8

LEMMA ReadRaisesKeeps ==
  ASSUME Data, Course, handler = "sending", error # "none",
         NEW q \in Seq(Items(taken)), Len(q) <= QueueSize, ReadRaises(q),
         UNCHANGED <<kind, pump, taken, named, verified, begun, error, reply>>
  PROVE  Data' /\ Course'
<1>1. /\ queue' = q /\ reader' = "busy" /\ UNCHANGED <<ended, got>>
      /\ cancelling => cancelling'
      /\ \/ UNCHANGED <<handler, verdict, cancelling>>
         \/ Leave(error)
  BY DEF ReadRaises, Leave
<1>2. StreamingTypeOK'
  <2>1. /\ handler' \in {"starting", "joining", "sending", "stopping", "closing", "ended"}
        /\ verdict' \in {"none", "completed", "raised"} \cup Failures
        /\ cancelling' \in BOOLEAN
    BY <1>1 DEF Leave, Data, StreamingTypeOK, Failures
  <2> QED BY <1>1, <2>1 DEF Data, StreamingTypeOK, Items
<1>3. Flow' /\ Backpressure' /\ NoLostWakeup'
  BY <1>1 DEF Flow, Data, Backpressure, NoLostWakeup
<1>4. Course'
  BY <1>1 DEF Course, Control, NoPhantomUpload, PumpJoined, CompletedIsValid, Over, Leave, Data,
              StreamingTypeOK
<1> QED BY <1>2, <1>3, <1>4 DEF Data

LEMMA ReadKeeps ==
  ASSUME Data, Course, Read \/ Wake
  PROVE  Data' /\ Course'
<1>1. UNCHANGED <<kind, pump, taken, named, verified, begun, error, reply>>
  BY DEF Read, Wake, clientVars
<1>2. queue \in Seq(Items(taken)) /\ Len(queue) \in Nat /\ Len(queue) <= QueueSize /\ QueueSize \in Nat
  BY StreamingAssumption DEF StreamingAssumption, Data, StreamingTypeOK, Items
<1>3. CASE Read
  <2>1. CASE error # "none" /\ ReadRaises(queue)
    BY <1>1, <1>2, <1>3, <2>1, ReadRaisesKeeps DEF Read
  <2>2. CASE error = "none" /\ queue # <<>> /\ Receive
    BY <1>1, <1>3, <2>2, ReceiveKeeps DEF Read
  <2>3. CASE /\ error = "none" /\ queue = <<>> /\ reader' = "waiting"
             /\ UNCHANGED <<queue, ended, got, handler, verdict, cancelling>>
    <3>1. handler = "sending" /\ ~ended
      BY <1>3 DEF Read
    <3>2. StreamingTypeOK' /\ Flow' /\ Backpressure'
      BY <1>1, <2>3 DEF Data, StreamingTypeOK, Flow, EndQueued, ChunkHeld, Backpressure
    <3>3. Course'
      BY <1>1, <2>3, <3>1 DEF Course, Control, NoPhantomUpload, PumpJoined, CompletedIsValid, Over
    <3>4. ~Over
      <4>1. ~cancelling /\ pump # "cancelled"
        BY <2>3, <3>1 DEF Course, Control
      <4>2. pump # "done"
        <5> SUFFICES ASSUME pump = "done" PROVE FALSE
          OBVIOUS
        <5>1. Len(got) + 0 + 0 = taken + 1 /\ Len(got) <= taken
          BY <2>3, <3>1, <4>1 DEF Data, Flow, EndQueued, ChunkHeld
        <5>2. Len(got) \in Nat /\ taken \in Nat /\ verified /\ error = "none"
          BY <2>3 DEF Data, StreamingTypeOK, Course, Control
        <5> QED BY <5>1, <5>2
      <4> QED BY <4>1, <4>2 DEF Over
    <3>5. NoLostWakeup'
      BY <1>1, <3>4 DEF NoLostWakeup, Over
    <3> QED BY <3>2, <3>3, <3>5 DEF Data
  <2> QED BY <1>3, <2>1, <2>2, <2>3 DEF Read
<1>4. CASE Wake
  <2>1. Head(queue) = Abort => error # "none"
    BY <1>4, HeadOfQueue DEF Wake
  <2>2. CASE error # "none"
    <3>1. Tail(queue) \in Seq(Items(taken)) /\ Len(Tail(queue)) <= QueueSize
      BY <1>2, <1>4, TailFacts DEF Wake
    <3> QED BY <1>1, <1>4, <2>2, <3>1, ReadRaisesKeeps DEF Wake
  <2>3. CASE error = "none"
    BY <1>1, <1>4, <2>1, <2>3, ReceiveKeeps DEF Wake
  <2> QED BY <2>2, <2>3
<1> QED BY <1>3, <1>4

----------------------------------------------------------------------------
(* The invariant, and what follows from it.                                *)

LEMMA IInvStep == IInv /\ [Next]_vars => IInv'
<1> SUFFICES ASSUME Data, Course, [Next]_vars PROVE Data' /\ Course'
  BY DEF IInv
<1>1. CASE Pump \/ WatchdogFires
  BY <1>1, PumpData, PumpCourse DEF Data
<1>2. CASE Handler
  BY <1>2, HandlerData, HandlerCourse DEF Data
<1>3. CASE Read \/ Wake
  BY <1>3, ReadKeeps
<1>4. CASE Backend \/ Sink
  BY <1>4, HandlerData, DestinationCourse DEF Data
<1>5. CASE UNCHANGED vars
  <2>1. StreamingTypeOK' /\ Flow' /\ Backpressure' /\ NoLostWakeup'
    BY <1>5 DEF vars, clientVars, handlerVars, readerVars, Data, StreamingTypeOK, Flow, EndQueued,
                ChunkHeld, Backpressure, NoLostWakeup, Over
  <2>2. Course'
    BY <1>5 DEF vars, clientVars, handlerVars, readerVars, Course, Control, NoPhantomUpload,
                PumpJoined, CompletedIsValid, Over
  <2> QED BY <2>1, <2>2 DEF Data
<1> QED BY <1>1, <1>2, <1>3, <1>4, <1>5 DEF Next

THEOREM IInvHolds == Spec => []IInv
<1>1. IInv /\ [Next]_vars => IInv'
  BY IInvStep
<1> QED BY <1>1, IInvInit, PTL DEF Spec

(* Every reachable state is well typed and the queue never passes its      *)
(* size: no coroutine puts without room.                                   *)
THEOREM StreamingTypeCorrect == Spec => []StreamingTypeOK
<1>1. IInv => StreamingTypeOK
  BY DEF IInv, Data
<1> QED BY <1>1, IInvHolds, PTL

(* The server buffers at most queue_size chunks and the one being put,     *)
(* whatever the file size, and a destination waiting for a pump that is    *)
(* over will be woken, although the abort may be dropped.                  *)
THEOREM BufferIsSound == Spec => []QueueIsSound
<1>1. IInv => QueueIsSound
  BY DEF IInv, Data, QueueIsSound
<1> QED BY <1>1, IInvHolds, PTL

(* Completed is recorded only of an upload whose whole request validated,  *)
(* that no limit cut off; the destination is only ever called for a usable *)
(* file part; and the handler never leaves its pump behind.                *)
THEOREM UploadsEndWell == Spec => []BeginsAndEndsWell
<1>1. IInv => BeginsAndEndsWell
  BY DEF IInv, Course, BeginsAndEndsWell
<1> QED BY <1>1, IInvHolds, PTL

----------------------------------------------------------------------------
(* The refinement: each step of the upload is a step of the pipe or leaves *)
(* it alone.                                                               *)

Pipe == IF error # "none" THEN "broken"
        ELSE IF ended THEN "whole"
        ELSE IF verified THEN "checked" ELSE "open"

LEMMA ReadPipe ==
  ASSUME Data, Course, Read \/ Wake
  PROVE  \/ UNCHANGED <<taken, got, Pipe>>
         \/ Pipe \in {"open", "checked"} /\ Len(got) < taken /\ got' = Append(got, Len(got) + 1)
            /\ UNCHANGED <<taken, Pipe>>
         \/ Pipe = "checked" /\ Len(got) = taken /\ Pipe' = "whole" /\ UNCHANGED <<taken, got>>
<1>1. handler = "sending" /\ UNCHANGED <<taken, verified, error>>
  BY DEF Read, Wake, clientVars
<1>2. Len(got) \in Nat /\ taken \in Nat
  BY DEF Data, StreamingTypeOK
<1>3. CASE UNCHANGED <<got, ended>>
  BY <1>1, <1>3 DEF Pipe
<1>4. CASE error = "none" /\ queue # <<>> /\ Receive
  <2>1. CASE Head(queue) = Done
    BY <1>1, <1>4, <2>1, HeadOfQueue DEF Receive, Pipe, Course, Control
  <2>2. CASE Head(queue) # Done
    <3>1. ~ended
      BY DEF Read, Wake, Course, Control
    <3> QED BY <1>1, <1>2, <1>4, <2>2, <3>1, HeadOfQueue DEF Receive, Pipe
  <2> QED BY <2>1, <2>2
<1>5. \/ UNCHANGED <<got, ended>>
      \/ error = "none" /\ queue # <<>> /\ Receive
  <2>1. CASE Read
    BY <2>1 DEF Read, ReadRaises
  <2>2. CASE Wake
    <3>1. Head(queue) = Abort => error # "none"
      BY <1>1, <2>2, HeadOfQueue DEF Wake
    <3> QED BY <2>2, <3>1 DEF Wake, ReadRaises
  <2> QED BY <2>1, <2>2
<1> QED BY <1>3, <1>4, <1>5

LEMMA PipeStep == IInv /\ [Next]_vars => [Contract!PipeNext]_(Contract!pipeVars)
<1> SUFFICES ASSUME Data, Course, [Next]_vars
             PROVE  Contract!PipeNext \/ UNCHANGED <<taken, got, Pipe>>
  BY DEF IInv, Contract!pipeVars, Pipe
<1> USE DEF Contract!PipeNext, Pipe, clientVars, handlerVars, readerVars
<1>1. CASE TakeChunk
  <2>1. pump = "reading" /\ ~cancelling /\ error = "none" /\ ~ended /\ ~verified
    BY <1>1 DEF TakeChunk, Reading, Course, Control, Over
  <2> QED BY <1>1, <2>1 DEF TakeChunk, Contract!Send
<1>2. CASE BodyFails
  <2>1. error = "none" /\ ~ended
    BY <1>2 DEF BodyFails, Reading, Course, Control, Over
  <2> QED BY <1>2, <2>1 DEF BodyFails, Contract!Break
<1>3. CASE BodyEnds
  <2>1. error = "none" /\ ~ended /\ ~verified
    BY <1>3 DEF BodyEnds, Reading, Course, Control, Over
  <2> QED BY <1>3, <2>1 DEF BodyEnds, Contract!Check
<1>4. CASE PumpResumes \/ PumpCancelled
  BY <1>4 DEF PumpResumes, PumpCancelled
<1>5. CASE WatchdogFires
  <2>1. error = "none" /\ ~ended
    BY <1>5 DEF WatchdogFires, Course, Control, Over
  <2> QED BY <1>5, <2>1 DEF WatchdogFires, Contract!Break
<1>6. CASE Handler \/ Backend \/ Sink
  <2>1. ASSUME NEW how, Answered(how) PROVE UNCHANGED <<taken, got, error, ended, verified>>
    BY <2>1 DEF Answered
  <2>2. UNCHANGED <<taken, got, error, ended, verified>>
    BY <1>6, <2>1 DEF Handler, HandlerStarts, HandlerJoins, Stopped, Gone, Backend, ResponseStarts, BackendAnswers,
                      BackendFails, Sink, SinkReturns, SinkFails
  <2> QED BY <2>2
<1>7. CASE Read \/ Wake
  BY <1>7, ReadPipe DEF Contract!Deliver, Contract!Close
<1>8. CASE UNCHANGED vars
  BY <1>8 DEF vars
<1> QED BY <1>1, <1>2, <1>3, <1>4, <1>5, <1>6, <1>7, <1>8 DEF Next, Pump

(* Whatever the client, the watchdog and the destination do, the           *)
(* destination reads the client's chunks in order and once each, an end    *)
(* only after all of them and a valid request, and nothing after a failure.*)
THEOREM StreamIsAPipe == Spec => ImplementsPipe
<1>1. Init => Contract!PipeInit
  BY DEF Init, Contract!PipeInit
<1>2. IInv /\ [Next]_vars => [Contract!PipeNext]_(Contract!pipeVars)
  BY PipeStep
<1> QED BY <1>1, <1>2, IInvHolds, PTL DEF Spec, ImplementsPipe, Contract!PipeSpec

----------------------------------------------------------------------------
(* What is recorded of an upload, and what its destination did.            *)

(* The destination read the chunks in order; all of them, if it read the   *)
(* end.                                                                    *)
InOrder ==
  /\ \A i \in 1..Len(got) : got[i] = i
  /\ ended => Len(got) = taken

Judged ==
  /\ kind = "sink" =>
       /\ verdict = "completed" => ended
       /\ handler \in {"closing", "ended"} /\ error # "none" => verdict \in {error, "raised"}
  /\ CompletedIsAccepted

LEMMA InOrderStep ==
  ASSUME IInv, InOrder, [Next]_vars
  PROVE  InOrder'
<1> USE DEF IInv, Data, Course
<1>1. CASE TakeChunk
  <2>1. ~ended /\ UNCHANGED <<got, ended>>
    BY <1>1 DEF TakeChunk, Reading, Control, readerVars
  <2> QED BY <2>1 DEF InOrder
<1>2. CASE Read \/ Wake
  <2>1. handler = "sending" /\ taken' = taken
    BY <1>2 DEF Read, Wake, clientVars
  <2>2. \/ UNCHANGED <<got, ended>>
        \/ error = "none" /\ queue # <<>> /\ Receive
    <3>1. CASE Read
      BY <3>1 DEF Read, ReadRaises
    <3>2. CASE Wake
      <4>1. Head(queue) = Abort => error # "none"
        BY <2>1, <3>2, HeadOfQueue DEF Wake
      <4> QED BY <3>2, <4>1 DEF Wake, ReadRaises
    <3> QED BY <1>2, <3>1, <3>2
  <2>3. CASE UNCHANGED <<got, ended>>
    BY <2>1, <2>3 DEF InOrder
  <2>4. CASE error = "none" /\ queue # <<>> /\ Receive
    <3>1. CASE Head(queue) = Done
      BY <2>1, <2>4, <3>1, HeadOfQueue DEF Receive, InOrder
    <3>2. CASE Head(queue) # Done
      <4>1. ~ended
        BY <1>2 DEF Read, Wake, Control
      <4>2. got' = Append(got, Len(got) + 1) /\ ended' = ended
        BY <2>1, <2>4, <3>2, HeadOfQueue DEF Receive
      <4>3. got \in Seq(Nat) /\ Len(got) \in Nat
        BY DEF StreamingTypeOK
      <4>4. /\ Len(got') = Len(got) + 1 /\ got'[Len(got) + 1] = Len(got) + 1
            /\ \A i \in 1..Len(got) : got'[i] = got[i]
        BY <4>2, <4>3
      <4> QED BY <4>1, <4>2, <4>3, <4>4 DEF InOrder
    <3> QED BY <3>1, <3>2
  <2> QED BY <2>2, <2>3, <2>4
<1>3. CASE BodyFails \/ BodyEnds \/ PumpResumes \/ PumpCancelled \/ WatchdogFires \/ UNCHANGED vars
  <2>1. UNCHANGED <<taken, got, ended>>
    BY <1>3 DEF BodyFails, BodyEnds, PumpResumes, PumpCancelled, WatchdogFires, vars, readerVars,
                clientVars
  <2> QED BY <2>1 DEF InOrder
<1>4. CASE Handler \/ Backend \/ Sink
  <2>1. ASSUME NEW how, Answered(how) PROVE UNCHANGED <<taken, got, ended>>
    BY <2>1 DEF Answered, clientVars, readerVars
  <2>2. UNCHANGED <<taken, got, ended>>
    BY <1>4, <2>1 DEF Handler, HandlerStarts, HandlerJoins, Stopped, Gone, Backend, ResponseStarts, BackendAnswers,
                      BackendFails, Sink, SinkReturns, SinkFails, clientVars, readerVars
  <2> QED BY <2>2 DEF InOrder
<1> QED BY <1>1, <1>2, <1>3, <1>4 DEF Next, Pump

(* Accepted while the pump is over: the end of the file is in the queue or *)
(* was read.                                                               *)
LEMMA AcceptedIsNearlyWhole ==
  ASSUME IInv, InOrder, handler = "sending", Over, error = "none"
  PROVE  taken - Len(got) < QueueSize
<1> USE DEF IInv, Data, Course
<1>1. pump = "done" /\ ~cancelling
  BY DEF Control, Over
<1>2. /\ Len(got) \in Nat /\ Len(queue) \in Nat /\ taken \in Nat /\ QueueSize \in Nat \ {0}
      /\ Len(queue) <= QueueSize
  BY StreamingAssumption DEF StreamingAssumption, StreamingTypeOK
<1>3. CASE ended
  BY <1>2, <1>3 DEF InOrder
<1>4. CASE ~ended
  <2>1. Len(got) + Len(queue) = taken + 1
    <3>1. EndQueued = 1 /\ ChunkHeld = 0
      BY <1>1, <1>4 DEF EndQueued, ChunkHeld
    <3>2. Len(got) + Len(queue) + ChunkHeld = taken + EndQueued
      BY <1>1 DEF Flow
    <3> QED BY <1>2, <3>1, <3>2
  <2> QED BY <1>2, <2>1
<1> QED BY <1>3, <1>4

LEMMA JudgedStep ==
  ASSUME IInv, InOrder, Judged, [Next]_vars
  PROVE  Judged'
<1> USE DEF IInv, Data, Course, Judged, CompletedIsAccepted, clientVars, handlerVars, readerVars
<1>1. CASE BodyEnds \/ PumpResumes \/ PumpCancelled \/ UNCHANGED vars
  BY <1>1 DEF BodyEnds, PumpResumes, PumpCancelled, vars
<1>2. CASE TakeChunk \/ BodyFails
  <2>1. handler \notin {"closing", "ended"} /\ verdict = "none"
    BY <1>2 DEF TakeChunk, BodyFails, Reading, Control, PumpJoined, Over
  <2> QED BY <1>2, <2>1 DEF TakeChunk, BodyFails
<1>3. CASE WatchdogFires
  BY <1>3 DEF WatchdogFires
<1>4. CASE HandlerStarts \/ HandlerJoins
  BY <1>4 DEF HandlerStarts, HandlerJoins, Leave, OwnError, Control, StreamingTypeOK, Over
<1>5. CASE Gone
  BY <1>5 DEF Gone
<1>6. ASSUME NEW how, kind = "http" => how \in {"accepted", "refused"}, Answered(how)
      PROVE  Judged'
  <2>1. handler = "sending" /\ verdict = "none" /\ reply' = how
        /\ UNCHANGED <<kind, queue, taken, got, ended, error>>
    BY <1>6 DEF Answered, Control
  <2>2. CASE Over
    <3>1. verdict' = VerdictOn(how, FALSE)
      BY <1>6, <2>2 DEF Answered, Leave
    <3>2. CASE kind = "sink"
      <4>1. verdict' = IF error # "none" THEN error ELSE IF ended THEN "completed" ELSE "closed_early"
        BY <3>1, <3>2 DEF VerdictOn, SinkVerdict, OwnError
      <4>2. error # "completed"
        BY DEF StreamingTypeOK
      <4> QED BY <2>1, <3>2, <4>1, <4>2
    <3>3. CASE kind = "http"
      <4>1. verdict' = "completed" => error = "none" /\ how # "refused"
        BY <3>1, <3>3 DEF VerdictOn, HttpVerdict, OwnError, StreamingTypeOK
      <4>2. how \in {"accepted", "refused"}
        BY <1>6, <3>3
      <4> QED BY <2>1, <2>2, <3>3, <4>1, <4>2, AcceptedIsNearlyWhole
    <3>4. kind \in {"http", "sink"}
      BY StreamingAssumption DEF StreamingAssumption, StreamingTypeOK
    <3> QED BY <3>2, <3>3, <3>4
  <2>3. CASE ~Over
    BY <1>6, <2>1, <2>3 DEF Answered
  <2> QED BY <2>2, <2>3
<1>7. CASE Stopped
  BY <1>7 DEF Stopped, Leave, VerdictOn, SinkVerdict, HttpVerdict, OwnError, StreamingTypeOK, Control
<1>8. CASE Read \/ Wake
  <2>1. handler = "sending" /\ verdict = "none"
    BY <1>8 DEF Read, Wake, Control
  <2> QED BY <1>8, <2>1 DEF Read, Wake, ReadRaises, Receive, Leave, StreamingTypeOK
<1>9. CASE ResponseStarts \/ BackendFails \/ SinkFails
  BY <1>9 DEF ResponseStarts, BackendFails, SinkFails, Leave, OwnError, StreamingTypeOK
<1> QED BY <1>1, <1>2, <1>3, <1>4, <1>5, <1>6, <1>7, <1>8, <1>9
        DEF Next, Pump, Handler, Backend, BackendAnswers, Sink, SinkReturns

(* An upload to a sink is recorded as completed only when the sink read    *)
(* all of its chunks, in order, and its end; and a failure of the upload   *)
(* is what is recorded, whatever the sink made of it.  An upload to a      *)
(* backend is recorded as completed only when the backend accepted it and  *)
(* fewer than queue_size chunks were left unread.                          *)
THEOREM DestinationsAreJudgedRight == Spec => []JudgedRight
<1>1. Init => InOrder /\ Judged
  BY DEF Init, InOrder, Judged, CompletedIsAccepted
<1>2. IInv /\ InOrder /\ [Next]_vars => InOrder'
  BY InOrderStep
<1>3. IInv /\ InOrder /\ Judged /\ [Next]_vars => Judged'
  BY JudgedStep
<1>4. IInv /\ InOrder /\ Judged => JudgedRight
  <2> SUFFICES ASSUME IInv, InOrder, Judged PROVE JudgedRight
    OBVIOUS
  <2>1. SinkKeepsCause
    BY DEF Judged, SinkKeepsCause
  <2>2. ASSUME kind = "sink", verdict = "completed"
        PROVE  ended /\ got = [i \in 1..taken |-> i]
    <3>1. got \in Seq(1..taken) /\ taken \in Nat
      BY DEF IInv, Data, StreamingTypeOK
    <3>2. ended /\ Len(got) = taken
      BY <2>2 DEF Judged, InOrder
    <3>3. got = [i \in 1..Len(got) |-> got[i]]
      BY <3>1
    <3> QED BY <3>2, <3>3 DEF InOrder
  <2> QED BY <2>1, <2>2 DEF Judged, JudgedRight, CompletedIsWhole
<1> QED BY <1>1, <1>2, <1>3, <1>4, IInvHolds, PTL DEF Spec
==============================================================================
