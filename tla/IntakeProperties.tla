-------------------------- MODULE IntakeProperties --------------------------
(***************************************************************************)
(* What the intake of one upload must get right however its bytes are cut  *)
(* into reads.  The reference is how the body was composed: a form keeps   *)
(* in `form` its preamble, header lines, data, what follows the data and   *)
(* the epilogue, and its bytes are that form written out.                  *)
(***************************************************************************)
EXTENDS Intake

(* A part's header lines, each with its line end.                          *)
Header(lines) ==
  [i \in 1..3 * Len(lines) |-> CASE i % 3 = 1 -> lines[i \div 3 + 1]
                                 [] i % 3 = 2 -> "r"
                                 [] OTHER -> "l"]
Part(lines, data) == Open \o CRLF \o Header(lines) \o CRLF \o data

(* What the parser is to see of a form, and the form's bytes.              *)
Canonical(form) ==
  Part(form.lines, form.data) \o
    CASE form.then = "close" -> Close \o CRLF
      [] form.then = "second" -> CRLF \o Part(<<"D">>, <<"x">>) \o Close \o CRLF
      [] form.then = "other" -> CRLF \o Part(<<"O">>, <<"x">>) \o Close \o CRLF
      [] form.then = "cut" -> <<>>
Written(form) ==
  LET inner == Canonical(form)
  IN form.pre \o (IF form.then = "cut" THEN inner ELSE SubSeq(inner, 1, Len(inner) - 2))
       \o form.epilogue

(* A form as a client composes it: the delimiter opens the body and ends   *)
(* the data and is nowhere else, the part says first what it is, and what  *)
(* is cut off has no epilogue.                                             *)
Dispositions == {"D", "N", "E", "O"}
Delimiter == CRLF \o Open
WellComposed(form) ==
  /\ {form.pre, form.data, form.epilogue} \subseteq Seq(STRING)
  /\ form.pre # <<>> => /\ Len(form.pre) > 1
                        /\ Find(form.pre \o Open, Delimiter) = Len(form.pre) - 1
                        /\ ~StartsWith(form.pre, Open)
  /\ Find(CRLF \o form.data \o Delimiter, Delimiter) = Len(form.data) + 3
  /\ form.lines \in Seq(STRING)
  /\ form.lines # <<>> /\ form.lines[1] \in Dispositions
  /\ \A i \in 2..Len(form.lines) : form.lines[i] \in TypeLines \cup {"A", "w", "H"}
  /\ form.then \in {"close", "second", "other", "cut"}
  /\ form.then = "cut" => form.epilogue = <<>>

ASSUME FormsAssumption ==
  \A u \in Uploads : ~u.raw => u.bytes = Written(u.form) /\ WellComposed(u.form)

HeadLength(lines) == Len(Part(lines, <<>>)) - 4

(* The type the file is recorded with, given whether its header block is   *)
(* read whole, and the error it brings.                                    *)
TypeOf(lines, whole) ==
  LET types == {i \in DOMAIN lines : lines[i] \in TypeLines \cup (IF whole THEN {"A"} ELSE {})}
      folded == Max(types) < Len(lines) /\ lines[Max(types) + 1] = "w"
  IN IF types = {} THEN "none" ELSE IF whole /\ folded THEN "M" ELSE lines[Max(types)]
TypeError(lines, whole) ==
  LET type == TypeOf(lines, whole) IN
  IF whole /\ type \in {"M", "A"} THEN "invalid_media_type"
  ELSE IF type = "U" THEN "unsupported_media_type" ELSE "none"

LengthError(u, n) ==
  IF u.expectedSize # None /\ n > u.expectedSize THEN "size_mismatch"
  ELSE IF u.maxSize # None /\ n > u.maxSize THEN "too_large" ELSE "none"
DeclaredError(u, data) ==
  IF u.expectedSize # None /\ Len(data) # u.expectedSize THEN "size_mismatch"
  ELSE IF u.digest # {} /\ data \notin u.digest THEN "digest_mismatch" ELSE "complete"

(* What may be held against a body while it is read.  Which of several     *)
(* flaws is named depends on the reads.                                    *)
Overhead(form) ==
  Len(Canonical(form)) - Len(form.data) + (IF form.then = "cut" THEN Len(Delimiter) ELSE 0)
Flaws(u, whole) ==
  LET f == u.form IN
  {IF f.lines[1] = "O" \/ f.then = "other" THEN "unexpected_part" ELSE "none",
   IF f.lines[1] = "E" THEN "missing_file" ELSE "none",
   IF f.then = "second" THEN "duplicate_file" ELSE "none",
   IF Overhead(f) > MaxOverhead THEN "part_headers_too_large" ELSE "none",
   TypeError(f.lines, whole),
   LengthError(u, Len(f.data))} \ {"none"}

(* A body without a flaw is held to what was declared of the file, and one *)
(* that is cut off is truncated, if nothing was held against it before.    *)
Verdicts(u, whole) ==
  IF u.form.then = "cut" THEN Flaws(u, whole) \cup {"truncated"}
  ELSE IF Flaws(u, whole) # {} THEN Flaws(u, whole)
  ELSE {DeclaredError(u, u.form.data)}

(* A header block close to the limit is read whole or not, and a preamble  *)
(* close to its limit or past it is refused or not, as the reads fall.     *)
MayReadWhole(lines) == {w \in BOOLEAN : IF w THEN HeadLength(lines) <= MaxPartHead
                                             ELSE HeadLength(lines) + 3 > MaxPartHead}
MayRefusePreamble(pre) == pre # <<>> /\ Len(pre) + Len(Open) - 1 > MaxPreamble

(* However the bytes are cut, the parser is handed the body from its first *)
(* delimiter to its close delimiter, in order, nothing doubled or lost,    *)
(* and never more than a slice past the overhead cap beyond the file       *)
(* (Framer.feed, _MultipartBody.feed).  The verdict on a form and the      *)
(* bytes and type it is stored with are a matter of the body alone, not of *)
(* its reads: an upload is complete only with exactly the data sent, whose *)
(* size and digest are as declared, and the type as its own header has it  *)
(* (_FileTarget, _MultipartBody).                                          *)
FedInOrder ==
  ~up.raw => /\ IsPrefix(body.seen, Canonical(up.form))
             /\ body.framer.closed /\ body.error = "none" => body.seen = Canonical(up.form)
FedBounded == body.fed - Len(body.stored) <= MaxOverhead + FeedSlice
JudgedRight ==
  pump = "over" /\ result # "client_disconnected" /\ ~up.raw =>
    /\ \/ \E w \in MayReadWhole(up.form.lines) : result \in Verdicts(up, w)
       \/ result = "bad_multipart" /\ MayRefusePreamble(up.form.pre)
    /\ result = "complete" =>
         /\ body.stored = up.form.data
         /\ body.whole \in MayReadWhole(up.form.lines)
         /\ Verdicts(up, body.whole) = {"complete"}
         /\ body.line = TypeOf(up.form.lines, body.whole)
ReadRight == FedInOrder /\ FedBounded /\ JudgedRight

(* So it is for a raw body: however it was cut, it is refused for its      *)
(* whole length or its digest and not for how much one read brought, and   *)
(* a complete one is stored byte for byte (_RawBody, _FileTarget).         *)
RawRight ==
  pump = "over" /\ result # "client_disconnected" /\ up.raw =>
    /\ result = FirstError(<<LengthError(up, Len(up.bytes)), DeclaredError(up, up.bytes)>>)
    /\ result = "complete" => body.stored = up.bytes

(* The watchdog stops the slow and only the slow (_watch, _pump).  A       *)
(* client is refused as too slow only for its own slowness: over the last  *)
(* stall_timeout spent waiting on it, it sent too little, and what the     *)
(* pump waits on a slow backend is not charged.  And a trickle does not    *)
(* hold its slot: no client gets away with too little over twice           *)
(* stall_timeout, and none with more than upload_timeout.                  *)
ReadOver(ticks) == Last(paid) - (IF ticks < Len(paid) THEN paid[Len(paid) - ticks] ELSE 0)
OnlyTheClientsTime ==
  pump = "cancelled" /\ result = "too_slow" => ReadOver(up.stall) < StallMinBytes
SlowIsStopped ==
  Pumping =>
    /\ up.stall # None /\ Len(paid) > 2 * up.stall /\ ~Awake =>
         ReadOver(2 * up.stall) >= StallMinBytes
    /\ up.limit # None => now <= up.limit
WatchdogIsJust == OnlyTheClientsTime /\ SlowIsStopped
=============================================================================
