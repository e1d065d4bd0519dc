------------------------------ MODULE FilePart ------------------------------
(***************************************************************************)
(* The file part of an upload (gateway.py: _FileTarget, _MultipartBody,    *)
(* _RawBody): the bytes of each read are framed, parsed and checked, and   *)
(* what passes goes to the forwarding queue.                               *)
(*                                                                         *)
(* A header line of a part is one symbol:                                  *)
(*   "D" "N" "E"  Content-Disposition naming the file's field, with a      *)
(*                filename, without one, with an empty one                 *)
(*   "O"          Content-Disposition naming another field                 *)
(*   "T" "U"      Content-Type, on the accept list or not                  *)
(*   "M"          Content-Type that is no media type                       *)
(*   "A"          Content-Type spelt so that the parser overlooks it       *)
(*   "w"          a folded continuation of the line before                 *)
(*   "H"          any other header                                         *)
(*                                                                         *)
(* An upload `u` is a record: raw, the limits maxSize and expectedSize     *)
(* (None for no limit), and digest, the set of contents it allows ({} when *)
(* no digest was declared).                                                *)
(***************************************************************************)
EXTENDS Framer, SequencesExt

CONSTANTS
  MaxOverhead,  \* _MAX_OVERHEAD
  FeedSlice,    \* _FEED_SLICE
  MaxEpilogue,  \* _MAX_EPILOGUE
  MaxPartHead   \* _MAX_PART_HEAD

ASSUME FilePartAssumption ==
  /\ {MaxOverhead, MaxEpilogue, MaxPartHead} \subseteq Nat
  /\ FeedSlice \in Nat \ {0}

None == -1
TypeLines == {"T", "U", "M"}
WellFormed == {"none", "T", "U", "A"}

----------------------------------------------------------------------------
(* The streaming parser, one byte at a time: strict, and fed from the      *)
(* first delimiter on.  It holds back what may be the start of a           *)
(* delimiter, and reports a part as finished at the delimiter after it.    *)

NewParser == [at |-> "open", held |-> <<>>, parts |-> 0, filename |-> "none",
              type |-> "none", data |-> <<>>, done |-> FALSE, fault |-> "none"]

HeaderLine(p, line) ==
  IF line = <<>> THEN [p EXCEPT !.at = "data", !.held = <<>>]
  ELSE LET q == [p EXCEPT !.held = <<>>] IN
    CASE line[1] \in {"D", "N", "E"} ->
           IF p.parts = 0 THEN [q EXCEPT !.parts = 1, !.filename = line[1]]
                          ELSE [q EXCEPT !.parts = @ + 1, !.fault = "duplicate_file"]
      [] line[1] = "O" -> [q EXCEPT !.fault = "unexpected_part"]
      [] line[1] \in TypeLines -> [q EXCEPT !.type = line[1]]
      [] OTHER -> q

InData(p, got) ==
  LET delimiter == CRLF \o Open
      hold == Max({n \in 0..Min({Len(got), Len(delimiter)}) :
                     LastOf(got, n) = SubSeq(delimiter, 1, n)})
  IN IF hold = Len(delimiter)
       THEN [p EXCEPT !.at = "delimited", !.held = <<>>,
                      !.data = @ \o SubSeq(got, 1, Len(got) - hold)]
       ELSE [p EXCEPT !.held = LastOf(got, hold), !.data = @ \o SubSeq(got, 1, Len(got) - hold)]

(* The two bytes after a delimiter: another part, the end, or neither.     *)
Delimited(p, got) ==
  IF Len(got) < 2 THEN [p EXCEPT !.held = got]
  ELSE IF got = CRLF THEN [p EXCEPT !.at = "head", !.held = <<>>, !.done = p.parts > 0]
  ELSE IF got = <<"-", "-">> THEN [p EXCEPT !.at = "closing", !.held = <<>>]
  ELSE [p EXCEPT !.fault = "bad_multipart"]

ParseByte(p, byte) ==
  LET got == Append(p.held, byte) IN
  IF p.fault # "none" THEN p
  ELSE CASE p.at = "open" -> IF got = Open THEN [p EXCEPT !.at = "delimited", !.held = <<>>]
                                           ELSE [p EXCEPT !.held = got]
         [] p.at = "delimited" -> Delimited(p, got)
         [] p.at = "closing" ->
              IF got = CRLF THEN [p EXCEPT !.at = "closed", !.done = p.parts > 0]
                            ELSE [p EXCEPT !.held = got]
         [] p.at = "head" ->
              IF LastOf(got, 2) = CRLF THEN HeaderLine(p, SubSeq(got, 1, Len(got) - 2))
                                       ELSE [p EXCEPT !.held = got]
         [] p.at = "data" -> InData(p, got)
         [] OTHER -> p

Parse(p, piece) ==
  LET upTo[i \in 0..Len(piece)] == IF i = 0 THEN p ELSE ParseByte(upTo[i - 1], piece[i])
  IN upTo[Len(piece)]

----------------------------------------------------------------------------
(* One upload's body so far.  `stored` is what went to the queue, `seen`   *)
(* (history) what the parser was handed, `line` and `whole` the media type *)
(* recorded and whether it kept its parameters.                            *)

NewBody ==
  [framer |-> NewFramer, parser |-> NewParser, fed |-> 0, head |-> <<>>, headDone |-> FALSE,
   headRead |-> FALSE, headType |-> "none", announced |-> FALSE, line |-> "none",
   whole |-> FALSE, stored |-> <<>>, seen |-> <<>>, error |-> "none", enough |-> FALSE]

(* content_type_of_part: the last Content-Type wins, and a folded line     *)
(* after it stays in its value, which then is no media type.               *)
ContentTypeOfPart(head) ==
  LET lines == From(head, Len(Open) + 1)
      types == {i \in DOMAIN lines : lines[i] \in TypeLines \cup {"A"}}
      folded == Max(types) + 3 \in DOMAIN lines /\ lines[Max(types) + 3] = "w"
  IN IF types = {} THEN "none" ELSE IF folded THEN "M" ELSE lines[Max(types)]

(* _read_head: the first part's header block, to read its Content-Type     *)
(* from; a block past the limit is given up.                               *)
ReadHead(b, out) ==
  LET head == b.head \o SubSeq(out, 1, Min({Len(out), MaxPartHead + 4 - Len(b.head)}))
      start == Max({0, Len(b.head) - 3})
      end == Find(From(head, start + 1), CRLF \o CRLF)
  IN [b EXCEPT
       !.headRead = end > 0,
       !.headType = IF end > 0 THEN ContentTypeOfPart(SubSeq(head, 1, start + end - 1)) ELSE @,
       !.headDone = end > 0 \/ Len(head) > MaxPartHead,
       !.head = IF end > 0 \/ Len(head) > MaxPartHead THEN <<>> ELSE head]

(* _announce, and _checked_media_type on what the part declares.           *)
AnnounceError(b, p) ==
  LET declared == IF b.headRead THEN b.headType ELSE p.type IN
  IF p.filename = "E" THEN "missing_file"
  ELSE IF b.headRead /\ declared \in {"M"} \cup (WellFormed \ {p.type}) THEN "invalid_media_type"
  ELSE IF declared = "U" THEN "unsupported_media_type"
  ELSE "none"

(* on_data_received: the declared size is checked before the limit.        *)
SizeError(u, size) ==
  IF u.expectedSize # None /\ size > u.expectedSize THEN "size_mismatch"
  ELSE IF u.maxSize # None /\ size > u.maxSize THEN "too_large"
  ELSE "none"

FirstError(errors) ==
  LET bad == {i \in DOMAIN errors : errors[i] # "none"}
  IN IF bad = {} THEN "none" ELSE errors[Min(bad)]

(* The first data of the part announces it, or its end does.               *)
Announces(b, q) == ~b.announced /\ (Len(q.data) > Len(b.parser.data) \/ q.done)

(* What the target does with what the parser tells it of one piece: name   *)
(* and type at the first data or at the end, then the sizes, then whatever *)
(* follows the data in the piece.                                          *)
Receive(u, b, q) ==
  LET news == From(q.data, Len(b.parser.data) + 1)
      announces == Announces(b, q)
      refused == FirstError(<<IF announces THEN AnnounceError(b, q) ELSE "none",
                              IF news # <<>> THEN SizeError(u, Len(q.data)) ELSE "none">>)
  IN [b EXCEPT
       !.parser = q,
       !.announced = @ \/ announces,
       !.line = IF announces THEN (IF b.headRead THEN b.headType ELSE q.type) ELSE @,
       !.whole = IF announces THEN b.headRead ELSE @,
       !.stored = IF refused = "none" THEN @ \o news ELSE @,
       !.error = FirstError(<<refused, q.fault>>)]

Pieces(out) ==
  [i \in 1..((Len(out) + FeedSlice - 1) \div FeedSlice) |->
     SubSeq(out, (i - 1) * FeedSlice + 1, Min({i * FeedSlice, Len(out)}))]

FeedPiece(u, b, piece) ==
  IF b.error # "none" THEN b
  ELSE LET c == Receive(u, b, Parse(b.parser, piece))
           fed == b.fed + Len(piece)
           over == fed - Len(c.stored) > MaxOverhead
       IN [c EXCEPT !.fed = fed, !.seen = @ \o piece,
                    !.error = FirstError(<<@, IF over THEN "part_headers_too_large" ELSE "none">>)]

FeedPieces(u, b, pieces) ==
  LET upTo[i \in 0..Len(pieces)] == IF i = 0 THEN b ELSE FeedPiece(u, upTo[i - 1], pieces[i])
  IN upTo[Len(pieces)]

(* _MultipartBody.feed.  Once the epilogue is long, the rest is ignored.   *)
FormFeed(u, b, chunk) ==
  LET fed == Feed(b.framer, chunk)
      framed == [b EXCEPT !.framer = fed.framer]
      headed == IF ~b.headDone /\ fed.out # <<>> THEN ReadHead(framed, fed.out) ELSE framed
      c == FeedPieces(u, headed, Pieces(fed.out))
  IN IF fed.framer.refused THEN [framed EXCEPT !.error = "bad_multipart"]
     ELSE [c EXCEPT !.enough = fed.framer.closed /\ fed.framer.epilogue > MaxEpilogue]

(* _RawBody.feed: the bytes are the file.                                  *)
Mutant_RawFeed(u, b, chunk) ==
  LET refused == SizeError(u, Len(chunk))
  IN [b EXCEPT !.error = refused, !.stored = IF refused = "none" THEN @ \o chunk ELSE @]
RawFeed(u, b, chunk) ==
  LET refused == SizeError(u, Len(b.stored) + Len(chunk))
  IN [b EXCEPT !.error = refused, !.stored = IF refused = "none" THEN @ \o chunk ELSE @]

(* body.end(): a form must have had a file part, and its end.              *)
EndError(u, b) ==
  IF ~u.raw /\ b.parser.parts = 0 THEN "missing_file"
  ELSE IF ~u.raw /\ ~b.parser.done THEN "truncated"
  ELSE "none"

(* target.verify(): the whole file against what was declared.              *)
VerifyError(u, b) ==
  IF u.expectedSize # None /\ Len(b.stored) # u.expectedSize THEN "size_mismatch"
  ELSE IF u.digest # {} /\ b.stored \notin u.digest THEN "digest_mismatch"
  ELSE "none"

FinalError(u, b) == FirstError(<<b.error, EndError(u, b), VerifyError(u, b)>>)
=============================================================================
