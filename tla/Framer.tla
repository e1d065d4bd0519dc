------------------------------- MODULE Framer -------------------------------
(***************************************************************************)
(* Where a multipart body starts and ends (multipart.py).  The body comes  *)
(* in reads cut anywhere; the framer drops what precedes the first         *)
(* delimiter, passes the rest on as it comes, and at the close delimiter   *)
(* hands the parser its canonical end.  A byte is a symbol: "r" and "l"    *)
(* are CR and LF, "-" is the dash, and every other symbol is text.         *)
(***************************************************************************)
EXTENDS Integers, Sequences, FiniteSetsExt

CONSTANTS
  Boundary,    \* the boundary parameter of the request's Content-Type
  MaxPreamble  \* _MAX_PREAMBLE

ASSUME FramerAssumption ==
  /\ MaxPreamble \in Nat
  /\ Boundary \in Seq(STRING)
  /\ \A i \in DOMAIN Boundary : Boundary[i] \notin {"r", "l"}

CRLF == <<"r", "l">>
Open == <<"-", "-">> \o Boundary
Close == CRLF \o Open \o <<"-", "-">>

StartsWith(s, w) == Len(w) <= Len(s) /\ SubSeq(s, 1, Len(w)) = w
LastOf(s, n) == SubSeq(s, Max({1, Len(s) - n + 1}), Len(s))
From(s, i) == SubSeq(s, i, Len(s))

(* bytes.find, counting from 1; 0 for "not there".                         *)
Find(s, w) ==
  LET hits == {i \in 1..(Len(s) - Len(w) + 1) : SubSeq(s, i, i + Len(w) - 1) = w}
  IN IF hits = {} THEN 0 ELSE Min(hits)

NewFramer == [buf |-> <<>>, carry |-> <<>>, started |-> FALSE, closed |-> FALSE,
              epilogue |-> 0, refused |-> FALSE]

(* Before the first delimiter: what there is of the body from it on, or    *)
(* "more" when it has not come yet, or "refused".                          *)
Opening(buf) ==
  LET at == Find(buf, CRLF \o Open) IN
  IF StartsWith(buf, Open) THEN [is |-> "open", body |-> buf]
  ELSE IF StartsWith(Open, buf) THEN [is |-> "more"]
  ELSE IF at > 0 THEN [is |-> "open", body |-> From(buf, at + 2)]
  ELSE IF Len(buf) > MaxPreamble THEN [is |-> "refused"]
  ELSE [is |-> "more"]

(* How many bytes of `chunk` the close delimiter leaves to the body, with  *)
(* `carry` the last bytes before it; 0 when it does not end here.          *)
Mutant_EndIn(carry, chunk) ==
  LET at == Find(chunk, Close) IN IF at > 0 THEN at + Len(Close) - 1 ELSE 0
EndIn(carry, chunk) ==
  LET straddle == Find(carry \o SubSeq(chunk, 1, Min({Len(chunk), Len(Close) - 1})), Close)
      at == Find(chunk, Close)
  IN IF straddle > 0 THEN straddle + Len(Close) - 1 - Len(carry)
     ELSE IF at > 0 THEN at + Len(Close) - 1
     ELSE 0

Carried(carry, chunk) ==
  LastOf(IF Len(chunk) >= Len(Close) - 1 THEN chunk ELSE carry \o chunk, Len(Close) - 1)

(* Inside the body: the framer after a chunk, and what the parser sees.    *)
Pass(f, chunk) ==
  LET end == EndIn(f.carry, chunk) IN
  IF end > 0
    THEN [framer |-> [f EXCEPT !.closed = TRUE, !.epilogue = Len(chunk) - end],
          out |-> SubSeq(chunk, 1, end) \o CRLF]
    ELSE [framer |-> [f EXCEPT !.carry = Carried(f.carry, chunk)], out |-> chunk]

(* Framer.feed.                                                            *)
Feed(f, chunk) ==
  LET opening == Opening(f.buf \o chunk) IN
  IF f.closed
    THEN [framer |-> [f EXCEPT !.epilogue = @ + Len(chunk)], out |-> <<>>]
  ELSE IF f.started
    THEN Pass(f, chunk)
  ELSE IF opening.is = "open"
    THEN Pass([f EXCEPT !.buf = <<>>, !.started = TRUE], opening.body)
  ELSE [framer |-> [f EXCEPT !.buf = @ \o chunk, !.refused = opening.is = "refused"],
        out |-> <<>>]
=============================================================================
