------------------------------ MODULE MCIntake ------------------------------
(***************************************************************************)
(* Bodies for TLC: each odd thing a client may send, most on its own, with *)
(* data and epilogues that look like delimiters, and a few timed uploads.  *)
(***************************************************************************)
EXTENDS IntakeProperties

TheBoundary == <<"b">>

Plain == [pre |-> <<>>, lines |-> <<"D">>, data |-> <<"x", "y">>, then |-> "close",
          epilogue |-> <<>>]

Preambles == {<<>>, CRLF, <<"-", "-">> \o CRLF, <<"x", "-", "-">> \o CRLF, <<"r", "r", "l">>,
              <<"-", "-", "x", "x", "x", "x">> \o CRLF}
Datas == {<<>>, <<"r">>, <<"r", "l", "-", "-">>, <<"x", "-", "-", "b", "-", "-">>,
          <<"r", "r", "l">>, <<"r", "l", "-", "r", "l", "-", "-", "x">>}
Epilogues == {<<>>, CRLF, Close, CRLF \o Close \o CRLF, <<"x", "x", "x", "x", "x">>}
Lines == {<<"N">>, <<"E">>, <<"O">>, <<"D", "T">>, <<"D", "U">>, <<"D", "M">>, <<"D", "A">>,
          <<"D", "T", "w">>, <<"D", "H", "w">>, <<"D", "U", "T">>, <<"D", "H", "T">>,
          <<"D", "H", "H", "T">>, <<"D", "H", "H", "H", "H", "H", "H", "H", "H", "H">>}

Forms == [pre : Preambles, lines : {<<"D">>}, data : Datas, then : {"close"}, epilogue : Epilogues]
           \cup {[Plain EXCEPT !.lines = ls] : ls \in Lines}
           \cup {[Plain EXCEPT !.lines = ls, !.data = <<>>] : ls \in Lines}
           \cup {[Plain EXCEPT !.lines = ls, !.data = d, !.then = t] :
                    ls \in {<<"D">>, <<"E", "U">>, <<"O", "A">>, <<"D", "T", "w", "A">>},
                    d \in {<<"x">>, <<"r", "l">>}, t \in {"second", "other", "cut"}}

AsUpload(f) == [raw |-> FALSE, form |-> f, bytes |-> Written(f), maxSize |-> None,
                expectedSize |-> None, digest |-> {}, stall |-> None, limit |-> None]

Declared == {[maxSize |-> 2, expectedSize |-> 2, digest |-> {<<"x", "y">>}],
             [maxSize |-> 3, expectedSize |-> None, digest |-> {<<"y", "x">>}],
             [maxSize |-> 1, expectedSize |-> None, digest |-> {}],
             [maxSize |-> None, expectedSize |-> 3, digest |-> {}],
             [maxSize |-> 2, expectedSize |-> 1, digest |-> {}]}
Limit(u, d) == [u EXCEPT !.maxSize = d.maxSize, !.expectedSize = d.expectedSize,
                         !.digest = d.digest]
Raw(bytes) == [AsUpload(Plain) EXCEPT !.raw = TRUE, !.bytes = bytes]

TheUploads ==
  {AsUpload(f) : f \in Forms}
    \cup {Limit(u, d) : u \in {AsUpload(Plain), Raw(<<"x", "y">>)}, d \in Declared}
    \cup {[Raw(<<"x", "y", "x", "x", "y", "x">>) EXCEPT !.stall = 4, !.limit = l] : l \in {None, 7}}
    \cup {[AsUpload(Plain) EXCEPT !.limit = 2]}
=============================================================================
