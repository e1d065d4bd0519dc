----------------------- MODULE ConversationProperties -----------------------
(***************************************************************************)
(* What a conversation about one ticket has to keep to.                    *)
(***************************************************************************)
EXTENDS Conversation

Answered == at = "answered"
Dest == Registry[record.destination]

----------------------------------------------------------------------------
(* A request without a valid token learns nothing about the record, not    *)
(* even whether it exists, and spends nothing (gateway.py:664, 607): it    *)
(* gets an answer it would also get were the record missing, fresh, spent, *)
(* expired or somebody else's, and no page shows a form.  And no token     *)
(* spends a ticket that the server's MCP endpoint would refuse             *)
(* (adapters/mcp.py:44, adapters/fastmcp.py:47).                           *)
Others == {AbsentRecord} \cup
          {[record EXCEPT !.status = s, !.expired = e, !.owner = o] :
             s \in {"issued", "completed"}, e \in BOOLEAN, o \in {Nobody, record.owner}}

EndpointTakes(t) ==
  /\ t.verifier = "accepts" /\ t.fresh /\ gw.server.scopes \subseteq t.scopes
  /\ gw.server.validates => IssuedFor(t, CanonicalResource(gw.server.url))

NothingLearned ==
  gw.auth =>
    /\ mine => EndpointTakes(TokenClaims[BearerToken(request.credential)])
    /\ page \notin {"form", "sending"}
    /\ Answered /\ Authenticate(gw.gate, request.credential).principal = Nobody =>
         /\ ~mine /\ ~answer.id
         /\ \A rec \in Others : answer.code \in {HeaderRefusal(gw, request), "too_many_uploads",
                                                  SlotRefusal(gw, request, rec)}

----------------------------------------------------------------------------
(* What was declared and accepted is kept to by both sides.                *)

Within(limit, size) == limit = None \/ size <= limit

(* The type the file goes by: a description with a type settles it, else   *)
(* the file's own, else the declared one.                                  *)
GoesBy ==
  IF from = "client" THEN OrType(target[1].header, OrType(file.type, OrType(decl.mime, OctetStream)))
                     ELSE OrType(file.type, OctetStream)

(* The file as declared, and within the destination's limits.              *)
AsDeclared ==
  LET d == Declared(decl) IN
  /\ Within(Dest.max, file.size) /\ Within(d.max, file.size)
  /\ d.size \in {None, file.size}
  /\ d.digest \in {"none", file.content}
  /\ SplitMediaType(GoesBy) /\ Allows(Dest.accept, GoesBy) /\ Allows(d.accept, GoesBy)
  /\ from = "client" /\ d.raw => ParseContentType(GoesBy) # UrlEncoded /\ GoesBy.top # "multipart"

MayUpload ==
  gw.auth => LET p == Authenticate(gw.gate, request.credential).principal
             IN p # Nobody /\ decl.owner \in {Nobody, p}

(* Whoever sends, by the described request or the page's form, the file    *)
(* that was declared, is not refused for the file, its headers or its      *)
(* token, whatever else may fail, the destination and the gateway's own    *)
(* calls; and what completes, from anyone, is reported as it was sent and  *)
(* is inside the destination's limits and the declaration's, although the  *)
(* record went through the store (gateway.py:373, 693, 1372;               *)
(* tickets.py:182; sep2631.py:225; client.py:173).                         *)
PromisesKept ==
  Answered =>
    /\ from \in {"client", "page"} /\ Present(record) /\ AsDeclared /\ MayUpload =>
         answer.code \in {"completed", "too_many_uploads", "ticket_used", "ticket_expired",
                          "upstream_rejected", "server_error"}
    /\ LET d == Declared(decl) IN
       \A o \in ToSet(answer.file) :
         /\ Within(Dest.max, o.size) /\ Within(d.max, o.size) /\ d.size \in {None, o.size}
         /\ d.digest \in {"none", o.digest}
         /\ Allows(Dest.accept, o.type) /\ Allows(d.accept, o.type)
         /\ o.size = request.body.size /\ o.digest = request.body.content

----------------------------------------------------------------------------
(* Which file names are plain.                                             *)
PlainName(name) ==
  /\ name \notin {<<>>, <<".">>, <<".", ".">>}
  /\ ToSet(name) \cap (Separators \cup {"i"}) = {}
  /\ Bytes(name) <= NameLimit

(* What a quoted string of a header says.                                  *)
Unquoted(text) ==
  LET step(acc, c) == IF c = "\\" /\ ~acc.escaped THEN [acc EXCEPT !.escaped = TRUE]
                      ELSE IF c = "\"" /\ ~acc.escaped THEN [acc EXCEPT !.said = Append(@, "end")]
                      ELSE [escaped |-> FALSE, said |-> Append(acc.said, c)]
      upTo[i \in 0..Len(text)] == IF i = 0 THEN [escaped |-> FALSE, said |-> <<>>]
                                            ELSE step(upTo[i - 1], text[i])
  IN upTo[Len(text)].said

(* The backend is told the name it is recorded under, in its URL as one    *)
(* segment at most and in a part's header as it is, and the type.          *)
BackendTold(o) ==
  LET u == Upstream(Dest, <<"a">>, o.name, o.type)
      slashes(path) == Occurrences(path, Separators)
  IN /\ slashes(u.url) = slashes(Dest.url)
     /\ o.type \in {u.header} \cup {part.type : part \in ToSet(u.part)}
     /\ \A part \in ToSet(u.part) : Unquoted(part.name) = o.name

(* What completes goes by a plain name, however it was named by whoever    *)
(* sent it, here and at the backend, although the outcome went through the *)
(* store (gateway.py:1496, 1372).                                          *)
NamedPlainly ==
  Answered => \A o \in ToSet(answer.file) : PlainName(o.name) /\ BackendTold(o)

----------------------------------------------------------------------------
(* The telemetry counts no request twice, and none as what it was not      *)
(* answered, unless the handler raised; and a ticket recorded as completed *)
(* or failed by its request was counted as just that, whatever was         *)
(* answered.  What escapes the count is a spent ticket whose record stays  *)
(* redeemed (gateway.py:964, telemetry.py:13, where a refusal and an       *)
(* upload's end are counted in two places, and gateway.py:726-734, where   *)
(* an upload is counted before its end is stored).                         *)
CountedOnce ==
  Answered =>
    /\ Len(counts) <= 1
    /\ answer.code # "server_error" => counts = <<answer.code>> \/ (~mine /\ counts = <<>>)
    /\ mine /\ record.status # "redeemed" =>
         counts # <<>> /\ (record.status = "completed" <=> counts = <<"completed">>)

----------------------------------------------------------------------------
(* A client is reset for bytes of its body that were left unread only      *)
(* where the drain read all it may, or stopped (it was too slow, or the    *)
(* server gave the drain something else to read), or the handler raised,   *)
(* and the drain reads no more than its limit and the message that passes  *)
(* it (gateway.py:583, 1480); and a person is invited to try again only by *)
(* an upload that did not spend the ticket, and told of a completed upload *)
(* only by one that was (page.py's script).                                *)
AnswerHeard ==
  /\ heard = "reset" => stopped \/ drained > DrainLimit \/ answer.code = "server_error"
  /\ drained # None => drained <= DrainLimit + MaxMessage
  /\ page = "again" /\ from = "page" => ~mine
  /\ page = "done" /\ from = "page" => mine /\ record.status = "completed"
=============================================================================
