---------------------------- MODULE Conversation ----------------------------
(***************************************************************************)
(* One ticket from its declaration to what the client is told: it is       *)
(* issued and described, a page may be opened, requests are sent, judged,  *)
(* streamed, answered and drained (gateway.py: handle, _ingest,            *)
(* _ingest_in_slot, _drain; telemetry.py; page.py's script).  Meanwhile    *)
(* the ticket may expire, be spent by somebody else, or be swept.  The     *)
(* requests are the ones the described client makes, the browser's form,   *)
(* and any others in Strays.                                               *)
(***************************************************************************)
EXTENDS Declaration

CONSTANTS
  Gateways,       \* how the gateway may have been built
  Declarations,
  Files,          \* what people have to send
  Clients,        \* the programs that send, as [file, credential]
  Strays,         \* requests that follow no description
  DrainLimit,     \* _drain's limit
  MaxMessage,     \* the most one read of a request body returns
  MaxRequests     \* bound on the requests sent

ASSUME ConversationAssumption ==
  /\ \A gw \in Gateways : MayBuild(gw) /\ gw.store \in Kinds
  /\ \A d \in Declarations : IsDeclaration(d)
  /\ \A f \in Files \cup {c.file : c \in Clients} \cup {req.body : req \in Strays} :
       f.name \in Seq(STRING) /\ f.size \in Nat /\ IsMediaType(f.type) /\ f.content # "none"
  /\ \A req \in Strays :
       /\ IsMediaType(req.type)
       /\ {req.query, req.disposition.extended, req.disposition.plain} \subseteq Seq(STRING)
  /\ \A sender \in Clients \cup Strays :
       BearerToken(sender.credential) \in {"none"} \cup DOMAIN TokenClaims
  /\ MaxMessage \in Nat \ {0} /\ DrainLimit \in Nat /\ MaxRequests \in Nat

VARIABLES
  gw, decl,
  at,        \* declaring, refused, ready, sent, judged, streaming, answered
  record,
  target,    \* what was described
  page,      \* what the person's browser shows: none, form, sending, again, done, failed
  request,
  from,      \* who sends it: client, page, stray
  file,      \* what they mean to send
  read,      \* the record as the handler looked it up
  mine,      \* whether this request spent the ticket
  answer,
  left,      \* the body's bytes the handler did not read
  drained,   \* how many the drain has read, or None where it does not run
  heard,     \* nothing, answer, reset
  stopped,   \* whether the drain stopped although there was more, see Drain
  counts,    \* history: what the telemetry counted for this request
  sent       \* how many requests were sent

vars == <<gw, decl, at, record, target, page, request, from, file, read, mine, answer, left,
          drained, heard, stopped, counts, sent>>
ticket == <<gw, decl, record, target>>
asked == <<request, from, file, sent>>
wire == <<left, drained, heard, stopped>>

NoRequest == [named |-> FALSE]
AbsentRecord == [status |-> "absent", owner |-> Nobody, expired |-> FALSE,
                 destination |-> "none", max |-> None, accept |-> {}, size |-> None,
                 digest |-> "none"]

Init ==
  /\ gw \in Gateways
  /\ decl \in Declarations
  /\ at = "declaring"
  /\ record = AbsentRecord /\ read = AbsentRecord
  /\ target = <<>> /\ page = "none"
  /\ request = NoRequest /\ from = "none" /\ file = <<>> /\ sent = 0
  /\ mine = FALSE /\ answer = NoAnswer /\ counts = <<>>
  /\ left = 0 /\ drained = None /\ heard = "nothing" /\ stopped = FALSE

(* A declaration is refused, or a ticket issued for it and described.  A   *)
(* tool's ticket exists even where its description is then refused.        *)
Declare ==
  LET refused == DeclarationError(gw, decl)
      d == Declared(decl)
      rec == IssuedRecord(d)
      undescribed == DescribeError(gw, rec, d.raw, d.mime)
  IN /\ at = "declaring"
     /\ record' = IF refused = "none" THEN Kept(gw.store, rec) ELSE AbsentRecord
     /\ IF refused = "none" /\ undescribed = "none"
          THEN at' = "ready" /\ target' = <<Target(gw, rec, d)>>
          ELSE at' = "refused" /\ UNCHANGED target
     /\ UNCHANGED <<gw, decl, page, read, mine, answer, counts>> /\ UNCHANGED <<asked, wire>>

(* A GET of the link.                                                      *)
GetRequest == [method |-> "GET", named |-> TRUE, credential |-> NoCredential, accepts |-> <<"html">>]

OpenPage ==
  LET shown == RenderForm(gw, GetRequest, record) IN
  /\ at = "ready" /\ page = "none"
  /\ page' = IF shown.code = "form" THEN "form" ELSE "failed"
  /\ UNCHANGED <<at, read, mine, answer, counts>> /\ UNCHANGED <<ticket, asked, wire>>

MaySend == at = "ready" /\ sent < MaxRequests
Send(who, f, req) ==
  /\ at' = "sent" /\ request' = req /\ from' = who /\ file' = f /\ sent' = sent + 1
  /\ UNCHANGED <<read, mine, answer, counts>> /\ UNCHANGED <<ticket, wire>>

ClientSends ==
  /\ MaySend
  /\ \E c \in Clients :
       Send("client", c.file, SendFile(target[1], c.file, IF target[1].bearer THEN c.credential
                                                                           ELSE NoCredential))
  /\ UNCHANGED page

PersonSubmits ==
  /\ MaySend
  /\ page \in {"form", "again"}
  /\ \E f \in Files, scripted \in BOOLEAN :
       /\ page = "again" => scripted
       /\ Send("page", f, IF scripted THEN ScriptForm(f) ELSE PageForm(f))
  /\ page' = "sending"

(* The route takes a PUT only where raw uploads are enabled.               *)
StraySends ==
  /\ MaySend
  /\ \E req \in Strays : /\ req.method = "PUT" => gw.raw
                         /\ Send("stray", <<>>, req)
  /\ UNCHANGED page

BodyLength == request.body.size + (IF ParseContentType(request.type) = FormData THEN Envelope ELSE 0)

(* The answer is sent with n of the body read; whatever is left of a body  *)
(* not read to its end is drained afterwards.                              *)
Mutant_Respond(response, n, ended) ==
  /\ at' = "answered"
  /\ answer' = response
  /\ left' = BodyLength - n
  /\ drained' = IF at = "streaming" THEN None ELSE 0
  /\ UNCHANGED <<heard, stopped>>
Respond(response, n, ended) ==
  /\ at' = "answered"
  /\ answer' = response
  /\ left' = BodyLength - n
  /\ drained' = IF ended THEN None ELSE 0
  /\ UNCHANGED <<heard, stopped>>

Refuse(rec, code) ==
  LET known == Present(rec) IN
  /\ Respond(ErrorResponse(gw, request, known, code), 0, FALSE)
  /\ counts' = IF CountsRefusal(known, rec) THEN CountRefused(counts, code) ELSE counts

(* _error_response is not given the record before it was looked up and     *)
(* while nobody is authenticated.                                          *)
Unseen(code) == code \in {"auth_required", "invalid_token", "insufficient_scope", "internal"}

(* Refused by its headers, or because every slot is taken.                 *)
RefuseArrival ==
  LET code == HeaderRefusal(gw, request) IN
  /\ at = "sent"
  /\ \/ code # "none" /\ Refuse(AbsentRecord, code)
     \/ code = "none" /\ gw.slots # None /\ Refuse(AbsentRecord, "too_many_uploads")
  /\ UNCHANGED <<page, read, mine>> /\ UNCHANGED <<ticket, asked>>

(* Judged against the record as it is looked up.                           *)
Judge ==
  LET rec == LookedUp(request, record)
      code == SlotRefusal(gw, request, rec)
  IN /\ at = "sent"
     /\ HeaderRefusal(gw, request) = "none"
     /\ read' = rec
     /\ IF code = "none" THEN at' = "judged" /\ UNCHANGED <<answer, counts, wire>>
        ELSE Refuse(IF Unseen(code) THEN AbsentRecord ELSE rec, code)
     /\ UNCHANGED <<page, mine>> /\ UNCHANGED <<ticket, asked>>

(* The atomic flip.  A store that decides expiry judges it again; the      *)
(* others are given the time at which the record was judged (668, 718).    *)
Redeemable == record.status = "issued" /\ (gw.decides => ~record.expired)
Redeem ==
  /\ at = "judged"
  /\ IF Redeemable
       THEN /\ record' = [record EXCEPT !.status = "redeemed"]
            /\ mine' = TRUE /\ at' = "streaming"
            /\ UNCHANGED <<answer, counts, wire>>
       ELSE /\ Refuse(read, IF record.status = "issued" THEN "ticket_expired" ELSE "ticket_used")
            /\ UNCHANGED <<record, mine>>
  /\ UNCHANGED <<gw, decl, target, page, read>> /\ UNCHANGED asked

(* How an upload may end: as its body is judged, once enough of it is read *)
(* to see the error, or, where there was a file to hand on, because the    *)
(* destination fails it, at any time.                                      *)
Endings ==
  LET body == BodyError(IsRaw(gw, request), request, read)
  IN {body} \cup IF body.code \in {"missing_file", "unsupported_media_type"} THEN {}
                 ELSE {[code |-> "upstream_rejected", sure |-> 0]}

Said(code) == IF code = "none" THEN "completed" ELSE code
Finally(code) == [record EXCEPT !.status = IF code = "none" THEN "completed" ELSE "failed"]

(* It is counted and recorded.  `ended` is whether the body's end was read *)
(* (body_done): an epilogue may be left unread, of a completed upload too. *)
UploadEnds ==
  LET counted(code) == CountFinished(counts, Said(code))
      response(code) ==
        IF code = "none"
          THEN SuccessResponse(KeptOutcome(gw.store, Outcome(IsRaw(gw, request), request)))
          ELSE ErrorResponse(gw, request, TRUE, code)
      given(code, n, ended) ==
        /\ record' = Finally(code)
        /\ counts' = IF code # "none" /\ CountsRefusal(TRUE, record')
                       THEN CountRefused(counted(code), code) ELSE counted(code)
        /\ ended => n = BodyLength
        /\ Respond(response(code), n, ended)
  IN /\ at = "streaming"
     /\ \E e \in Endings : \E n \in e.sure..BodyLength, ended \in BOOLEAN : given(e.code, n, ended)
     /\ UNCHANGED <<gw, decl, target, page, read, mine>> /\ UNCHANGED asked

----------------------------------------------------------------------------
(* A call of the handler raises: the server answers for it, with n of the  *)
(* body read, and nothing is drained.                                      *)
ServerError == [NoAnswer EXCEPT !.code = "server_error", !.http = 500]

Raised(n) ==
  /\ at' = "answered"
  /\ answer' = ServerError
  /\ left' = BodyLength - n
  /\ drained' = None
  /\ UNCHANGED <<page, read, heard, stopped>> /\ UNCHANGED <<gw, decl, target>> /\ UNCHANGED asked

(* The store's lookup; its redemption, which may have taken effect.        *)
LookupRaises ==
  /\ at = "sent" /\ HeaderRefusal(gw, request) = "none"
  /\ gw.auth => AuthRefusal(gw, request) = "none"
  /\ Raised(0)
  /\ UNCHANGED <<record, mine, counts>>

RedeemRaises ==
  /\ at = "judged"
  /\ Raised(0)
  /\ \/ UNCHANGED <<record, mine>>
     \/ Redeemable /\ record' = [record EXCEPT !.status = "redeemed"] /\ mine' = TRUE
  /\ UNCHANGED counts

(* _forward: what raises is no UploadError, and no step after it is taken. *)
ForwardRaises ==
  /\ at = "streaming"
  /\ \E n \in 0..BodyLength : Raised(n)
  /\ UNCHANGED <<record, mine, counts>>

(* The store's finish, once the upload was counted; it may have taken      *)
(* effect.                                                                 *)
FinishRaises ==
  /\ at = "streaming"
  /\ \E e \in Endings :
       /\ \E n \in e.sure..BodyLength : Raised(n)
       /\ counts' = CountFinished(counts, Said(e.code))
       /\ record' \in {record, Finally(e.code)}
  /\ UNCHANGED mine

----------------------------------------------------------------------------
(* _drain: a message more, while the limit is not passed.  It stops when   *)
(* it is out of time, and on anything but more of the body, which is what  *)
(* receive may give from the start, for the response has been sent.        *)
Draining == at = "answered" /\ drained # None /\ ~stopped /\ left > 0 /\ drained <= DrainLimit
Drain ==
  /\ Draining
  /\ \/ /\ \E n \in 1..MaxMessage : /\ n <= left
                                     /\ left' = left - n
                                     /\ drained' = drained + n
        /\ UNCHANGED stopped
     \/ stopped' = TRUE /\ UNCHANGED <<left, drained>>
  /\ UNCHANGED <<at, page, read, mine, answer, counts, heard>> /\ UNCHANGED <<ticket, asked>>

(* What the page's script makes of what it gets; without scripts the       *)
(* answer replaces the page.                                               *)
PageAfter(what) ==
  CASE what = "answer" /\ answer.code = "completed" -> "done"
    [] what = "answer" /\ answer.code = "too_many_uploads" /\ ~WantsHtml(request) -> "again"
    [] OTHER -> "failed"

(* The client gets the answer, in the model once the drain is over, which  *)
(* changes nothing of it; or, where the connection is then closed with     *)
(* bytes of its body unread, a reset.                                      *)
ClientGets ==
  /\ at = "answered" /\ heard = "nothing" /\ ~Draining
  /\ heard' \in {"answer"} \cup (IF left > 0 THEN {"reset"} ELSE {})
  /\ page' = IF from = "page" THEN PageAfter(heard') ELSE page
  /\ UNCHANGED <<at, read, mine, answer, counts, left, drained, stopped>>
  /\ UNCHANGED <<ticket, asked>>

(* Another request may follow.                                             *)
NextRequest ==
  /\ at = "answered" /\ heard # "nothing"
  /\ at' = "ready"
  /\ request' = NoRequest /\ from' = "none" /\ file' = <<>>
  /\ mine' = FALSE /\ answer' = NoAnswer /\ counts' = <<>> /\ read' = AbsentRecord
  /\ left' = 0 /\ drained' = None /\ heard' = "nothing" /\ stopped' = FALSE
  /\ UNCHANGED <<page, sent>> /\ UNCHANGED ticket

(* What happens to the ticket meanwhile.                                   *)
Expire == record.status = "issued" /\ ~record.expired /\ record' = [record EXCEPT !.expired = TRUE]
SpentElsewhere == record.status = "issued" /\ ~record.expired
                    /\ record' = [record EXCEPT !.status = "completed"]
Swept == (record.expired \/ record.status = "completed") /\ record' = AbsentRecord

Meanwhile ==
  /\ at \in {"ready", "sent", "judged"}
  /\ Expire \/ SpentElsewhere \/ Swept
  /\ UNCHANGED <<gw, decl, target, at, page, read, mine, answer, counts>> /\ UNCHANGED <<asked, wire>>

Next == \/ Declare
        \/ OpenPage
        \/ ClientSends
        \/ PersonSubmits
        \/ StraySends
        \/ RefuseArrival
        \/ Judge
        \/ Redeem
        \/ UploadEnds
        \/ LookupRaises
        \/ RedeemRaises
        \/ ForwardRaises
        \/ FinishRaises
        \/ Drain
        \/ ClientGets
        \/ NextRequest
        \/ Meanwhile

Spec == Init /\ [][Next]_vars
=============================================================================
