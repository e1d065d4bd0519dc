------------------------------ MODULE Admission ------------------------------
(***************************************************************************)
(* What the upload endpoint makes of one request and one record: the token *)
(* (auth.py), the headers, the record and its limits, the body as a whole, *)
(* and the response (gateway.py: _ingest and what it calls, _render_form). *)
(* The steps these take are in Conversation; the bytes are in Intake.      *)
(*                                                                         *)
(* A gateway `gw` is [auth, gate, ticketInUrl, raw, slots, store, decides],*)
(* where `gate` is what its authenticator requires: [scopes, resource].  A *)
(* record is its status, owner, whether it has expired, its destination    *)
(* and constraints; a request is [method, named, credential, type,         *)
(* boundary, length, disposition, query, accepts, body], where `named`     *)
(* says whether its path names the record, `accepts` lists what its Accept *)
(* header asks for and body is [given, name, type, size, content].         *)
(***************************************************************************)
EXTENDS Codec, Backend

CONSTANTS
  TokenClaims,     \* token -> its properties, see below
  Envelope,        \* how much a form adds to its file
  Slack            \* and how much more a declared length may be than the limit

NoResource == [names |-> "none", spelt |-> "plainly"]
NoCredential == [scheme |-> "none", token |-> "none"]

ASSUME AdmissionAssumption ==
  /\ Envelope \in Nat /\ Slack \in Nat /\ Envelope <= Slack
  /\ \A t \in DOMAIN TokenClaims : TokenClaims[t].verifier \in {"accepts", "refuses", "raises"}
  /\ \A name \in DOMAIN Registry : /\ Registry[name].max \in Int
                                     /\ \A t \in Registry[name].accept : IsMediaType(t)

FirstOf(codes) ==
  LET bad == {i \in DOMAIN codes : codes[i] # "none"}
  IN IF bad = {} THEN "none" ELSE codes[Min(bad)]

----------------------------------------------------------------------------
(* The token.  Its properties: verifier (what the verifier makes of it:    *)
(* accepts, refuses, raises), fresh, resource, scopes, client, issuer and  *)
(* subject.                                                                *)

BearerToken(credential) == IF credential.scheme = "bearer" THEN credential.token ELSE "none"

TokenPrincipal(t) ==
  IF t.client = "none" THEN Nobody ELSE <<t.client, t.issuer, t.subject>>

(* canonical_resource: spelling aside, the resource a URL names.           *)
CanonicalResource(url) == [url EXCEPT !.spelt = "plainly"]
IssuedFor(t, resource) ==
  t.resource.names \notin {"none", "no url"} /\ CanonicalResource(t.resource) = resource

(* bearer_authenticator: a principal, Nobody, or a refusal.                *)
Authenticate(gate, credential) ==
  LET token == BearerToken(credential)
      t == TokenClaims[token]
      missing == gate.scopes \ t.scopes
      answer(refusal, principal) == [refusal |-> refusal, principal |-> principal]
  IN IF token = "none" THEN answer("none", Nobody)
     ELSE IF t.verifier = "raises" THEN answer("internal", Nobody)
     ELSE IF t.verifier = "refuses" \/ ~t.fresh THEN answer("none", Nobody)
     ELSE IF gate.resource # NoResource /\ ~IssuedFor(t, CanonicalResource(gate.resource))
       THEN answer("invalid_token", Nobody)
     ELSE IF missing # {} THEN answer("insufficient_scope", Nobody)
     ELSE answer("none", TokenPrincipal(t))

(* The adapters' authenticator: the scopes and resource it is given, each  *)
(* Null for the default, or the server's own.  FastMCP's provider has no   *)
(* resource, and NoResource given to the SDK's turns its check off.        *)
McpAuthenticator(settings, scopes, resource) ==
  [scopes |-> OrUnset(scopes, settings.scopes),
   resource |-> OrUnset(resource, IF settings.validates THEN settings.url ELSE NoResource)]
FastMcpAuthenticator(provider, scopes, resource) ==
  [scopes |-> OrUnset(scopes, provider.scopes), resource |-> OrUnset(resource, NoResource)]

(* UploadGateway.__init__, and bearer_authenticator's resource: a URL.     *)
MayBuild(gw) ==
  /\ gw.slots = None \/ gw.slots >= 1
  /\ gw.ticketInUrl \/ gw.auth
  /\ gw.auth => gw.gate.resource.names # "no url"

(* _authenticated.                                                         *)
AuthRefusal(gw, req) ==
  LET a == Authenticate(gw.gate, req.credential) IN
  IF a.refusal # "none" THEN a.refusal
  ELSE IF a.principal # Nobody THEN "none"
  ELSE IF req.credential # NoCredential THEN "invalid_token"
  ELSE "auth_required"

----------------------------------------------------------------------------
(* The headers, before the slot is taken.                                  *)

MultipartError(req) ==
  IF ParseContentType(req.type) # FormData THEN "not_multipart"
  ELSE IF req.boundary = "none" THEN "missing_boundary"
  ELSE IF req.boundary = "not ascii" THEN "bad_multipart"
  ELSE "none"

RawBodyAllowed(req) == ParseContentType(req.type) # UrlEncoded /\ req.type.top # "multipart"

IsRaw(gw, req) == MultipartError(req) = "not_multipart" /\ gw.raw /\ RawBodyAllowed(req)
HeaderRefusal(gw, req) == IF IsRaw(gw, req) THEN "none" ELSE MultipartError(req)

----------------------------------------------------------------------------
(* The record, in the slot, before the ticket is spent.                    *)

Limited(rec) == rec.max # None

LookedUp(req, rec) == IF req.named THEN rec ELSE [rec EXCEPT !.status = "absent"]

Mutant_TooLong(raw, req, rec) ==
  Limited(rec) /\ req.length # None /\ req.length > rec.max
TooLong(raw, req, rec) ==
  Limited(rec) /\ req.length # None /\ req.length > rec.max + (IF raw THEN 0 ELSE Slack)

OwnerRefusal(gw, req, rec) ==
  IF gw.auth /\ ~OwnedBy(rec, Authenticate(gw.gate, req.credential).principal, ~gw.ticketInUrl)
    THEN "forbidden" ELSE "none"

TicketRefusal(gw, rec) ==
  IF rec.status # "issued" THEN "ticket_used"
  ELSE IF rec.expired /\ ~gw.decides THEN "ticket_expired"
  ELSE "none"

(* _ingest_in_slot up to the redemption.                                   *)
Mutant_SlotRefusal(gw, req, rec) ==
  FirstOf(<<IF ~Present(rec) THEN "unknown_ticket" ELSE "none",
            IF gw.auth THEN AuthRefusal(gw, req) ELSE "none",
            OwnerRefusal(gw, req, rec),
            TicketRefusal(gw, rec),
            IF TooLong(IsRaw(gw, req), req, rec) THEN "too_large" ELSE "none",
            IF IsRaw(gw, req) THEN MediaTypeError(req.type, rec.accept) ELSE "none",
            IF ~Registered(rec.destination) THEN "misconfigured" ELSE "none">>)
SlotRefusal(gw, req, rec) ==
  FirstOf(<<IF gw.auth THEN AuthRefusal(gw, req) ELSE "none",
            IF ~Present(rec) THEN "unknown_ticket" ELSE "none",
            OwnerRefusal(gw, req, rec),
            TicketRefusal(gw, rec),
            IF TooLong(IsRaw(gw, req), req, rec) THEN "too_large" ELSE "none",
            IF IsRaw(gw, req) THEN MediaTypeError(req.type, rec.accept) ELSE "none",
            IF ~Registered(rec.destination) THEN "misconfigured" ELSE "none">>)

----------------------------------------------------------------------------
(* The body, once the ticket is spent: the part's type, then the sizes and *)
(* the digest.  `sure` is how much of it has to be read to see the error.  *)

BodyType(raw, req) == IF raw THEN req.type ELSE req.body.type

BodyError(raw, req, rec) ==
  LET size == req.body.size
      part == IF raw THEN "none"
              ELSE IF req.body.given \in {"no part", "empty"} THEN "missing_file"
              ELSE MediaTypeError(req.body.type, rec.accept)
      found(code, sure) == [code |-> code, sure |-> sure]
  IN IF part # "none" THEN found(part, 0)
     ELSE IF rec.size # None /\ size > rec.size THEN found("size_mismatch", rec.size + 1)
     ELSE IF Limited(rec) /\ size > rec.max THEN found("too_large", rec.max + 1)
     ELSE IF rec.size # None /\ size # rec.size THEN found("size_mismatch", size)
     ELSE IF rec.digest # "none" /\ req.body.content # rec.digest
       THEN found("digest_mismatch", size)
     ELSE found("none", size)

(* What a completed upload is recorded as.                                 *)
Outcome(raw, req) ==
  LET type == BodyType(raw, req) IN
  [name |-> SanitizeFilename(IF raw THEN RawName(req.disposition, req.query) ELSE req.body.name),
   type |-> IF type = NoType THEN OctetStream ELSE type,
   size |-> req.body.size, digest |-> req.body.content, error |-> "none"]

----------------------------------------------------------------------------
(* The response.                                                           *)

HttpStatus(code) ==
  CASE code = "completed" -> 200
    [] code \in {"auth_required", "invalid_token"} -> 401
    [] code \in {"insufficient_scope", "forbidden"} -> 403
    [] code = "unknown_ticket" -> 404
    [] code \in {"too_slow", "upload_timeout"} -> 408
    [] code \in {"ticket_used", "ticket_expired"} -> 410
    [] code = "too_large" -> 413
    [] code \in {"not_multipart", "unsupported_media_type"} -> 415
    [] code \in {"digest_mismatch", "size_mismatch"} -> 422
    [] code \in {"misconfigured", "internal"} -> 500
    [] code \in {"upstream_unreachable", "upstream_rejected", "upstream_closed_early",
                 "sink_failed"} -> 502
    [] code \in {"too_many_uploads", "store_full"} -> 503
    [] OTHER -> 400

NoChallenge == [error |-> "no challenge", scope |-> {}]

(* _CHALLENGES and _scope_challenge.                                       *)
Challenge(gw, code) ==
  CASE code = "auth_required" -> [error |-> "none", scope |-> {}]
    [] code = "invalid_token" -> [error |-> code, scope |-> {}]
    [] code = "insufficient_scope" -> [error |-> code, scope |-> gw.gate.scopes]
    [] OTHER -> NoChallenge

NoAnswer == [code |-> "none", http |-> 0, id |-> FALSE, challenge |-> NoChallenge,
             again |-> FALSE, file |-> <<>>]

(* _wants_html.                                                            *)
WantsHtml(req) == "html" \in ToSet(req.accepts) /\ req.accepts[1] # "json"

(* _error_response; the page it renders for a browser has no Retry-After.  *)
ErrorResponse(gw, req, known, code) ==
  [NoAnswer EXCEPT !.code = code, !.http = HttpStatus(code), !.id = known,
                   !.challenge = Challenge(gw, code),
                   !.again = code = "too_many_uploads" /\ ~WantsHtml(req)]

(* Which of those answers the telemetry counts as a refusal: one about no  *)
(* record, or about a record read as issued.                               *)
Mutant_CountsRefusal(known, rec) == TRUE
CountsRefusal(known, rec) == ~known \/ rec.status = "issued"

(* Telemetry: refused, and finished, which counts the whole upload.        *)
CountRefused(counts, code) == Append(counts, code)
CountFinished(counts, code) == Append(counts, code)

(* file_value: what is known of a file; a size always is.                  *)
FileValue(o) ==
  [f \in {"size"} \cup {k \in {"name", "type", "digest"} : o[k] # NoOutcome[k]} |-> o[f]]

SuccessResponse(outcome) ==
  [NoAnswer EXCEPT !.code = "completed", !.http = 200, !.id = TRUE, !.file = <<FileValue(outcome)>>]

(* _render_form: the page a GET is answered with.                          *)
RenderForm(gw, req, rec) ==
  LET page(code, http) == [NoAnswer EXCEPT !.code = code, !.http = http] IN
  IF gw.auth THEN [page("sign_in", 401) EXCEPT !.challenge = Challenge(gw, "auth_required")]
  ELSE IF ~Present(rec) THEN page("unknown_link", 404)
  ELSE IF rec.status # "issued" THEN page("link_used", 410)
  ELSE IF rec.expired THEN page("link_expired", 410)
  ELSE page("form", 200)
=============================================================================
