----------------------------- MODULE Declaration -----------------------------
(***************************************************************************)
(* From the declaration of a file to the request that carries it: issue    *)
(* and describe (gateway.py), files/authorizeUpload (sep2631.py),          *)
(* ask_for_upload's first round (_rounds.py), the client's send_file       *)
(* (client.py) and the browser's form (page.py).                           *)
(*                                                                         *)
(* A declaration is [by, destination, owner, mime, accept, max, size,      *)
(* digest, ttl, raw]: `by` is "authorize" or "tool".  A digest is a        *)
(* content, "none", "malformed" or "md5".                                  *)
(***************************************************************************)
EXTENDS Admission

CONSTANTS
  DefaultDestination,   \* what authorize uses when the request names none
  Offered               \* the destinations a request may name

IsDeclaration(d) ==
  /\ DOMAIN d = {"by", "destination", "owner", "mime", "accept", "max", "size", "digest", "ttl", "raw"}
  /\ {d.max, d.size} \subseteq Int /\ d.raw \in BOOLEAN
  /\ \A t \in d.accept \cup {d.mime} : IsMediaType(t)

ASSUME DeclarationAssumption ==
  DefaultDestination \in DOMAIN Registry /\ Offered \subseteq DOMAIN Registry

(* sha256_hex: whether a digest is base64url of 32 bytes; _expected_sha256 *)
(* also looks at the algorithm it is given with.                           *)
Sha256Hex(digest) == digest # "malformed"
DigestUsable(digest) == digest # "md5" /\ Sha256Hex(digest)

Least(a, b) == IF a = None \/ (b # None /\ b < a) THEN b ELSE a

(* issue: what it refuses, and the record it makes.                        *)
IssueError(gw, d) ==
  LET dest == Registry[d.destination]
      limit == Least(dest.max, d.max)
  IN IF ~Registered(d.destination) THEN "unknown_destination"
     ELSE FirstOf(<<
               IF d.max # None /\ d.max < 0 THEN "max_size" ELSE "none",
               IF ~DigestUsable(d.digest) THEN "digest" ELSE "none",
               IF d.size # None /\ (d.size < 0 \/ (limit # None /\ d.size > limit))
                 THEN "expected_size" ELSE "none",
               IF ~MayNarrow(dest.accept, d.accept) THEN "accept" ELSE "none",
               IF d.ttl \in {"not positive", "past retention"} THEN "ttl" ELSE "none",
               IF ~gw.ticketInUrl /\ d.owner = Nobody THEN "owner" ELSE "none">>)

IssuedRecord(d) ==
  LET dest == Registry[d.destination] IN
  [status |-> "issued", owner |-> d.owner, expired |-> FALSE, destination |-> d.destination,
   max |-> IF d.size # None THEN d.size ELSE Least(dest.max, d.max),
   accept |-> Narrow(dest.accept, d.accept), size |-> d.size, digest |-> d.digest]

----------------------------------------------------------------------------
(* describe: what it refuses, and the transfer it describes.               *)
DescribeType(rec, mime) == IF mime # NoType THEN mime ELSE SingleType(rec.accept)

DescribeError(gw, rec, raw, mime) ==
  LET type == DescribeType(rec, mime) IN
  IF ~raw THEN "none"
  ELSE IF ~gw.raw THEN "raw_disabled"
  ELSE IF type # NoType /\ ~Allows(rec.accept, type) THEN "type_not_accepted"
  ELSE "none"

Describe(gw, rec, raw, mime) ==
  [method |-> IF raw THEN "PUT" ELSE "POST",
   header |-> IF raw THEN DescribeType(rec, mime) ELSE NoType,
   bearer |-> gw.auth, mime |-> NoType, size |-> rec.size, digest |-> rec.digest]

----------------------------------------------------------------------------
(* check: a declaration the destination will never accept.                 *)
CheckError(d, dest) ==
  IF ~DigestUsable(d.digest) THEN "invalidDigest"
  ELSE IF d.size # None /\ d.size < 0 THEN "invalidSize"
  ELSE IF d.size # None /\ dest.max # None /\ d.size > dest.max THEN "maxSizeExceeded"
  ELSE IF d.mime # NoType /\ (~SplitMediaType(d.mime) \/ "*" \in {d.mime.top, d.mime.sub})
    THEN "invalidMimeType"
  ELSE IF d.mime # NoType /\ ~Allows(dest.accept, d.mime) THEN "mimeTypeNotAccepted"
  ELSE "none"

(* _chosen: the default, unless the request names one it is offered.       *)
Chosen(d) == IF d.destination = "none" THEN DefaultDestination ELSE d.destination
ChoiceError(d) ==
  IF Chosen(d) \notin Offered \cup {DefaultDestination} THEN "destinationNotAllowed" ELSE "none"

(* AuthorizeUpload.__call__: what it has issued for the declaration.       *)
Authorized(d) ==
  [d EXCEPT !.destination = Chosen(d), !.max = None, !.ttl = "default", !.raw = FALSE,
            !.accept = IF d.mime = NoType THEN {} ELSE {ParseContentType(d.mime)}]

AuthorizeError(gw, d) ==
  IF ChoiceError(d) # "none" THEN ChoiceError(d)
  ELSE FirstOf(<<CheckError(d, Registry[Chosen(d)]),
                 IF d.owner = Nobody /\ ~gw.ticketInUrl THEN "ownerRequired" ELSE "none",
                 IssueError(gw, Authorized(d))>>)

(* _accept_for: a tool that declares a type accepts only that, unless it   *)
(* says otherwise.                                                         *)
AcceptForError(mime, accept) ==
  IF mime # NoType /\ \/ ~SplitMediaType(mime) \/ "*" \in {mime.top, mime.sub}
                      \/ accept # {} /\ ~Allows(accept, mime)
    THEN "media_type"
    ELSE "none"

(* ask_for_upload's first round.                                           *)
Asked(d) ==
  [d EXCEPT !.accept = IF d.mime # NoType /\ @ = {} THEN {ParseContentType(d.mime)} ELSE @]

AskError(gw, d) ==
  IF AcceptForError(d.mime, d.accept) # "none" THEN "media_type" ELSE IssueError(gw, Asked(d))

DeclarationError(gw, d) == IF d.by = "authorize" THEN AuthorizeError(gw, d) ELSE AskError(gw, d)
Declared(d) == IF d.by = "authorize" THEN Authorized(d) ELSE Asked(d)

(* target_of, and the same at the end of __call__: the type is echoed.     *)
Target(gw, rec, d) == [Describe(gw, rec, d.raw, d.mime) EXCEPT !.mime = d.mime]

----------------------------------------------------------------------------
(* The request that carries a file: [name, type, size, content].  A script *)
(* and send_file ask for JSON.                                             *)

Body(file, type) == [given |-> "named", name |-> file.name, type |-> type, size |-> file.size,
                     content |-> file.content]

FormRequest(file, type, credential, accepts) ==
  [method |-> "POST", named |-> TRUE, credential |-> credential, type |-> FormData,
   boundary |-> "given", length |-> file.size + Envelope, disposition |-> NoDisposition,
   query |-> <<>>, accepts |-> accepts, body |-> Body(file, type)]

OrType(a, b) == IF a # NoType THEN a ELSE b

(* send_file: a form, or the bytes with their type and name in headers and *)
(* no length.  The descriptor's type goes before the file's.               *)
SendFile(target, file, credential) ==
  LET type == OrType(OrType(file.type, target.mime), OctetStream)
      form == FormRequest(file, type, credential, <<"json">>)
  IN IF target.method = "POST" THEN form
     ELSE [form EXCEPT !.method = "PUT", !.length = None, !.boundary = "none",
                       !.type = OrType(target.header, type),
                       !.disposition = [NoDisposition EXCEPT !.extended = file.name,
                                                            !.charset = "clean"]]

(* The form of the page, sent by the browser itself or by its script.      *)
PageForm(file) ==
  FormRequest(file, OrType(file.type, OctetStream), NoCredential, <<"html", "any">>)
ScriptForm(file) == [PageForm(file) EXCEPT !.accepts = <<"json">>]
=============================================================================
