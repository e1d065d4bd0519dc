--------------------------- MODULE MCConversation ---------------------------
(***************************************************************************)
(* Gateways, destinations, declarations, files, tokens and odd requests    *)
(* for TLC.                                                                *)
(***************************************************************************)
EXTENDS ConversationProperties

Plain == MediaType("text", "plain")
Csv == MediaType("text", "csv")
Png == MediaType("image", "png")
Text == MediaType("text", "*")
WithCharset == [Plain EXCEPT !.rest = "params"]
Malformed == [Plain EXCEPT !.rest = "malformed"]
Mixed == MediaType("multipart", "mixed")

Alice == <<"app", "here", "alice">>
Bob == <<"app", "here", "bob">>
ThePrincipals == {Alice, Bob}

ASink == [accept |-> {}, max |-> None, sink |-> TRUE, encoding |-> "raw", url |-> <<>>]
AnUpstream == [ASink EXCEPT !.sink = FALSE, !.url = <<"/", "{id}", "/", "{filename}">>]
TheRegistry == [notes |-> [AnUpstream EXCEPT !.accept = {Text}, !.max = 2, !.encoding = "multipart"],
                any |-> ASink,
                plain |-> [AnUpstream EXCEPT !.accept = {Plain}, !.max = 3]]

Here == [names |-> "here", spelt |-> "with a slash"]
Settings == [scopes |-> {"upload"}, validates |-> TRUE, url |-> Here]
Provider == [scopes |-> {}, validates |-> FALSE, url |-> NoResource]

Open == [scopes |-> {}, resource |-> NoResource]
AGateway == [auth |-> FALSE, gate |-> Open, server |-> Provider, ticketInUrl |-> TRUE, raw |-> FALSE,
             slots |-> 1, store |-> "memory", decides |-> FALSE]
TheGateways ==
  {AGateway, [AGateway EXCEPT !.raw = TRUE, !.decides = TRUE, !.store = "redis"],
   [AGateway EXCEPT !.auth = TRUE, !.store = "sqlite", !.server = Settings,
                    !.gate = McpAuthenticator(Settings, Null, Null)],
   [AGateway EXCEPT !.auth = TRUE, !.ticketInUrl = FALSE, !.raw = TRUE, !.slots = None,
                    !.store = "redis",
                    !.gate = FastMcpAuthenticator(Provider, <<{"upload"}>>, <<Here>>)]}

AToken == [verifier |-> "accepts", fresh |-> TRUE, client |-> "app", issuer |-> "here",
           subject |-> "alice", resource |-> [names |-> "here", spelt |-> "with its port"],
           scopes |-> {"upload"}]
TheClaims ==
  [alice |-> AToken, bob |-> [AToken EXCEPT !.subject = "bob"],
   stale |-> [AToken EXCEPT !.fresh = FALSE], forged |-> [AToken EXCEPT !.verifier = "refuses"],
   odd |-> [AToken EXCEPT !.verifier = "raises"],
   elsewhere |-> [AToken EXCEPT !.resource = [names |-> "there", spelt |-> "plainly"]],
   unbound |-> [AToken EXCEPT !.resource.names = "none"],
   narrow |-> [AToken EXCEPT !.scopes = {}], anonymous |-> [AToken EXCEPT !.client = "none"]]
TheCredentials ==
  {NoCredential, [scheme |-> "basic", token |-> "alice"]}
    \cup {[scheme |-> "bearer", token |-> t] : t \in DOMAIN TheClaims}

Empty == [by |-> "authorize", destination |-> "none", owner |-> Alice, mime |-> NoType,
          accept |-> {}, max |-> None, size |-> None, digest |-> "none", ttl |-> "default",
          raw |-> FALSE]
Full == [Empty EXCEPT !.mime = WithCharset, !.size = 2, !.digest = "ab"]
Tool == [Empty EXCEPT !.by = "tool", !.destination = "notes"]
TheDeclarations ==
  {Empty, Full, [Full EXCEPT !.destination = "any", !.size = 3],
   [Full EXCEPT !.size = 0], [Full EXCEPT !.size = 3], [Full EXCEPT !.size = -2],
   [Full EXCEPT !.digest = "md5"], [Full EXCEPT !.mime = Malformed], [Full EXCEPT !.mime = Text],
   [Full EXCEPT !.mime = Png], [Empty EXCEPT !.destination = "hidden"]}
    \cup {Tool, [Tool EXCEPT !.destination = "gone"], [Tool EXCEPT !.ttl = "past retention"],
          [Tool EXCEPT !.accept = {Csv, Text}, !.max = 0], [Tool EXCEPT !.accept = {AnyType}],
          [Tool EXCEPT !.accept = {Plain}, !.max = 3, !.owner = Nobody],
          [Tool EXCEPT !.destination = "plain", !.accept = {WithCharset, Plain}],
          [Tool EXCEPT !.accept = {Png}], [Tool EXCEPT !.accept = {Csv}, !.mime = Plain],
          [Tool EXCEPT !.accept = {WithCharset}, !.raw = TRUE],
          [Tool EXCEPT !.mime = Malformed, !.raw = TRUE],
          [Tool EXCEPT !.destination = "any", !.raw = TRUE, !.mime = Mixed],
          [Tool EXCEPT !.raw = TRUE, !.mime = WithCharset, !.size = 2, !.digest = "ab"],
          [Tool EXCEPT !.destination = "any", !.raw = TRUE, !.accept = {Csv}, !.size = 3]}

AFile == [name |-> <<"a">>, type |-> Plain, size |-> 2, content |-> "ab"]
TheFiles == {AFile, [AFile EXCEPT !.size = 3, !.type = NoType], [AFile EXCEPT !.size = 0, !.content = ""],
             [AFile EXCEPT !.content = "ba", !.type = Csv, !.name = <<".", ".", "/", ".", ".">>],
             [AFile EXCEPT !.type = Malformed, !.name = <<"/", "i", ".", "i", ".", " ", "/">>],
             [AFile EXCEPT !.type = NoType, !.name = <<"a", "w", "w", "w", "w", ".", "w">>],
             [AFile EXCEPT !.name = <<"a", "\"", "/", "\"", " ", "w">>]}

Bearer(t) == [scheme |-> "bearer", token |-> t]
TheClients == [file : TheFiles, credential : {Bearer("alice")}]
                \cup [file : {AFile}, credential : {NoCredential, Bearer("bob")}]

AForm == FormRequest(AFile, WithCharset, Bearer("alice"), <<"html", "any">>)
AnEmptyForm == FormRequest([AFile EXCEPT !.size = 0, !.content = ""], WithCharset, Bearer("alice"),
                           <<"html", "any">>)
ARaw == SendFile([method |-> "PUT", header |-> NoType, mime |-> NoType], AFile, Bearer("alice"))
TheStrays ==
  {AForm} \cup {[AnEmptyForm EXCEPT !.credential = c] : c \in TheCredentials}
    \cup {[AnEmptyForm EXCEPT !.named = FALSE, !.credential = c] :
             c \in {NoCredential, Bearer("alice"), Bearer("narrow"), Bearer("unbound")}}
    \cup {[AForm EXCEPT !.boundary = "none", !.accepts = <<"json", "html">>], [AForm EXCEPT !.boundary = "not ascii"],
          [AForm EXCEPT !.length = None, !.body.size = 5], [AForm EXCEPT !.length = 9],
          [AForm EXCEPT !.type = Png], [AForm EXCEPT !.type = UrlEncoded],
          [AForm EXCEPT !.body.given = "no part"], [AForm EXCEPT !.body.given = "empty"],
          [AForm EXCEPT !.body.name = <<"\\", ".", "/", ".", ".", "\\">>]}
    \cup {ARaw, [ARaw EXCEPT !.length = 3, !.body.size = 3],
          [ARaw EXCEPT !.disposition = NoDisposition, !.query = <<".", "i", ".">>],
          [ARaw EXCEPT !.disposition.charset = "unknown", !.type = NoType]}
=============================================================================
