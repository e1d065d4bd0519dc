------------------------------- MODULE Backend -------------------------------
(***************************************************************************)
(* Destinations, and what an HTTP backend is sent about a file             *)
(* (destinations.py; gateway.py: _upstream).                               *)
(*                                                                         *)
(* A destination is [accept, max, sink, encoding, url]: its url is a       *)
(* sequence of characters and the fields "{id}" and "{filename}", empty    *)
(* where it has none.                                                      *)
(***************************************************************************)
EXTENDS Media

CONSTANT Registry   \* name -> destination

(* Destination.__post_init__: exactly one of url and sink.                 *)
MayBuildDestination(dest) == (dest.url = <<>>) = dest.sink

ASSUME RegistryAssumption ==
  \A name \in DOMAIN Registry :
    MayBuildDestination(Registry[name]) /\ Registry[name].url \in Seq(STRING)

(* Registry.get.                                                           *)
Registered(name) == name \in DOMAIN Registry

(* urllib's quote with nothing safe: a character as its octets.            *)
Percent(c) ==
  CASE c = " " -> <<"%20">> [] c = "\"" -> <<"%22">> [] c = "/" -> <<"%2F">> [] c = "\\" -> <<"%5C">>
    [] c = "w" -> <<"%C3", "%A9">>
    [] OTHER -> <<c>>
Quote(name) == FlattenSeq([i \in DOMAIN name |-> Percent(name[i])])

(* Destination.build_url.                                                  *)
BuildUrl(dest, id, name) ==
  LET filled(piece) == CASE piece = "{id}" -> Quote(id)
                         [] piece = "{filename}" -> Quote(name)
                         [] OTHER -> <<piece>>
  IN FlattenSeq([i \in DOMAIN dest.url |-> filled(dest.url[i])])

(* _upstream: the file as the body, or inside a form of one part, whose    *)
(* header names it in a quoted string.                                     *)
QuotedString(name) ==
  FlattenSeq([i \in DOMAIN name |-> IF name[i] \in {"\\", "\""} THEN <<"\\", name[i]>> ELSE <<name[i]>>])

Upstream(dest, id, name, type) ==
  [url |-> BuildUrl(dest, id, name),
   header |-> IF dest.encoding = "multipart" THEN FormData ELSE type,
   part |-> IF dest.encoding = "multipart" THEN <<[name |-> QuotedString(name), type |-> type]>>
                                           ELSE <<>>]
==============================================================================
