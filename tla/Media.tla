-------------------------------- MODULE Media --------------------------------
(***************************************************************************)
(* Media types, accept lists and file names: what multipart.py, tickets.py *)
(* and gateway.py read out of a header, as operators on parsed values.     *)
(*                                                                         *)
(* A declared type is [top, sub, rest]: rest says whether parameters       *)
(* follow, well-formed ("params") or not ("malformed").  Case is folded    *)
(* by the code wherever it compares, so types are in lower case here.      *)
(* A name is a sequence of characters: "/" and "\\" separate, "." is a     *)
(* dot, "i" is invisible, "w" takes two bytes, the others one.             *)
(***************************************************************************)
EXTENDS Integers, SequencesExt

CONSTANTS
  NameLimit,       \* 255, the bytes of a file name
  ExtensionLimit   \* 16, the bytes of an extension worth keeping

ASSUME MediaAssumption ==
  {NameLimit, ExtensionLimit} \subseteq Nat /\ ExtensionLimit + 2 < NameLimit /\ 6 <= NameLimit

MediaType(top, sub) == [top |-> top, sub |-> sub, rest |-> "none"]
IsMediaType(t) ==
  t = [top |-> t.top, sub |-> t.sub, rest |-> t.rest] /\ t.rest \in {"none", "params", "malformed"}
NoType == MediaType("", "")
AnyType == MediaType("*", "*")
OctetStream == MediaType("application", "octet-stream")
FormData == MediaType("multipart", "form-data")
UrlEncoded == MediaType("application", "x-www-form-urlencoded")

(* parse_content_type: the type whatever its parameters look like.         *)
ParseContentType(t) == [t EXCEPT !.rest = "none"]

(* split_media_type: whether a declared type follows the strict grammar.   *)
SplitMediaType(t) == t.top # "" /\ t.sub # "" /\ t.rest # "malformed"

(* Constraints.allows: patterns are exact types or type/x, without         *)
(* parameters, which no declared type is compared with.                    *)
Allows(accept, t) ==
  \/ accept = {}
  \/ /\ t # NoType
     /\ \E p \in accept : /\ p.rest = "none"
                          /\ \/ p = AnyType
                             \/ p = ParseContentType(t)
                             \/ p.sub = "*" /\ p.top = t.top

(* _narrow: a pattern of the ticket's has to lie inside the destination's  *)
(* list.                                                                   *)
Inside(allowed, p) ==
  IF p.sub = "*" /\ p.rest = "none" THEN AnyType \in allowed \/ p \in allowed
                                    ELSE Allows(allowed, p)

MayNarrow(allowed, requested) == allowed = {} \/ \A p \in requested : Inside(allowed, p)
Narrow(allowed, requested) == IF requested = {} THEN allowed ELSE requested

(* _single_type: the one type an accept list names, if it does.            *)
SingleType(accept) ==
  IF \E p \in accept : accept = {p} /\ p.top # "*" /\ p.sub # "*"
    THEN CHOOSE p \in accept : TRUE
    ELSE NoType

(* _checked_media_type.                                                    *)
MediaTypeError(t, accept) ==
  LET declared == IF t = NoType THEN OctetStream ELSE t IN
  IF ~SplitMediaType(declared) THEN "invalid_media_type"
  ELSE IF ~Allows(accept, declared) THEN "unsupported_media_type"
  ELSE "none"

----------------------------------------------------------------------------
(* filename_from_disposition.  The extended form wins when its charset is  *)
(* known and it decodes ("clean"), even to an empty name.                  *)
NoDisposition == [extended |-> <<>>, charset |-> "none", plain |-> <<>>]

FilenameFromDisposition(d) ==
  IF d.charset = "clean" THEN d.extended ELSE d.plain

DefaultName == <<"upload">>

Or(name, other) == IF name # <<>> THEN name ELSE other

(* _raw_file: the name of a raw upload.                                    *)
RawName(disposition, query) == Or(FilenameFromDisposition(disposition), Or(query, DefaultName))

Occurrences(name, C) == Cardinality({i \in DOMAIN name : name[i] \in C})
Bytes(name) == Len(name) + Occurrences(name, {"w"})

(* The longest prefix within `room` bytes, cut between characters.         *)
Cut(name, room) ==
  SubSeq(name, 1, Max({n \in 0..Len(name) : Bytes(SubSeq(name, 1, n)) <= room}))

(* _fit.                                                                   *)
Mutant_Fit(name) == SubSeq(name, 1, Min({NameLimit, Len(name)}))
Fit(name) ==
  LET dots == {i \in 2..Len(name) : name[i] = "."}
      tail == IF dots = {} THEN <<>> ELSE SubSeq(name, Max(dots), Len(name))
      suffix == IF tail # <<>> /\ Bytes(tail) - 1 <= ExtensionLimit THEN tail ELSE <<>>
      stem == SubSeq(name, 1, Len(name) - Len(suffix))
  IN IF Bytes(name) <= NameLimit THEN name ELSE Cut(stem, NameLimit - Bytes(suffix)) \o suffix

Separators == {"/", "\\"}

(* PurePosixPath.name: the last component, once empty ones and single dots *)
(* are dropped.                                                            *)
ComponentAt(name, i) ==
  SubSeq(name, i, Min({j \in i..(Len(name) + 1) : j > Len(name) \/ name[j] \in Separators}) - 1)
LastComponent(name) ==
  LET starts == {i \in DOMAIN name : /\ i = 1 \/ name[i - 1] \in Separators
                                     /\ ComponentAt(name, i) \notin {<<>>, <<".">>}}
  IN IF starts = {} THEN <<>> ELSE ComponentAt(name, Max(starts))

(* str.strip.                                                              *)
Strip(name) ==
  LET solid == {i \in DOMAIN name : name[i] # " "}
  IN IF solid = {} THEN <<>> ELSE SubSeq(name, Min(solid), Max(solid))

Printable(name) ==
  FlattenSeq([i \in DOMAIN name |-> IF name[i] = "i" THEN <<>> ELSE <<name[i]>>])

(* sanitize_filename.                                                      *)
SanitizeFilename(name) ==
  LET base == Strip(LastComponent(Printable(name)))
  IN IF base \in {<<>>, <<".">>, <<".", ".">>} THEN DefaultName ELSE Fit(base)
=============================================================================
