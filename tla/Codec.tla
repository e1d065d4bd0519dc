-------------------------------- MODULE Codec --------------------------------
(***************************************************************************)
(* What the stores keep of a record and give back (tickets.py: dump and    *)
(* load; store.py: the row; redis_store.py: the hash).  An object is kept  *)
(* in memory, a row of a database has NULLs, and a hash has no field for   *)
(* what is not set; constraints and outcomes are JSON in both.  Deadlines  *)
(* go through a float and back, which loses nothing of a microsecond.      *)
(*                                                                         *)
(* A value that may be null is a sequence of at most one.                  *)
(***************************************************************************)
EXTENDS Media, TicketRecords

None == -1
Null == <<>>

OrNull(value, unset) == IF value = unset THEN Null ELSE <<value>>
OrUnset(nullable, unset) == IF nullable = Null THEN unset ELSE nullable[1]
Get(data, key) == IF key \in DOMAIN data THEN data[key] ELSE Null

----------------------------------------------------------------------------
(* Constraints: [max, accept, size, digest].  An accept list is never null.*)

DumpConstraints(c) ==
  [max_size |-> OrNull(c.max, None), accept |-> <<c.accept>>,
   expected_size |-> OrNull(c.size, None), expected_sha256 |-> OrNull(c.digest, "none")]

LoadConstraints(data) ==
  [max |-> OrUnset(Get(data, "max_size"), None), accept |-> OrUnset(Get(data, "accept"), {}),
   size |-> OrUnset(Get(data, "expected_size"), None),
   digest |-> OrUnset(Get(data, "expected_sha256"), "none")]

(* Outcomes: [name, type, size, digest, error].                            *)
NoOutcome == [name |-> <<>>, type |-> NoType, size |-> 0, digest |-> "none", error |-> "none"]

DumpOutcome(o) ==
  [filename |-> OrNull(o.name, <<>>), media_type |-> OrNull(o.type, NoType), size |-> <<o.size>>,
   sha256 |-> OrNull(o.digest, "none"), error |-> OrNull(o.error, "none")]

LoadOutcome(data) ==
  [name |-> OrUnset(Get(data, "filename"), <<>>), type |-> OrUnset(Get(data, "media_type"), NoType),
   size |-> OrUnset(Get(data, "size"), 0), digest |-> OrUnset(Get(data, "sha256"), "none"),
   error |-> OrUnset(Get(data, "error"), "none")]

----------------------------------------------------------------------------
(* Records.  Both ways of keeping one share their fields; a row has them   *)
(* all, a hash those that are set.                                         *)

Row(rec) ==
  [destination |-> <<rec.destination>>, constraints |-> <<DumpConstraints(rec)>>,
   status |-> <<rec.status>>, expires_at |-> <<rec.expired>>, owner |-> OrNull(rec.owner, Nobody)]

ToFields(rec) ==
  LET row == Row(rec) IN [f \in {k \in DOMAIN row : row[k] # Null} |-> row[f]]

FromFields(f) ==
  LET c == LoadConstraints(f.constraints[1]) IN
  [status |-> f.status[1], owner |-> OrUnset(Get(f, "owner"), Nobody),
   expired |-> f.expires_at[1], destination |-> f.destination[1],
   max |-> c.max, accept |-> c.accept, size |-> c.size, digest |-> c.digest]

RowToRecord(row) == FromFields(row)

(* What comes back of what went into a store of that kind.                 *)
Kinds == {"memory", "sqlite", "redis"}

Kept(kind, rec) ==
  CASE kind = "sqlite" -> RowToRecord(Row(rec))
    [] kind = "redis" -> FromFields(ToFields(rec))
    [] kind = "memory" -> rec

KeptOutcome(kind, o) == IF kind = "memory" THEN o ELSE LoadOutcome(DumpOutcome(o))
==============================================================================
