# mcp-upload in TLA+

A verification development for `mcp-upload` (source under `src/src/mcp_upload`): TLA+ modules translated
from the code, TLC configurations that check them on small instances, and theorems about them that TLAPS
proves for every value of the constants.

`mcp-upload` gives a language model's tools a way to receive files. A server *issues* a one-time ticket;
the user's browser or program sends the file to a URL that names the ticket; the gateway *redeems* the
ticket, streams the body to a *destination* (an HTTP backend or a *sink* coroutine) without storing it,
and *finishes* the record; a tool call then *claims* the upload.

## The system

| Component | Source | State | Operations | What is hard |
|---|---|---|---|---|
| Ticket records | `tickets.py` | one `Record`: status, owner, expiry, retention, times | expired, redeemed, finished, claimed | boundaries of the deadlines |
| Memory store | `store.py` `MemoryStore` | records by id, index by hash | put (with cap), get, redeem, finish, claim, sweep | no await between check and write; eviction at the cap |
| SQLite store | `store.py` `SqliteStore` | one table, a connection per thread | the same, as SQL statements | the gap between an UPDATE and the SELECT after it, BUSY, several processes |
| Redis store | `redis_store.py` | a hash per record, an index key, a memo in the process | the same, as Lua scripts | two-key put, key expiry, stale memo, server clock, legacy layout |
| Gateway, tickets and handler | `gateway.py` | `_in_flight`, the store | issue, status, resume, claim; GET form, POST/PUT upload | many requests suspended at awaits, crashes, lost replies, deadlines |
| Gateway, streaming | `gateway.py` `_forward` ... `_upstream` | a queue, `_PumpState`, a pump and a watchdog task per upload | one upload from the first chunk to the verdict | three coroutines and two outside parties, cancellation |
| Filesystem sink | `sinks.py` | a temporary file, one thread operation in flight | write, seal, commit, discard | cancellation while a thread works, name collisions |
| Gateway, reading a body | `multipart.py` `Framer`; `gateway.py` `_MultipartBody`, `_RawBody`, `_FileTarget`, `_Meter`, `_watch` | bytes carried over between reads, sizes, the window of the stall meter | feed, end, verify; one tick of the watchdog | a delimiter or a head cut at any place, limits met in the middle of a read, whose time a wait is |
| Gateway, requests and answers | `gateway.py`, `multipart.py`, `page.py` | what was declared, the record, the connection | issue, describe, GET form, the checks of a request, the response, drain | the order of the refusals, promises judged twice, an answer before the body is read |
| Headless rounds, SEP-2631 tools | `adapters/_rounds.py`, `adapters/sep2631.py`, `resolve.py` | the state a client sends back | ask, retry, resolve a file URI | status read, then resume or claim |
| Authenticators, framework adapters | `auth.py`, `adapters/mcp.py`, `adapters/fastmcp.py` | none | one token to a principal or a refusal | being no looser than the MCP endpoint |
| Destinations, telemetry, client | `destinations.py`, `telemetry.py`, `client.py` | a registry, counters | the request to a backend, counts, sending a file | a name inside a URL and a header, what is counted where |
| Stress harness | `stress/` | | | test code, not part of the package |

The gateway calls the store (awaits), the authenticator (await), the destination (await) and the completion
hook (after the response). Requests share the store and, within one process, `_in_flight`. Within one
upload, the pump, the watchdog and the handler share the queue and `_PumpState`. Everything in one process
runs on one event loop, so **the atomic steps are the stretches between two awaits**; that is what one
action is throughout. Processes share only the store.

What makes it correct: a ticket is spent once; an answer and the record agree; deadlines mean what they
say; records outlive the uploads they describe; slots come back; the destination never takes a failed
upload for a finished one; what a body is does not depend on how it was cut into reads; clients pay only
for their own slowness; what was declared is what is enforced; a request without a token learns nothing;
nobody waits for ever.

## The modules

| Module | Models |
|---|---|
| `TicketRecords` | the record and the questions asked of one: pure operators |
| `MemoryStore` (EXTENDS it) | the store's operations, each atomic, as actions on `store` |
| `Gateway` (EXTENDS that) | issuing, the upload handler, claims, crashes, store failures, the clock |
| `GatewayProperties` | the gateway's properties, and its refinement mapping |
| `TicketContract` | abstract: the life of a ticket as the package promises it, no clock and no store |
| `GatewayProofs` | theorems about the gateway: single use and time; what it answers and reports; its slots and the refinement of `TicketContract` |
| `Streaming` | one upload through `_forward`: pump, watchdog, handler, destination |
| `StreamingProperties` | its properties, and its refinement mapping |
| `StreamContract` | abstract: an ordered pipe that ends whole or breaks |
| `StreamingProofs` | theorems about the forwarding |
| `SqliteStore` (EXTENDS `MemoryStore`) | the store in a file, one action per SQL statement |
| `SqliteStoreProofs` | theorems about it |
| `RedisStore` (EXTENDS `TicketRecords`) | the store in Redis, one action per round trip |
| `RedisStoreProofs` | theorems about it |
| `FileSink` | the sink that writes into a directory: coroutine, thread pool, disk |
| `FileSinkProofs` | theorems about it |
| `Rounds` (INSTANCEs `TicketContract`) | agents, people and tools around a ticket |
| `RoundsProofs` | theorems about them |
| `Framer` | the framing of a form body: pure operators over bytes |
| `FilePart` (EXTENDS it) | a body while it is read: head, file part, sizes, digest; pure operators on a record |
| `Intake` (EXTENDS that) | the pump and the watchdog of one upload, with reads and time |
| `IntakeProofs` | theorems about it |
| `Media` | media types, accept lists, filenames: pure operators |
| `Codec` (EXTENDS `Media`, `TicketRecords`) | what the stores keep of a record and give back |
| `Backend` (EXTENDS `Media`) | destinations and what an HTTP backend is sent |
| `Admission` (EXTENDS both) | tokens, headers, the refusals of one request in their order, the response |
| `Declaration` (EXTENDS that) | what is declared and described, by a tool or by `files/authorizeUpload`, and the requests that follow a description |
| `Conversation` (EXTENDS that) | one ticket from its declaration to what the clients heard |
| `ConversationProofs` | theorems about it |
| `SqliteStoreProperties`, `RedisStoreProperties`, `FileSinkProperties`, `RoundsProperties`, `IntakeProperties`, `ConversationProperties` | what each of them owes, with the refinement mappings of the stores |
| `MC...` | instances for TLC |

How they compose: `Gateway` runs on the atomic store of `MemoryStore` and implements `TicketContract`.
`SqliteStore` and `RedisStore`, whose calls are several steps, implement the same `TicketContract`, so a
gateway that relies on no more than the contract may use any of the three. `Rounds` is built on the
contract. `Streaming` details the one step `EndForward` of `Gateway`; `FileSink` details a sink, which
`Streaming` lets do anything; `Intake` details its pump and its watchdog, which there may fail or fire at any
time. `Conversation` details what `Gateway` calls `unfit` and any principal, one request at a time, on a
store that keeps records through `Codec`.

`Mutant_X` operators are bugs `X` could have. No specification uses them; they record which mistake each
property was seen to catch.

### Gateway and the code

`pc[r]` is the await request `r` is suspended at; an action is what the coroutine does from there to the
next one.

| Action | Code | Notes |
|---|---|---|
| `Issue` | `issue` | constructor and argument checks are the constants' assumptions; `StoreFull` changes nothing |
| `Arrive` | `_ingest` to its first await | header checks, then the slot |
| `Authenticate` | `_authenticated`, then `now = self._clock()` | any principal or a refusal; nothing bounds the wait for it |
| `Lookup` | `get`/`get_by_hash` and all checks before `redeem` | length, raw type and destination checks are the one refusal `unfit` |
| `RedeemTicket` | `store.redeem` | judges expiry by `now[r]`, or by the clock if the store decides (`server_clock`) |
| `EndForward`, `ForwardRaises` | `_forward` returns, or an exception leaves it | detailed in `Streaming` |
| `Drag` | `self._http.request` | the backend sends its response bit by bit: `Destination.timeout` bounds each read, not their sum |
| `FinishRecord`, `NotifyHook` | `store.finish` and the response, then `on_complete` | |
| `StoreRaises` | a store call raises, before or after it took effect | the `finally` of `_ingest` |
| `BeginClaim`, `EndClaim` | `claim`: `get`, visibility, then `store.claim` | `resolve_file` goes through it |
| `SweepStore`, `Crash`, `Tick` | the operator's sweep, a killed process, time | `Tick` stops while an await would outlive its limit, where it has one (`WithinLimits`) |

A ticket's secret, hash and id are one name, because they are drawn together and never reused. `redeemers`
and `hooked` are history variables.

### Streaming and the code

`pump` is where the pump task is (reading the request, in `queue.put` of a chunk, in `queue.put(_DONE)`,
over); `handler` where `_forward` is; `reader` whether the destination waits in `stream.read`. A pump that
fails does so and runs its `finally` in one step, because there is no await in it. The destination reads
from inside the handler, so a read and the handler never run at once. Chunk contents, sizes and digests are
abstracted to what happens to them: a chunk passes, or the body fails; `verified` records that
`body.end()` and `target.verify()` passed. The filename check of the handler is `named`.

The backend follows httpx: it sends the body, then reads the response; a failed write makes it read the
response early, so an answer can come at any read, never while the body generator waits. `ResponseStarts` and
`BackendAnswers` are apart, as a response may take any time between its first byte and its last. A sink may return
or raise at any time, waiting or not, and may go on after `UploadAborted`.

### SqliteStore and the code

`store` is the table, `lock` the `threading.Lock` of each process, `pc[c]` the next statement of the call
thread `c` is in.

| Action | Code | Notes |
|---|---|---|
| `BeginPut` ... `BeginSweep` | the coroutine methods, which hand the call to a thread | the time is the caller's, read before |
| `Insert`, `Purge`, `Reinsert` | `_put` | the lock is kept; the row count is the triggers' |
| `Update`, `Select` | `_redeem`, `_finish`, `_claim` | anything may come between the two |
| `DeleteSwept` | `_sweep` | |
| `Raises` | BUSY beyond `timeout`, disk full, a closed connection | the statement did nothing |
| `Close`, `Closed` | `close` before and after it waited | a call begun in between uses a new pool, whose connections `Closed` closes too |
| `Crash` | a killed process | what was committed stays |

`told` is the call the last step answered, with the answers a store of one-step calls could have given while
it ran (`could`).

### RedisStore and the code

A key is a layout and a name, and is gone when the server's clock reaches `deadline`. `pc[c]` is the next
round trip of call `c`.

| Action | Code | Notes |
|---|---|---|
| `PutRecord`, `PutIndex` | the pipeline of `put` | two cluster slots: one write can fail alone |
| `Redeem`, `RedeemOldIndex`, `RedeemOld` | `redeem`, `_redeem_at`, the redeem script | new layout first |
| `Locate`, `Finish`, `Claim` | `_locate`, then a script | memo, index, old key |
| `Lookup` | `get`, `get_by_hash` | only what they remember |
| `Sweep`, `SweepRecord`, `SweepIndex` | one key of `sweep` | look, then two deletions |
| `Raises`, `Reply` | a round trip fails; its reply is lost; it is sent again (`Resends`) | |

### FileSink and the code

`at` is the coroutine, `job`/`phase` the operation it last submitted, `entry` what a final name refers to
and `mayBe` what it may refer to after a power loss. `fd` is the descriptor number of each spool and `table`
what the process's numbers refer to, so that a number closed too early, or twice, is another upload's by the
time it is used.

| Action | Code | Notes |
|---|---|---|
| `Begin`, `NeverBegins`, `ReadChunk`, `ReadEnd`, `ReadAborts` | `write` up to each await | |
| `Resume`, `ResumeRaised` | after an await | |
| `CancelSink` | `CancelledError` at an await, `_discard` | deferred if a thread is working |
| `StartJob`, `MakeTemp`, `Write`, `Seal` | the pool, `_Spool` | |
| `Move`, `UnlinkTemp`, `SyncDirectory` | `commit` | three system calls, three steps |
| `JobRaises`, `RunDeferred` | an `OSError`; the callback of `_discard` | where `os.close` raises in `seal`, `self.fd` keeps a number that is free again (`misclosed`) |
| `Kill`, `PowerLoss` | | unsynced data and names may be lost |

### Rounds and the code

| Action | Code | Notes |
|---|---|---|
| `AskFirst`, `Retry`, `Resume` | `ask_for_upload` | `Retry` is `status`, `Resume` the `resume` after it |
| `Answer` | the client calling again | any answer, any proof |
| `Authorize`, `SendFile`, `SendReturns`, `SendRaises` | `upload_file`, `files/authorizeUpload` | the file may change after the digest |
| `AskRefused` | everything refused before a ticket exists | |
| `PageUpload`, `FileChanges` | the person with the link; the disk | |
| `Resolve`, `ClaimFile`, `AskStatus` | `resolve_file` | |
| `PostEnds`, `Late`, `Forget` | the gateway, seen from outside | steps of `TicketContract`, plus deadlines; what reads expired or abandoned may still be spent or end |

### Intake and the code

A form is a sequence of symbols: `r`, `l` and `-` are themselves, `b` the boundary, one symbol stands for a
header line of each kind. The parser is a library and external; it is modelled as far as `_FileTarget` uses
it.

| Definition | Code | Notes |
|---|---|---|
| `Feed` | `Framer.feed` | what is passed on, and what is carried to the next read |
| `FormFeed`, `RawFeed` | `_MultipartBody.feed`, `_RawBody.feed` | slices of `_FEED_SLICE`, the overhead cap |
| `ReadHead`, `Announces`, `Receive` | `_read_head`, `_FileTarget` | type, filename, sizes; a header block read twice |
| `EndError`, `VerifyError` | `end`, `verify` | |
| `Read`, `PutDone`, `BodyOver`, `Disconnect` | `_pump` | a read of any length; a put that waits is at the end of the feed |
| `Watch`, `Metered`, `Cancel` | `_watch`, `_Meter` | time in ticks of the watchdog; `paid` is a history: what had been read at each tick charged to the client |

### Conversation and the code

| Definition | Code | Notes |
|---|---|---|
| `Declare` | `issue` by `ask_for_upload` or `AuthorizeUpload`, then `describe` | with all their refusals |
| `OpenPage`, `PersonSubmits` | `_render_form`, the form and its script | with and without scripts |
| `ClientSends`, `StraySends` | `send_file`; any other request | |
| `RefuseArrival`, `Judge`, `Redeem`, `UploadEnds` | `_ingest`, `_ingest_in_slot` | `SlotRefusal` is the order of its checks; an upload may end with any part of its body read that shows how it ends |
| `LookupRaises`, `RedeemRaises`, `ForwardRaises`, `FinishRaises` | the same, where a call raises | a store call with or without effect; the server answers 500 and nothing is drained |
| `Respond`, `Drain`, `ClientGets` | `handle`, `_drain`; the connection closed on unread bytes | the drain stops (`stopped`) when out of time, or on a message that is not of the body, which may be the first |
| `Meanwhile` | expiry, another request, the sweep | |

A name is a sequence of characters; `i` is an invisible one and `w` one of two octets. A request has the
method, the type, the framing and the declared length of a real one; the bytes of its body are `Intake`'s.

## What the runs check

| Run | Instance | Shows |
|---|---|---|
| `replicas` | 2 processes, 3 requests for one ticket, a shared durable store that may fail | `SingleUse`, `SlotAccounting`, `AnswerTruthful`, `RefusalTruthful`, `TypeOK`, `ImplementsContract` |
| `deadlines` | one ticket with an owner, two principals, time running past expiry, abandonment and retention, a grace shorter than the backend's time, expiry judged by the gateway's reading, dragging backends, silent authenticators, crashes, a failing store, fairness | `RecordOutlivesUpload`, `OnlyOwnerSpends`, `StatusMonotone`, `SlotsComeBack`, `SpentTicketResolves` |
| `pipe` | queue of 2, up to 5 chunks, both destinations, silent clients, stuck destinations | `QueueIsSound`, `BeginsAndEndsWell`, `JudgedRight`, `ImplementsPipe`, `UploadEnds`; deadlock checked |
| `reads` | about 240 bodies, some with several flaws at once, each cut in every way; timed uploads at every pace | `ReadRight`, `RawRight`, `WatchdogIsJust` |
| `ticket` | 4 gateways (with and without tokens, ids in the URL or not, three stores), 25 declarations, 7 files, 9 kinds of token, requests by the client, by the page and by strays, calls that raise | `NothingLearned`, `PromisesKept`, `CountedOnce`, `AnswerHeard`, `NamedPlainly` |
| `sink_links` | 3 uploads with one final name, 2 threads, 2 descriptor numbers, `overwrite=False` | `VisibleIsWhole`, `ReportedIsKept`, `FailedLeavesNothing`, `NoStrayWrite`; deadlock checked |
| `sqlite_races` | 2 processes, 2 tickets, room for one record, one of the processes closes its store and the other dies | `CapHolds`, `AnswersWereTrue`, `ImplementsContract`; deadlock checked |
| `redis_layouts` | an old and a new process, a clock ahead of the server's | `RefusalsWereTrue`, `KeysLast`, `ImplementsContract`, `AgreedExpiry`; deadlock checked |
| `rounds` | an agent, its person, 2 tool calls, 2 contents | `UriIsTheFile`, `ToldTruly`, `AnswerWasRight`, `CallsEnd` |
| `watchdog_race` | both destinations | **violated**: `EveryUploadRecorded` |
| `sink_overwrite` | 2 uploads, one name, `overwrite=True` | **violated**: `FailureSparesOthers` |
| `redis_resent_finish` | a client that resends | **violated**: `ClaimedOnce` |

The comment above each property says what it is about. `QueueIsSound`, `BeginsAndEndsWell`,
`JudgedRight`, `KeysLast`, `CapHolds`, `NoStrayWrite`, `ToldTruly`, `ReadRight`, `WatchdogIsJust` and `PromisesKept` are
conjunctions; those of the stores, the sink and the rounds include the module's type invariant.

### What was found

1. **A record can stay `redeemed` with a live process** (`watchdog_race`): the watchdog firing between the
   first chunk and the handler's next step makes the handler await a cancelled pump (`gateway.py:816`), and
   the `CancelledError` leaves it. Neither `finish` nor `on_complete` happens, against `guide/usage.md:403`.
2. **A failed upload can remove the file of a completed one** (`sink_overwrite`): with `overwrite=True`, an
   upload cancelled or failing after its rename unlinks the final name (`sinks.py:259`), which another
   upload may have replaced and reported since.
3. **An upload can be claimed twice** (`redis_resent_finish`): the finish script (`redis_store.py:118`)
   writes over `claimed` when the client sends it again after a lost reply. Requiring `redeemed` would do.

Four more a property has to make room for, and names; without that room TLC finds it violated:

- **An upload reported `abandoned` can still complete.** The grace is 30 s (`gateway.py:1411`) and is compared
  with nothing; a destination has 60 s by default, and its response may drag on after that. So a live upload
  waiting for a slow backend reads `failed`/`abandoned` and then `completed`, while the comment at
  `gateway.py:1408-1410` says that a record still redeemed past the grace "belongs to a process that died", as
  does `guide/ticket.md:126`. `LateEnd` in `StatusMonotone`; the `deadlines` run has `Grace < BackendTime`.
- **A ticket reported `expired` can still be redeemed.** The clock is read before the lookup
  (`gateway.py:668`) and that reading judges the redemption (`:718`) in every store but one with a clock of
  its own (`decides_expiry`, `server_clock`), which no default has. `guide/ticket.md:29-30` says that "redemption stops being
  allowed at `expires_at`". `LateRedemption` in `StatusMonotone`.
- **A slot can be kept for ever**, by an authenticator that does not answer (`gateway.py:750`, awaited in the
  slot with no timeout) and by a backend that sends its response bit by bit: `dest.timeout` bounds each
  read and write of httpx (`gateway.py:868-870`), not the exchange, and the watchdog stops when the pump is over
  (`:1169`). `SlotsComeBack` and `UploadEnds` say that nothing else keeps one; a fairness that made either end
  would hide it.
- **A descriptor can be closed twice.** An `os.close` that raises in `_Spool.seal` skips `self.fd = -1`
  (`sinks.py:227-228`) though the number is free; `discard` (`251-254`) then closes it again, and it may be
  another upload's by now, whose running write goes astray: the hazard the comment at `sinks.py:163-165` is
  about. `NoStrayWrite` and `VisibleIsWhole` hold until that happens (`misclosed`); without this proviso
  `sink_links` finds both violated. Setting `self.fd = -1` before the close would do.

One more can be seen by changing a constant: with a `Retention` that is no multiple of `Second`,
`KeysCoverRetention` fails in `redis_layouts`: the keys' deadline is rounded down to whole seconds.

Two more were seen while the code was modelled:

- `SqliteStore.close` takes the pool away, waits for its calls, and then closes every connection the store
  has, those included that a call made meanwhile opened in a new pool (`store.py:313-323`). The comment at
  `store.py:315` says no connection is closed under a call that is using it. The thread keeps its closed
  connection, so each of its later calls raises as well. `Closed` models it (`cut`); what was committed
  stays right, as `sqlite_races` shows.
- `issue` checks the narrowed accept list with `_narrow`, pattern by pattern, but a pattern with parameters
  (`text/plain;charset=x`) passes it and matches no type later; `describe` does not check the grammar of a
  media type, nor `raw_body_allowed`, so it can describe an upload that is then refused. `AsDeclared`
  leaves these out.

And more are allowed by the way a property is stated, which says so:

- an HTTP upload can be `completed` though the backend did not read all of it: once the pump is over,
  `_to_http` does not ask whether the stream was read to its end, as `_to_sink` does. What is left then fits
  in the queue (`JudgedRight`);
- `resolve_file` can say "not completed" of an upload that failed and was swept, or that read abandoned and
  completed, between its claim and its look at the status (`AnswerWasRight`);
- data that begins with the delimiter right after the blank line of the part's head ends the body there,
  and a preamble or a header block within a few bytes of its limit passes or not as the reads fall
  (`MayRefusePreamble`, `MayReadWhole`);
- `refused` is counted for an answer about no record or about a record read as `issued`: a request that
  loses the race of the redemption is counted, one that finds the ticket spent is not. An upload is counted
  before its end is stored (`gateway.py:727-734`): if `store.finish` raises, it is counted `completed` and
  answered 500; if `_forward` raises, the ticket is spent and nothing is counted. `CountedOnce` asks for at
  most one count, for the right one where an answer was given or an end recorded, and no more;
- the drain that is to save an early answer may read nothing: it runs after the response, where a server may
  give `http.disconnect` at once (`gateway.py:1489`), and then the client is reset (`stopped` in `AnswerHeard`;
  `CHANGELOG.md:403-405` reports 8 of 40 uploads still ending in a connection error). A request that raised is not drained at all;
- a failed upload may leave files behind if the power fails under it or at any time after it, as a deletion that
  was not synced can be undone (`FailedLeavesNothing`);
- a request with a valid token that is not the owner's gets 403 with the record's id: `NothingLearned` is
  about requests without a valid token;
- the page a browser without scripts gets when all slots are taken has no `Retry-After` (`ErrorResponse`);
- `ask_for_upload` whose description is refused leaves its ticket issued (`Declare`);
- a Redis sweep whose deletion of the record fails leaves a dead record without an index, reported as not
  found although its key lives on for a moment (`RefusalsWereTrue`);
- if records were retained for no longer than a call takes, `SqliteStore.put` could say that the store is full
  when it never was: a slower put may store a record that a later one finds dead, after that one's deletion
  (`AnswersWereTrue` needs `CallTime < Retention`; the constructor only asks for `ttl <= retention`).

### Bounds, and why they are enough

- `Gateway`: three requests for one ticket meet every race of the redemption: the conditional flip looks at
  one ticket and one caller. Two processes are needed for counters that are not shared and for crashes that
  spare somebody. In `deadlines` every deadline is a unit or two and the backend's time (2) is longer than the
  grace (1), as with the defaults; `MaxClock` and `LastStart` leave room for an issue, a redemption at the
  last moment and after it, an upload as long as the limits allow, the abandonment report before its end and the
  end of retention. An upload starting later would only repeat these. The single ticket of `replicas` and `deadlines` hides
  nothing about the cap, which `sqlite_races` fills.
- `Streaming`: a file of two and a half queues; the queue fills, empties and fills again. The proofs remove
  the bound for all but liveness.
- `FileSink`: the races are between two uploads with one name and a third waiting for a thread. One chunk
  is enough for a file with a part missing. Two descriptor numbers for three uploads: a number is given out
  again as soon as it is closed.
- `Intake`: bodies of up to some forty symbols, with limits so small that each can be met and passed. Most
  oddities come alone; header lines, data and what follows the data are combined where several flaws compete
  to be named. A read may end after any symbol, so every delimiter, head and limit is cut everywhere. The
  proofs remove the bounds. `MaxClock` is three stall timeouts; the watchdog's tick is a quarter of one, as in
  the code for timeouts of 4 s and more.
- `Conversation`: two requests, as a third meets a ticket in no new state; sizes up to 3 around limits of 0,
  2 and 3; `Slack` larger than `Envelope`, as in the code; a drain of one more message than its limit.
- `SqliteStore`: one thread per process, since the lock makes a second one wait for every write and its
  reads do not differ from another process's. `CallTime` bounds how far the clock runs past the caller's
  reading; retention is longer. The proofs remove the bounds. One process closes and the other dies (`Closes`, `Crashes`);
  letting both die adds no state.
- `RedisStore`: one ticket, since records meet nowhere but in the memo (`MemoSize`), one call at a time per
  process (`Calls`), `Skew` of one tick, `Second` as long as the retention.
- `Rounds`: one agent, because agents share no ticket; two tickets for a second call; two contents, the
  least that can differ; `Verifies = FALSE`, the gateway that helps least.
- Deadlock is not checked in `MCGateway`, `MCRounds`, `MCIntake` and `MCConversation`, which end when
  requests, clock, bytes or tickets are used up. In `MCStreaming`, `MCFileSink` and `MCRedisStore` the only stop allowed is named (`MCSpec`), and
  `SqliteStore` never stops. `sink_overwrite` ends where all uploads have, and stops at its violation.
- Symmetry is declared in safety runs only, over names no definition orders.

### Fairness

- `Gateway`: weak fairness of time and of the steps of a request that the code or its environment bounds: a
  store call answers or raises (the stores' own timeouts; one that never returns would hold its slot), the
  hook is called, and forwarding ends because of `UploadEnds`, unless the backend drags. The authenticator and
  a dragging backend are not fair (`Unbounded`), as nothing in the code bounds them. Nothing makes a ticket be
  issued or a request arrive.
- `Streaming`: weak fairness of the pump's resumption and cancellation, of the handler and a woken reader;
  of the watchdog, because `upload_timeout` is set (its default is one hour; with `None` a stuck sink may
  hold its slot); of a backend taking the body or beginning its response, where each single write and the wait
  for the response have `dest.timeout`; of a sink's timeout, which is armed when the pump is over. The end of a
  response that has begun is not fair. The client and the sink themselves may do nothing for ever.
- `Rounds`: the server answers its calls, a client that was asked for a file does something about it and
  calls again, and deadlines pass. Nobody need send a file, and a client may call again for ever with
  nothing: `CallsEnd` holds because the ticket expires.
- `FileSink`: the pool works and the event loop resumes; used by `sink_overwrite` only.
- `Intake` states no fairness: its `SlowIsStopped` is a bound, kept because the watchdog's task runs before time
  passes its tick (`Awake`), which is what an event loop that is not overloaded does.

## What is proved

In the `*Proofs` modules, with nothing assumed but the named assumptions of the modules and what the
statements below say.

| Theorem | States | Rests on |
|---|---|---|
| `TypeCorrect` | `Spec => []TypeOK` | `VerdictInv`: a request at `finish` has a final verdict |
| `TicketSpentOnce` | `Spec => []SingleUse` | `SpendInv`: a ticket spent was minted and its record, if still there, is not `issued`; a store that forgets never brings back |
| `AnswersAreTruthful` | `Spec => []AnswerTruthful` | `AnswerInv`: who was told an upload's outcome is the request that spent the ticket, so nobody else ends that record |
| `RefusalsAreTruthful` | `Spec => []RefusalTruthful` | `RefusalInv`: no answer before the end; a record past `issued` has a redeemer; a request that read a record names a minted ticket |
| `OwnersSpend` | `Spec => []OnlyOwnerSpends` | `OwnerInv`: between the lookup and the redemption neither the owner nor the principal changes |
| `RecordsOutliveUploads` | `RoomForUpload` implies `Spec => []RecordOutlivesUpload`, which speaks of backends that do not drag | `OutliveInv`: the redemption was judged before the deadline, and retention ends `Retention - ttl` after it |
| `StatusOnlyMovesForward` | `Spec => StatusMonotone`, for any grace and any store: back from `expired` within the store's time only, back from `abandoned` only by the request that spent the ticket, in the time lookup, redemption, body, backend and finish have, or dragging | `TimeInv`: at each await, how far the clock can be from the reading the record keeps; the moves of one record |
| `SlotsAreCounted` | `Spec => []SlotAccounting` | inductive by itself |
| `GatewayImplementsContract` | `Spec => ImplementsContract` | `ClaimInv`: an upload a claim was granted for is `claimed` or gone |
| `StreamIsAPipe` | `Spec => ImplementsPipe` | `IInv` below |
| `DestinationsAreJudgedRight` | `Spec => []JudgedRight` | `IInv`; `InOrder`: the destination got chunks 1, 2, 3..., all that were taken when it was told the end; `Judged`: a sink's upload that is completed was told the end, a verdict after an error is that error or `raised`, and what a backend accepted unread is in the queue with the end behind it |
| `BufferIsSound`, `UploadsEndWell`, `StreamingTypeCorrect` | `QueueIsSound`, `BeginsAndEndsWell`, `StreamingTypeOK` are invariants | `IInv` |
| `NoThreadWritesAstray` | `Spec => []NoStrayWrite` of `FileSink` (until a close raised in a seal) | `Base` and `Numbered` below |
| `FailuresLeaveNothing` | `Spec => []FailedLeavesNothing` | `Base`, `Numbered` and `Naming` |
| `WholeFilesAreVisible` | `Fsync` implies `Spec => []VisibleIsWhole` (until a close raised in a seal) | these and `AllSafe` |
| `ReportedFilesAreKept` | `~Overwrite` and `Fsync` imply `Spec => []ReportedIsKept` | `Base`, `Naming` and `AllPlaced` |
| `UrisAreTheFiles` | `Spec => []UriIsTheFile` of `Rounds` | `RoundsInv` below |
| `RoundsTellTheTruth` | `Spec => []ToldTruly` | `RoundsInv` |
| `ResolversAnswerRight` | `Spec => []AnswerWasRight` | `RoundsInv` |
| `CapIsKept` | `Spec => []CapHolds` of `SqliteStore` | `IInv` of `SqliteStoreProofs` below |
| `SqliteImplementsContract` | `Spec => ImplementsContract` | `IInv` |
| `AnswersAreTrue` | `CallTime < Retention` implies `Spec => []AnswersWereTrue` | `IInv`, `Timely` and `AllHonest` |
| `ExpiryIsAgreed` | `Spec => AgreedExpiry` of `RedisStore` | `IInv` of `RedisStoreProofs` below |
| `RedisImplementsContract` | `~Resends` implies `Spec => ImplementsContract` | `OnceInv` |
| `KeysLastTheirRetention` | `~Resends` and `KeyTtl = Retention` imply `Spec => []KeysLast` | `AnswerInv` below, `OnceInv` and `Lasting` |
| `RefusalsAreTrue` | `Spec => []RefusalsWereTrue` of `RedisStore` | `AnswerInv` |
| `SlowAndOnlySlowAreStopped` | `Spec => []WatchdogIsJust` of `Intake` | `IInv` of `IntakeProofs` below |
| `RawBodiesAreReadRight` | `Spec => []RawRight` | `IInv` |
| `BodiesAreReadRight` | `Spec => []ReadRight` | `IInv` and `FormIInv` of `IntakeProofs` below |
| `RecordsComeBack` | `Kept(kind, IssuedRecord(d)) = IssuedRecord(d)` for every kind of store | the definitions |
| `RequestsAreCountedOnce` | `Spec => []CountedOnce` of `Conversation`, calls raising at any point | `IInv` of `ConversationProofs` below |
| `AnswersAreHeard` | `Spec => []AnswerHeard`: a reset only where the drain stopped or read all it may, or the handler raised | `IInv` |
| `StrangersLearnNothing` | `AsStrict(g)` for every gateway `g` with an authenticator implies `Spec => []NothingLearned` | `SilenceInv` |
| `PromisesAreKept` | `Spec => []PromisesKept` | `PromiseInv` |
| `FilesAreNamedPlainly` | `Spec => []NamedPlainly` | `NamingInv` and what each filter of a name leaves |

The part of `GatewayProofs` about answers first proves two lemmas, `RecordMoves` and `RequestMoves`: whatever action ran, a record
was kept, forgotten, born, spent, ended or taken, and a request idled, knocked, looked, spent, missed,
streamed, ended, told or broke off. The invariants follow from these moves, not action by action.

Some theorems have provisos worth knowing. `RoomForUpload` is
`ttl + upload_timeout + backend time + store time <= retention` (twice the store time where expiry is judged
by the gateway's reading): the constructor asks only that retention is at least `ttl`; with the default of 24 hours
it holds with room to spare. `misclosed = {}` in the properties of the sink says that no `os.close` has raised
in a seal, after which the code itself loses track of its numbers.

`IInv` of `StreamingProofs` has three parts. The properties are not inductive alone: that a waiting reader
has something to wake it needs to know that the end is still in the queue of a pump that finished well,
and that a cancelled pump without an error has no reader; so `Flow` says what the queue holds while the
upload is healthy (chunk numbers continuing where the destination is, the end last), and `Control` what
pump, handler, watchdog and stream know of each other.

The invariants of `FileSinkProofs` say of one upload what its coroutine, its operation in a thread and its
descriptor know of one another (`Control`, `Descriptor`: from the end of `mkstemp` to the end of `seal` the
spool has a number unless the upload is over), what the file holds meanwhile (`Content`) and what a discard
finds and leaves (`Clean`); together they are `Base`. `Numbered` is what a number means: one that refers to a
file is that file's spool's, so a spool's own number refers to its file and no two spools share one; the second
half fails once a seal kept a number it had closed, and with it goes what rests on it. `AllSafe` says that a file is damaged only if it was
never synced and then never committed, which needs `fsync`. `Naming` says that a name refers, on the disk and after
any power loss, only to uploads that asked for it in a commit, and `AllPlaced` that without `overwrite` a
name, once taken, is its taker's until that upload is discarded. With `overwrite` the last is false, which is
what the run `sink_overwrite` shows.

`RoundsInv` follows the file to the tool that is told of it: a completed ticket has a file, stored once and for
good (`StoredInv`); who spent a ticket was given it, and sends something until it ends (`SenderInv`); what an
agent was told rests on what its own ticket stored (`AgentInv`); an upload has one taker, who is the resolver
that answers so (`TakeInv`); and the answer that would be right now is among those a waiting resolver could
have got, also while it looks for the reason of a refused claim (`SeenInv`).

`IInv` of `SqliteStoreProofs` says where a call can be and that each ticket is put once (`AllPlaced`, `Minting`),
that what was won or taken stays past `issued` or `completed` (`Past`), what the SELECT of a call can find
(`AllUpdated`), that the count is the number of rows (`Counted`), and, the heart of it, `Holding`: at most one
actor may end a record, the call that redeemed it, then its process, then the call that finishes, and until
it does the record is `redeemed` or gone. Without it `finish`, whose UPDATE asks for no status, could write
over `claimed`. `AllHonest` keeps what an earlier statement found true until the SELECT that explains the
refusal; for "full" it needs that no record is dead at birth for a call beside it (`Timely`).

`IInv` of `RedisStoreProofs` says that a ticket is put by one call (`OnePut`) and so has its record in one layout
(`Home`); it holds with commands sent again, and from it follows that expiry is agreed on. `OnceInv` adds what a
client that sends again breaks, as the run `redis_resent_finish` shows: nothing is known of a ticket before
its record is written (`Once`), what was won or taken stays past `issued` or `completed` (`Past`), and at most
one process or call may end a record (`Holding`), the finish script asking for no status. The contract then
rests on a lemma, `TicketMove`: a step writes the record of one ticket, or keys only go. `KeyTtl = Retention`
says that the retention is a whole number of seconds.

`AnswerInv` of `RedisStoreProofs` is what a refusal rests on. A refusal is put together from an index key, a memo
and a record, read in separate round trips, so the invariant carries each reading to the answer: what a
process remembers of a ticket, and what a call read of its index, is where the record was put (`Known`,
`Laid`, `MemoTyped`); a record keeps the end of its retention, a sweep deletes only what is past it, and an index
outlasts its record unless that was due to be swept (`Kept`, `Sweeping`, `Findable`); what a call read explains the refusal it is about to give, or did at a moment of the call
(`Informed`); and what is already said was right (`Right`). It needs no proviso: commands may be sent again and
keys may end early. `Forgotten`, the memo without an id, is written with a position instead of `Remove`, which
the provers cannot reason about.

`IInv` of `IntakeProofs` relates the meter to the history `paid`. `Metering` says that the window charged began
at one tick of those waited and holds what was read since some point of that tick; `Patience` that neither
limit has gone by unseen and that the window before the one being charged was full, which is why twice
`stall_timeout`, and not once, bounds a trickle. For raw bodies `RawSoFar` says that what is stored and what is
yet to come are together what was sent, within the declared and the permitted size. It assumes, as
`IntakeAssumption` states, that an expected size is not above the permitted one: `issue` refuses such a
declaration.

`FormIInv`, beside it, is what a form has come to after any number of its bytes, however they were cut
(`FormSoFar`, `ReadTo`). Nothing in it is recursive: what each recursive function has computed after `n`
symbols is written down outright, as `StateAt` for the parser (in which header line it is, what it holds back
of the data in case a delimiter begins there), `Framed` and `OutLen` for the framer (what it keeps of the
bytes so as not to miss a delimiter cut in two, and how much it has handed on), `HeadTo` for the header block
read apart, and `FedTo` for what was stored, announced and held against the body. The lemmas then go up the
layers: one byte takes the parser from `StateAt(f, n)` to `StateAt(f, n + 1)` (`AllSteps`), so a piece takes
it from `n` to `m` (`Parses`); a chunk does the same to the framer (`Feeds`), where it matters that the close
delimiter is found where it ends and nowhere earlier (`Ends`); a read that is fed in slices does what it would
do in one (`FeedsPieces`); and so does a read (`FormFeeds`), up to the verdict (`EndsWhole`). Where a function
is defined by recursion over the numbers up to a bound, the induction is over the set of those up to which the
claim holds (`SetInduction`). A flaw that is named is one of the form's, whichever of several the reads
brought up first. The theorem is for any uploads as `FormsAssumption` has them: a body that is not raw is a
form written out, whose delimiter opens it and ends its data and stands nowhere else (`WellComposed`), which
is how a client has to choose its boundary; and for any boundary that has no line end in it
(`FramerAssumption`). `RawKept` is the rest: a raw body is fed to no parser.

`ConversationProofs` has four invariants, each resting on the one before. `IInv` says where a conversation can
be and, for each place, what was counted (`Counted`), what a final answer says of the record (`Verdict`), what
the drain has read (`Drained`) and what the page shows meanwhile (`Shown`). `SilenceInv` says that nobody is
judged or gets the ticket without being admitted, and that an answer to anyone without proof is one of three
that are made without the record. Its proviso `AsStrict` says that the gateway's authenticator accepts only
what the server's own endpoint would; the lemma `DefaultGates` shows it of each adapter's default, and a gate
of one's own may be laxer. `PromiseInv` is the argument that what was promised is what is judged: from the
description on, the terms of the record are those issued, whichever store kept it (`Described`, by
`RecordsComeBack`); a client sends what was described to it, a page its form (`Asking`); and a request that
got through was judged against the same terms (`Passed`). It assumes of the environment, in
`ConversationAssumption` and `AdmissionAssumption`, that declarations and files are what their types in the
code say: media types are media types, sizes are integers, a file has a content. `NamingInv` keeps in sight
that the names of a request (its disposition, its query, the file's own) are sequences of characters; the rest
is lemmas about the functions a name goes through: what a filter leaves of it is a part of it, so that cutting
off directories, dropping what is invisible, stripping and shortening to `NameLimit` leave no separator,
nothing invisible and neither `.` nor `..`, and the escaping of a quoted string can be undone.
`MediaAssumption` has room in `NameLimit` for the name that stands in for an empty one and for a suffix.

Only model-checked:

- Liveness under fairness, which is beyond TLAPS: `SlotsComeBack`, `SpentTicketResolves`, `UploadEnds`, `CallsEnd`.
- What the runs show violated, which no theorem can state.

## What is not modelled

- Wording, styles and security headers of pages; spans and histograms; the registration of tools with two
  SDKs (`attach` and the extensions keep no state); reading upload targets out of a tool's result
  (`client.py`).
- The counter of issued tickets, and a full store at `issue` (in `MemoryStore` and the stores, not in
  `Declaration`).
- The form parser itself (a library), the token verifier and the MCP endpoint's own check, which
  `EndpointTakes` states as the adapters' docstrings do.
- `stress/`: a load generator and the checker of its logs, run by hand.
- The handler being cancelled from outside (a server shutting down) is `Crash` in `Gateway` and absent from
  `Streaming`.
- `FileSink`: a discard's `unlink`s succeed; short writes are the loop in `write`. The descriptor `commit`
  opens for the directory is in no other step and is left out of `table`.
- `SqliteStore`: the schema's creation and migration, `max_records=None`. A row deleted between the UPDATE and the
  SELECT of a winning redemption makes the call raise, and is modelled so.
- `RedisStore`: eviction by a server out of memory, failover that loses acknowledged writes.

## The plan

Every step planned so far is done: each safety property the runs check is a theorem, but for those the runs
show violated. Liveness stays with TLC. What would extend the project is a model of the load generator's own
checker in `stress/`, which is left out above.
