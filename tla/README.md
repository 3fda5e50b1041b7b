# TLA+ models of the Redis driver for Perk Workbench

The driver is a Rust process that a database workbench (the *host*) starts and
talks to over stdin and stdout: newline-delimited JSON-RPC, protocol `perk/v1`.
It opens Redis sessions, shows a logical database as one virtual table `keys`
(`key`, `type`, `value`), executes native commands and writes rows back.

This directory models the parts in which several actors, partial failures or
boundary cases meet, checks them with TLC on small instances and proves the main
safety results with TLAPS. Paths below are relative to `src/`.

## 1. Inventory

| component | code | state | operations |
|---|---|---|---|
| frame reader | `src/protocol.rs` `read_frame` | bytes collected by the current call | one call per frame; limit `MAX_FRAME`; EOF |
| frame loop and dispatch | `src/server.rs` `Server::serve`, `handle_*` | `initialized`, `sessions`, `next_session_id` | initialize, build_target, open, close, cancel, and the session methods as tasks |
| in-flight registry | `src/server.rs` `Registry` | id -> cancellation token | insert, cancel, cancel_all, remove |
| session tasks | `src/server.rs` `spawn_session_method`, `run_session_method` | one tokio task per request | race handler and token, recheck the token, answer, remove |
| sink and writer | `src/server.rs` `Sink`, `run`, `DirectStdout` | `open` flag, unbounded channel, one writer task | send, close, write, abort |
| lifecycle | `src/server.rs` `run`, `src/main.rs` | verdict of the loop | cancel_all, close, abort, exit |
| session | `src/redis_service.rs` `RedisService` | `conn` (tokio mutex over an Option), `closed`, `database` | `query`, `close` |
| row-write validation | `parse_row_write` and helpers | none | cell by cell |
| row writes | `delete_row`, `insert_row`, `update_row`, `UPDATE_SCRIPT` | the validated current value | DEL, SET NX, TYPE/GET/EXISTS then one Lua script |
| keys browse | `browse_table`, `run_select`, `browse_page`, `fetch_preview`, `finalize` | collected keys, page, rows | SCAN loop, sort, page, TYPE and preview per key |
| value previews | `preview_*`, `pairs_from_scan` | none | per type, two reply shapes, cut by bytes |
| statement parser | `parse_statement`, `parse_select`, `select_statement`, `render_command` | token position, clauses seen | `SELECT * FROM keys [LIMIT n] [OFFSET n] [;]` |
| native execution | `execute`, `execute_read_only`, WRONGTYPE guidance | what commands leave in the connection: database, transaction | run, refuse, guide |
| schema and server view | `list_schema`, `table_info`, `server_view` | none | DBSIZE, INFO |
| targets and factory | `build_redis_uri`, `normalize_target`, `parse_database`, `open` | none | form to URI, URI to session |
| in-memory service | `src/service.rs` `MemoryService` | its rows, canned data | row writes, SET, GET, DEL, transport tests |
| wire types, metadata, reply conversion | `src/dto/*`, `command_metadata`, `reply_rows` | none | data |

**Interaction.** The host writes frames; the loop reads them one at a time and
answers handshake, open, close and errors itself. `open` is awaited inside the
loop. A session method is registered and spawned as a task that owns a clone of
the session's `Arc`; the loop goes on. Tasks answer through the sink, whose
writer is the only one to touch stdout. All Redis I/O of a session goes through
one mutex. A cancel fires a token; the task drops the handler's future wherever it
awaits. `close` sets a flag and drops the connection only if nobody holds the
mutex. Redis itself is shared with other clients.

**What is hard.** Frame loop, tasks, writer and shutdown interleave freely; a
handler can be dropped in the middle of a command; a command outlives the
handler that sent it; other clients write between the reads and the script of an
update; native commands leave a database and a transaction in the connection that
all handlers share; `SCAN` repeats keys and returns empty batches; two tests of one
limit must agree whatever the chunking; one value is cut by bytes here and by
characters there. `PROJECT.json` lists these hazards by line.

**What makes it correct.** Each request answered once and truthfully; a cancel
reaches the request it names and wins; the process always exits; a row write is
atomic, applied at most once and never on a row it did not validate; paging shows
each key once; the parsers accept exactly their language.

## 2. Modules

| module | models | state and actions |
|---|---|---|
| `Server` | `serve`, every `handle_*`, `spawn_session_method`, `Registry`, `Sink`, writer, `run`, `main` | `loop` is the program counter of the loop and of the shutdown; `task[r]` that of each spawned task; one action per handler and per stretch between two shared accesses |
| `MCServer` | instances of `Server` | ids: distinct, one of them negative; one id for two requests |
| `ServerProofs` | proofs about `Server` | |
| `KeysTable` | *abstract*: what `row_write` promises | `Submit`, `Apply`, `Respond`, `OtherClient` |
| `RowWrite` | `row_write` after validation, `query`, `close`, the mutex, Redis | `pc[h]` follows `query`: test `closed`, lock, send, await, handle the reply; `wire` holds commands that outlive handlers |
| `MCRowWrite`, `RowWriteProofs` | instances of, proofs about `RowWrite` | |
| `FrameReader` | `read_frame` in a loop | one action per `fill_buf` of any size; only newline positions matter |
| `FrameReaderProofs` | proofs about `FrameReader` | |
| `Browse` | `browse_table`, `run_select`, `browse_page`, `fetch_preview`, `finalize`'s cap | one action per Redis reply or failure, plus a host that pages |
| `MCBrowse`, `BrowseProofs` | instance of, proofs about `Browse` | a key that is not UTF-8, named like another |
| `Session` | all methods of `RedisService` on one connection: `execute`, `execute_read_only`, `validate`, WRONGTYPE guidance, `list_schema`, `workspace_view`, `browse_table`, the simple row writes, the fixed schema, `close` | `redis` is the server as this connection has it (data, selected database, transaction); `handler[h]` is a request and where it is; one action per command with its reply |
| `MCSession`, `SessionProofs` | instance of, proofs about `Session` | |
| `Commands` | `is_read_only`, `command_metadata`, `wrongtype_verb`, `type_read_command`, the advertised commands | operators on verbs |
| `Statement` | `parse_statement`, `parse_select`, `parse_page_size`, `select_statement`, `render_command` | operators on tokens and on the texts they are typed as |
| `CellText` | `cap_cell` | an operator on sequences of characters |
| `Reply` | `cell`, `to_json`, `reply_rows`, `finalize` | operators and recursive functions on reply trees |
| `Preview` | `preview_string/hash/list/set/zset`, `pairs_from_scan` | operators on replies and on byte widths |
| `Target` | the form, `build_redis_uri`, `build_target`, `normalize_target`, `parse_database`, `open` | operators on forms and URLs |
| `ServerView` | `parse_info_section`, `parse_keyspace_line`, the view's rows | operators on INFO lines, values and names as sequences of characters |
| `RowWriteRequest` | `parse_row_write`, `parse_identity`, `require_string`, `parse_update_values`, `parse_insert_values` | operators on lists of cells |
| `Memory` | `MemoryService`: `row_write`, `execute`, `execute_read_only` | operators on its store |
| `Requests` | what the host and Redis hand in from outside: one action per computation of `Target`, `ServerView`, `RowWriteRequest` and `Memory` | picks an input, calls, compares with a reference |
| `Conversions` | `Requests`, and the same for `Statement`, `Commands`, `Reply` and `Preview` | |
| `MCConversions` | instance of `Conversions` | a text that is not UTF-8, shown like another |
| `RequestsProofs` | proofs about `Requests` | |
| `ConversionsProofs` | proofs about `Conversions` | |
| `Lists` | loops over a list (`Kept`, `Total`), of `Statement` and `Preview` | recursive functions of the elements seen |
| `Induction` | no code: induction over the natural numbers, about sets | lemmas for the proof modules |

How they fit together:

* `RowWrite` refines `KeysTable` through
  `KT == INSTANCE KeysTable WITH store <- store, request <- request,
  applied <- applied, result <- result`; everything else (program counters, wire,
  mutex) is hidden. `Memory` uses the same `KeysTable` as the reference for the
  in-memory double.
* The writes `RowWriteRequest` accepts are the requests `RowWrite` starts from, in
  the same record form.
* `Session` has the commands of all handlers on one connection, each with its
  reply as one step; `RowWrite` has what happens inside such a step (the mutex,
  the wire, late effects) and the commands of `update_row`.
* `Commands` is extended by `Session`, which decides what runs, and by
  `Conversions`, which checks the tables themselves.
* `Conversions` extends `Requests`: its behaviours pick an input of either, so one
  run checks both. `RequestsProofs` is about `RequestSpec`, the behaviours that pick
  one of `Requests`, `ConversionsProofs` about the others. Every loop and every
  recursion of the code is a recursive function, of the tokens, elements or members
  seen so far or of the reply below.

### Abstractions that matter

* **Granularity of `Server`.** A step is the code between two accesses to state
  that another thread sees: the registry mutex, the `open` flag, the channel, a
  token. `Sink::send` tests the flag and enqueues in one step: a frame
  enqueued after a close is discarded by the writer's own test, so the finer
  interleaving shows nothing new. The host's write and the loop's read of a frame
  are one step: only the loop looks at stdin. Relaxed atomics are treated as
  sequentially consistent; each flag is written once and guards no other data.
* **Frames.** A frame keeps whom it answers and whether it is a result, an error
  or -32800. Inline errors of different codes are one answer.
* **`RowWrite`'s mutex** is tokio's: FIFO, handed over on release, left by a
  dropped waiter. A reply is handled while the guard is released; sending is
  part of holding it.
* **The update script.** `Script::invoke_async` sends EVALSHA and, if Redis does
  not know the script, SCRIPT LOAD and EVALSHA again. The model has one EVAL: the
  extra round trip changes nothing in the database.
* **Values** are editable strings, strings too long or not UTF-8, or anything of
  another type: what `update_row` distinguishes.
* **`SCAN`** gives exactly Redis's guarantee, nothing about order or repetition. A
  reply that is no array or has no readable cursor ends the scan as the last one
  does (`ScanCutShort`): in the transaction of another handler's native MULTI every
  listing is empty that way.
* **Bytes that are not UTF-8.** `String::from_utf8_lossy` is a constant function that
  keeps what is UTF-8: `Name` of a key in `Browse`, `Decoded` of a text in `Reply` and
  `Preview`. Two keys, or two texts, may be shown alike. A row of the listing is
  about a name: TYPE and preview ask for the key of that name. Redis's errors, status
  replies, verbatim strings and big numbers are UTF-8 when `cell` sees them; only
  bulk strings need not be. For string previews a value is cut into characters and
  maximal ill-formed subparts, each subpart being replaced by one U+FFFD.
* **`Session`'s keys** are reduced to their types, strings and hashes: the least
  that a WRONGTYPE and a read of each family need. A browse is one SCAN (its loop is
  `Browse`), `update_row` is left to `RowWrite`, the reply of EXEC is not told apart
  from OK. Any command may be refused before it runs (`CommandRefused`: out of
  memory, a read-only replica, a missing permission); in a transaction this aborts
  it, and its EXEC runs nothing. The nil that EXEC answers when a WATCHed key has
  changed is not modelled: it runs nothing either. A command of a canceled handler
  is executed or not in the step that cancels it; that it may be later is in
  `RowWrite`. Redis's reset of the selected database and of the transaction on a new
  connection is external.
* **Replies** are trees up to a depth (`MaxDepth`: the redis crate refuses replies
  of more than 100 levels). The run's replies have at most one level below the second,
  where the recursion of `to_json` meets no new case; the lemmas go down to any
  `MaxDepth`. Scalars are told apart by what JSON does to them: quoted, bare or
  impossible. The JSON text of a compound value is the tree it spells, so that only
  keys of the same value, or scalar keys of one text, collide (see section 6).
* **Sorting** the members of a set is stable insertion; `sort_by_key` sorts a vector
  of distinct members to the same one.
* **One HSCAN, one SSCAN.** A preview makes one call with COUNT 64, a hint. Its reply
  is any first part of the collection in the order of the scan, up to the whole
  (`Fetched`), with the cursor the preview ignores.
* **Strings** of the previews are sequences of the widths of characters and of
  ill-formed subparts, which is all a cut by bytes or by characters sees.

## 3. Runs

| run | instance | shows |
|---|---|---|
| `server_safety` | 2 requests with the ids 0 and -1, 1 session, 3 inline frames | at most one answer each and none missing without a reason, exact registry, cancels reach the running handler and never one with a negative id, shutdown tells every handler, at most one frame after the close |
| `server_lifecycle` | 1 request, 2 sessions, 4 inline frames, fair | handshake's result first and once; closed session ids stay dead; a cancel wins over a racing result and is answered; results are delivered; the process exits |
| `server_reused_id` | 2 requests, one id | **violation**: see findings |
| `rowwrite_refinement` | 2 handlers, 2 keys, 2 strings, 1 blob, every kind of write | refinement of `KeysTable`; a value edit replaces what it validated |
| `rowwrite_queue` | 3 handlers on one key, fair | mutex and queue exact, every handler returns, at most one command per handler after `close`, and the connection is released |
| `frame_reader` | streams of up to 8 bytes, limit 3 | any chunking yields the lines up to the first one too long |
| `browse` | up to 3 keys of 2 types, two with one name, display cap 1, limits 0..2 or none, offsets 0, 1, usize::MAX, 1 foreign write, 2 SCAN calls per page | pages partition the sorted names and `has_more` ends exactly; lasting keys are accounted for; a failing TYPE or preview costs a cell, never the page or a row |
| `browse_duplicate` | 1 key, 2 SCAN calls | **violation** |
| `session` | 2 handlers, 1 key, 2 databases, 8 native commands, transactions of 1 command | only `execute` and `row_write` change data or the connection; guidance is attached to WRONGTYPE only and fits; row writes report what they changed, or stand in the queue of a native `MULTI`; counts are those of the session's database, except after a native `SELECT` |
| `conversions` | see the bounds | statements, metadata, replies, results, previews, targets, server view, row-write requests and the double equal their references |
| `preview_zset` | same | **violation** |
| `preview_edit` | same | **violation** |

**Bounds.** Two requests suffice for everything the registry relates (two owners of
one slot, or an id and a negative one); the theorems remove the bound. Two handlers
exhaust the pairs of writes on a row, three are needed for a waiter behind a waiter.
The display cap, the limit and the number of keys lie on both sides of each other.
Liveness needs one request: tasks share only the registry, whose interplay
`server_safety` has. A limit of three bytes leaves frames of none, one and two bytes
and the first that is too long, eight bytes several of them. Three value cells are
one more than an update can use and as many as an insert can. Five tokens behind the
head are both clauses and one too many.

In `session`, two handlers are the one that makes a state (a SELECT, a MULTI, an
error to explain) and the one that meets it; the second database is the one to stray
to. In `conversions`, `MaxCell = 3` and `PreviewBytes = 10` keep the order of 300
characters and 1024 bytes: `MaxCell` characters of four bytes exceed the preview, of
three bytes they do not; strings go up to `MaxString = 5` characters of any widths.
`PortMax`, `RedisPort` and `DatabaseMax` scale `u16::MAX`, 6379 and `i64::MAX`, with
texts on both sides of each limit; databases 0, 1, 10 and 11 are prefixes of one
another. `Texts` are the texts of scalars: the members and `NullText`, which is
"null", and one of them is not UTF-8 and shown as another. `LongStrings` are the
strings of more than `MAX_CELL` characters a row of the double may hold. `MaxDepth =
3` is one level more than the replies have. The other named bounds are `MaxFrames`,
`MaxSessions`, `MaxScans`, `MaxWrites`, `MaxStream`, `MaxTail`, `MaxMember`,
`MaxValues`, `MaxRows` and `MaxQueue`.

**Symmetry** is used in `rowwrite_refinement` and `session`, over handlers, which
are interchangeable; no liveness is checked there.

**Fairness.**
* `Server`: weak fairness of a task from the moment its token has fired or its
  handler has returned (no blocking code from there on), of the writer (the host
  keeps reading stdout) and of the shutdown sequence. None for handlers and none
  for `open`: Redis may never answer.
* `RowWrite`: weak fairness of handler steps, and of "executed or reply fails":
  the redis crate's connection manager bounds the wait for a response. And of
  `ServiceDropped`: when the session is gone from the server's table and its last
  task has ended, the last `Arc` is dropped, and the connection with it.
* `FrameReader`: weak fairness of the reader; the stream ends.

Deadlock is checked everywhere; the states in which a system is over stutter.

Every property has a mutant: an alternative definition beside the one it mutates
(`...NoRecheck`, `...KeepsLock`), with which the property fails.

## 4. Proofs

All for arbitrary constants under the named `ASSUME`s of the modules. Most of these
only keep sentinels apart from values, or say that the texts of the inputs are
texts. Three say something about the program:
`NumKeys <= UsizeMax` in `Browse`, for the keys are in one `Vec`;
`RedisPort \in 1..PortMax` in `Target`, for the default port is one; and
`MaxDepth >= 2` in `Conversions`, for its replies nest that deep.

| theorem | says | under |
|---|---|---|
| `ServerProofs!TypeCorrect` | `[]TypeOK` | |
| `RegistryIsExact` | `[]RegistryExact` | `DistinctKeys`: ids do not collide as keys |
| `ShutdownReachesAll` | `[]ShutdownCancels` | `DistinctKeys` |
| `CancelReachesHandler` | `[]OriginalIdCancels` | `DistinctKeys`, `IdsFit`: what is not negative fits 64 bits |
| `LateFrameBound` | `[]AtMostOneLateFrame` | |
| `SessionIdsFresh` | `SessionIdsNeverReused` | |
| `OneAnswer` | `[]AnsweredOnce` | |
| `CancelPrevails` | `CancelWins` | |
| `HandshakeLeads` | `[]HandshakeFirst` | |
| `RowWriteProofs!RowWriteTypes` | `[]TypeOK` | |
| `RowWriteImplements` | `Spec => KeysTable!Spec` | |
| `EditIsCompareAndSet` | `EditReplacesValidated` | |
| `ClosedSessionBound` | `[]LateCommandBound` | |
| `MutexSound` | `[]LockExact` | |
| `FrameReaderProofs!ReaderTypes` | `[]TypeOK` | |
| `ReaderBounded` | `[]BufferBounded` | |
| `ReaderExact` | `[]ChunkingInvisible` | |
| `BrowseProofs!NoStableKeyMissed` | `[]StableKeysListed` | |
| `PagesInOrder` | `[]PagesPartition` | |
| `PageIsReturned` | `PageReturned` | |
| `SessionProofs!OnlyWritesChangeData` | `ReadOnlyHarmless` | |
| `GuidanceSound` | `[]GuidanceFits` | |
| `RowWriteExact` | `[]RowWriteReported` | |
| `AnswersOfDatabase` | `[]AnswersDescribeDatabase` | |
| `RequestsProofs!ParseRowWriteExact` | `ParseRowWrite` accepts exactly `Admitted` and returns `Meaning` | cell lists of any length |
| `ValidationIsExact` | `[]ValidationExact` | |
| `MemoryRowWriteAgrees` | the double does what `KeysTable` promises, over-long values included | not `OwnRules` |
| `DoubleAgrees` | `[]MemoryAgrees` | |
| `ViewIsExact` | `ViewShown` of the view | INFO replies of any length, a database on one line of INFO keyspace |
| `ServerViewExact` | `[]ViewExact` | |
| `FormsOpenWhatTheyDescribe` | `[]TargetsReach` | |
| `ConversionsProofs!ParseExact` | `ParseStatement` accepts exactly the sentences of the grammar, with their offset and limit | texts of any length |
| `GrammarIsExact` | `[]GrammarExact` | |
| `ReportReplays` | `ParseStatement(Reported(a)) = a` for what was accepted | texts of any length, not of no token |
| `StatementsReplay` | `[]StatementReplays` | |
| `StatementsAreClassified` | `[]StatementsClassified` | |
| `FinalizeFaithful` | `Finalize` shows the first rows, each cell whole or cut before an ellipsis | any number of rows of one cell, of any length |
| `ResultsAreFaithful` | `[]ResultFaithful` | |
| `PreviewStringFaithful` | `PreviewString` is a prefix that fits, replacing only what is not UTF-8 or was broken by the cut | strings of any length |
| `PreviewsAreFaithful` | `[]PreviewsFaithful` | |
| `ReplyShown` | the rows of `ReplyRows` hold every scalar of the reply, decoded, at its place | replies of any width, down to `MaxDepth`, whose nested parts JSON can say |
| `ScalarsAreShown` | `[]ScalarsShown` | |

The arguments:
* *Registry.* `RegistryInv` adds to `RegistryExact` the types and what
  `ShutdownCancels` needs: exactness says whom `cancel_all` reaches, and after the
  loop has ended nobody is registered any more. Without `DistinctKeys` the first
  task's `remove` deletes the second's entry: the run `server_reused_id` shows it
  is needed. A negative id is registered under its unsigned reading, which its own
  cancel cannot name; `DistinctKeys` includes that no other id has that reading.
* *Late frames.* `LateInv`: once the sink is closed, frames written late plus the
  frame held are at most one, for the writer admits none any more.
* *One answer.* `OnceInv`: a frame of a request in the output is unique, and
  exists only from `SendResponse` on; concatenation of written, held and queued
  frames is handled by lemmas on appending and moving elements.
* *Cancel.* `CancelInv(r)` (token fired, any decided outcome and any frame of r
  -32800) holds as soon as the token has fired while the handler runs, for by
  `OnceInv` there is no frame of r yet, and is kept by every step: tokens stay
  fired, and the recheck decides the outcome. The nested `[]` of `CancelWins`
  follows by temporal logic.
* *Handshake.* `HandshakeInv`: what is written or held is in order always, the
  queue too as long as the sink is open; before the handshake no task exists, no
  open is awaited and no such frame is out; after it, its frame is still somewhere
  in the output unless the sink is closed or the writer gone. The last part is what
  lets a task's later answer follow it.
* *Row writes.* `Inv` says, per handler, which command can be on the wire and in
  which `pc`; that nothing is on the wire before it was sent; that `applied` holds
  only after the one writing command, which is always the last; that `expected` is
  an editable string whenever the script is about to run. With it every step is a
  step of `KeysTable` or a stutter: `Execute` of the writing command is `Apply`,
  `Finish` is `Respond`. The script's repeated tests are what makes `Apply`
  allowed; the reads before it contribute only `expected`.
* *Closed sessions.* `LateInv`: a handler that has sent a command after the close
  is past its test of `closed`, and will fail it the next time.
* *Mutex.* `MutexInv`: a handler in flight holds the lock, a waiting one holds it or
  is queued, the queue has each waiter once and never the holder, and is empty when
  the lock is free. The hard steps are the drops: of a queued waiter (the queue
  without one element) and of the holder (handed to the head).
* *Frame reader.* `ReaderInv`: types, and collected bytes stay below the limit.
  `ScanInv`: the current call began at a line's start, has met no newline since, and
  the frames are exactly the lines that begin before it. That a chunk ends anywhere
  does not matter because the invariant never mentions chunks.
* *Browse.* `Collected`: the names of the keys that last are in the vector, but for
  those SCAN still owes. `Fetching`: rows made and keys still to fetch are together
  the page that the collected keys determine. `Delivered`: what is returned is that
  page up to the display cap, and `has_more` compares its end with the whole vector.
  `Calm`: while nobody writes, the vector holds the database's names once each and
  the pages so far are a prefix of its sorted names from the first offset on. The
  vector is a count per name; `CountIs` says what a batch adds, and that sorting and
  cutting it gives what the page needs (a sorted sequence of each key as often as
  counted, cut at saturating positions) are the lemmas on `Sort`, `Total` and
  `Page`.
* *Session.* `Inv`: the connection keeps its four parts, and the command of a
  handler that is not to change data is harmless: no write, and none of SELECT,
  MULTI, EXEC, DISCARD. The invariant is needed because a handler's command is
  decided when it is called and sent later. `RequestHarmless` reads it off the
  allowlist and the fixed commands of the other methods, `HarmlessKeeps` shows
  that such a command leaves data, database and transaction alone even when a
  transaction is open (it is queued, and runs when `execute` sends EXEC).
  `SessionInv` adds the connection's types, that the connection is in the target's
  database, with no SELECT queued, until a SELECT is sent, and that a handler
  that explains a WRONGTYPE still sees the wrong type unless the key changed. A row
  write reads its result off the same reply that decides its effect: QUEUED means
  that nothing happened and that the command is last in the queue, or that the
  transaction was aborted. The
  effect of EXEC is a recursive function over the queue, of which an induction
  shows that it keeps types and, without a SELECT, the database.
* *Requests.* `Parsed` is the invariant of the loop over cells: after n cells it goes
  on exactly if they are all right and no two of one column, and it then holds
  what each of them says. The reference speaks of the list as a whole, so this
  gives `ParseRowWriteExact` by cases on the operation, and with it
  `MemoryRowWriteAgrees`. A field of a view is the value of its last line
  (`GreatestNat`), or of the database's first (`LeastNat`). For targets the proof
  follows a form's texts through trimming, defaults and parsing, for any limits.
  `CallInv` carries these facts to the behaviours of `Requests`.
* *Conversions.* `CallInv`: a call keeps its input, and once it has returned the
  answer is what its function computes. That is all the behaviours contribute; the
  rest is about the functions, for inputs of any size.
* *Clause loop.* `ThreeRounds` and the `Loop...` lemmas say where the loop of
  `parse_select` stands after each round. A clause is taken at most once, so after two
  clauses only an end, a terminator or an error is left: `ClausesAre` lists what a
  statement can be when the loop has not stopped. The grammar is closed under the
  two terminators the code takes (`StrippedIs`, `AcceptedIs`), which gives
  `ParseExact`. `ReportReplays` adds that quoting keeps every token, the empty one
  included, and that no hash is left bare (`SplitPlain`).
* *Tables.* `MetadataIs` reduces `command_metadata` to two sides, values stored or
  not; the advertised commands and the suggestions are found on theirs.
* *Cuts.* Sums of byte widths grow with the prefix (`BytesGrow`, `TotalSame`); the
  longest prefix that fits is the greatest element of a set (`MaxIs`), which is both
  `Lossy` and `CharBoundary`. The bytes of the decoded text equal those of the value
  up to the cut, unless a replacement is longer than what it replaces.
* *Collections.* Both reply shapes give the same pairs (`FlatPairs`,
  `NestedPairs`); of distinct fields `Inserted` keeps all. `PlacedIs` is the invariant of
  the sort: the members placed so far, once each, in order.
* *Trees.* A reply is nil, a scalar or made of smaller ones (`TreeParts`), by the depth
  they have; `ToJsonIs` obtains the equation of `to_json` by building it depth by depth
  (`JsonLocal`: one level needs it only on the parts). Leaves are gathered level by
  level: `BelowTop` and `BelowEach` peel off the first level and split a level into
  nodes, `BelowEnds` says that nothing lies below `MaxDepth`. `LevelsSpelled` is the
  induction: if every nested part can be said in JSON, the nodes n levels below
  a reply and n levels below its JSON are the same, attributes apart
  (`SpelledOut` for one level). From it `LeavesSpelled`, `CellShown` for one cell,
  and `ReplyShown` for the rows.

**Induction.** The provers cannot instantiate an operator parameter, so `Induction`
restates induction over sets: a set that has 0 and is closed under successor holds
every natural number (from the well-foundedness of the order), and sets of naturals
have least and bounded ones greatest elements. A recursive function's defining
equation is obtained by building its finite initial parts.

Every invariant and action property that a passing run checks is proved. Model-checked
only:
* liveness (`CancelAnswered`, `AnswerDelivered`, `ShutdownCompletes`,
  `HandlerReturns`, `ConnectionReleased`, `ReaderEnds`): fairness and ENABLED are
  out of the provers' reach;
* absence of deadlock, for the same reason;
* the four violations of section 5, which are counterexamples.

## 5. Findings

Shown by a run that expects a violation:
* `server_reused_id` (`src/server.rs:689`): the answer is sent before the
  registry entry is removed. A host that reuses the id at once gets its new entry
  deleted, and cannot cancel the new request.
* `browse_duplicate` (`src/redis_service.rs:1173`): keys SCAN returns twice are
  listed twice.
* `preview_zset` (`src/redis_service.rs:1313`): sorted sets are read as if ZRANGE
  sent a cursor; their previews are empty or show the second member only.
* `preview_edit` (`src/redis_service.rs:1226`): a preview is cut at 1024 bytes,
  without an ellipsis, while a value of up to 300 characters may be replaced. A
  string of 257 to 300 four-byte characters is editable though it was not shown
  whole.

Places where a comment says more than the code does, and what the models state
instead:
* `src/server.rs:281` says that `close()` gates all further output. The writer
  tests `open` before it writes, so one frame may follow: `AtMostOneLateFrame`.
* `src/redis_service.rs:1020` says that a closed session rejects commands without
  touching the network. A handler that has passed the test and waits for the mutex
  still sends, as long as the connection was held when `close` ran:
  `LateCommandBound`.
* `src/redis_service.rs:171` says that a statement is ended by a single `;`. A token
  `;;` of its own is accepted too: `TerminatedTwice` in `Statement`.
* Negative request ids are accepted and registered (`src/server.rs:665`), but
  `CancelRequest::id` is unsigned, so they cannot be canceled: the exception in
  `OriginalIdCancels`. A cancel that names its unsigned reading, an id of 2^63 or more,
  does reach it.

Met while modelling, where the properties say what holds instead:
* A native `MULTI` turns replies into QUEUED. `insert_row` takes any reply but nil
  for success and reports one row (`src/redis_service.rs:1343`) that does not exist
  until EXEC, if then. `delete_row` wants an integer and fails
  (`src/redis_service.rs:1328`), but its DEL is queued and EXEC deletes the row of a
  delete that was reported as failed. `RowWriteReported` says this of both.
* A native `SELECT n` moves the connection. `list_schema` and the browse then count
  and list another database than the one they name, until the connection is made
  anew; the server view does not, for it picks its own line of INFO keyspace
  (`AnswersDescribeDatabase`).
* A key that is not UTF-8 is listed under its lossily decoded name
  (`src/redis_service.rs:1173`). TYPE, the preview and a row write then name another
  key, mostly none; two such keys may share a name. `StableKeysListed` is about the
  names.
* In another handler's native `MULTI` the SCAN of a listing is answered QUEUED, which
  `browse_page` reads as the end (`src/redis_service.rs:1158`): the table is shown
  empty, without an error. `StableKeysListed` and `PagesPartition` except listings
  that were cut short.
* A hash or set preview shows what one HSCAN or SSCAN returned
  (`src/redis_service.rs:1236`, `:1277`), and nothing tells whether it is all.
  `PreviewsFaithful` speaks of what was returned.
* `cell` and `to_json` decode bulk strings lossily (`src/redis_service.rs:792`, `:809`):
  a GET of a value that is not UTF-8 does not show its bytes. `ScalarsShown` speaks
  of decoded texts.
* In nested maps, pairs whose keys have one text collide (a nil key and the text
  `null` among them), and the later one wins (`src/redis_service.rs:831`). At the
  top level both have a row. A nested infinite double becomes null.
* `README.md:122` says `SCAN 0` shows one row per key. `reply_rows` gives two rows,
  the cursor and the keys as one JSON array.
* Blanks around user and password are trimmed like those around host and port.
* The double's `row_write` ignores the identity of an insert and the values of a
  delete, which the Redis service rejects, and knows no column `type`. It replaces
  values of any length (`src/service.rs:819-844`), while `update_row` refuses to edit
  one of more than 300 characters (`src/redis_service.rs:1394-1401`): `OwnRules` in
  `Memory`.

## 6. Not modelled, and the plan

Not modelled for good:
* `MemoryService`'s fixed answers (schema, catalogue, browse fixture) and its SLEEP
  statement: data for the transport tests, and a wait that `Server` has as a
  handler that never returns.
* Percent-encoding (the url crate), shell quoting itself (the shell_words crate),
  and what the redis crate does on the network, beyond what the modules mark as
  external.
* Serde attributes, field names, the text of messages; formatting of durations.
* Packaging, CI and the release scripts.

What is left to do:
1. A connection timeout in `Server`'s `open`, should the driver get one: then a
   cancel is read after every open, and that is worth a liveness property.
2. Should `preview_zset`, `browse_page` or the order of answer and `remove` be fixed, the
   runs that expect a violation become passing ones; `HashShown` has the argument
   for the sorted sets, `PagesInOrder` and `RegistryIsExact` those for the others.
3. A text key that spells the JSON of another, compound key of the same map (`[1]`
   beside the array of 1) collides with it in the code. `Reply` keeps the two apart,
   so `ScalarsShown` is about maps without such a pair.
