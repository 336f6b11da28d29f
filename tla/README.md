# TLA+ models of ysd_hdb

ysd_hdb is a historical database service. Applications load a C DLL
(`src/dll`), build logical queries with it and send each query over a short
local TCP connection to a server process (`src/svr`), which turns it into SQL
for PostgreSQL. Rows of a dataset may be spread over one physical table per day.
This directory models the parts that hold the system together, checks them
with TLC on small instances, and proves what matters most about them with TLAPS
for every instance.

Contents: [system](#the-system) · [modules](#the-modules) ·
[runs](#the-runs) · [bounds](#bounds) · [fairness](#fairness) ·
[proofs](#proofs) · [findings](#findings) · [assumptions and limits](#assumptions-and-limits) ·
[plan](#plan)

## The system

| Component | State | Operations | What makes it correct |
|---|---|---|---|
| DLL sessions, request path (`dll/ysd_hdb_api.cpp`, `HdbDllRequest` and its callers) | sequence counter and last error text of an `HDB_SESSION` | `HdbPing`, `HdbQueryExecute`, `HdbQueryExecuteAffected` | a statement runs at most once; return codes tell the truth; a response and an error text reach the call they belong to; every call returns |
| Frame protocol, TCP transport (`common/HdbIpcProtocol`, `HdbIpcSocket`) | none beyond sockets and buffers | build, send, receive, check a frame | no half frame is ever handled |
| Server loop (`svr/ysd_hdb_svr.cpp`) | listening socket, one client connection, two frame buffers | accept, receive, handle, send, close | no descriptor is lost, no frame crosses iterations, a queued client is served |
| Command handler (`svr/HdbIpcCommandHandler.cpp`) | none | decode, build SQL, execute, convert, encode | the status it sends says what happened in the database |
| PostgreSQL adapter (`svr/HdbPgAdapter.cpp`) | `PGconn` and libpq's idea of its status | open, ping, execute | no statement on a dead link |
| Source handles (`dll/ysd_hdb_api.cpp`, `g_hdbActiveSources`) | process-wide table of live `HDB_SOURCE`s and its lock | create, validate, unregister, free | a stale or foreign handle is refused and never dereferenced; nothing leaks; the lock is given back |
| Query AST (`common/HdbQueryAst`, the `HdbQuery*` calls) | sources, lists, condition nodes, ON and WHERE roots | building calls, each of which may run out of memory | ids stay positions, trees stay acyclic, the ids a caller holds keep their meaning |
| AST codec (`common/HdbQueryAstCodec`) | none | `Encode`, `Decode` | what is encoded is decoded to the same query |
| Shard router, SQL builder, executor (`svr/HdbShardRouter`, `HdbQuerySqlBuilder`, `HdbQueryExecutor`) | rows in day tables (in PostgreSQL) | route range, table names, push-down, INSERT, SELECT with JOINs, UPDATE, DELETE | the day tables behave as one table |
| Result codec and cursor (`common/HdbIpcResultCodec`, `HdbResult*` in `dll/ysd_hdb_api.cpp`) | columns, rows and current row of an `HDB_RESULT` | encode, decode, `HdbResultNext`, the getters | every row is visited once, what is read is what is stored, nothing within the limits is refused |
| DSL builders (`dll/HdbQueryBuilder.h`: `CHdbCreate`, `CHdbDslQuery`, `CHdbDslDmlCore` and the step objects) | sticky error, query handle, bound sources, what is still to be added to the query | fluent calls, `fetch`, `execute`, reuse | a statement that is sent is the one the calls asked for; no UPDATE or DELETE without its WHERE; `on` and the server agree |
| Metadata code generator (`ysd_hdb_meta_codegen`), generated metadata, dataset registry (`svr/HdbDatasetRegistry`) | read-only tables once built | read the `hdb_*` tables, write field and dataset arrays; lookup and validation | each table is described by one dataset, with its own columns, key and route time |
| Model CRUD (`svr/HdbModelCrud`; linked into the server, called by nothing in it yet) | none | insert, update, delete, select by primary key through a C struct | a call touches the row of its key only; what is read and written back is kept as far as the struct can hold it |
| Smoke test, vendored PostgreSQL headers and libraries | | | not modelled: a test program and third-party code |

How they interact: a query is built in the application's process from AST
nodes; the handles the application holds are addresses that the source table
validates. Executing it encodes the AST to text, wraps it in a frame and opens
one TCP connection per request. The server handles one connection at a time:
decode, resolve the route range into day tables, build SQL, run it through the
adapter, answer on the same connection, close. Processes share nothing else;
threads of one DLL process share the source table and, if the application lets
them, an `HDB_SESSION`.

What is hard: a request whose connection is lost may or may not have been
executed, may even be executed later; sequences of different processes collide;
the session's counter and error text are unprotected; the table of sources is
used by index under a lock that several early returns leave; memory may run
out between the steps of one building call; a route range derived from a
condition tree must never prune a day with a matching row; a builder object
outlives its statements, and its step objects outlive their chains; and two
implementations of the rule for ON conditions, one in the DLL's header and one
in the server, must not come apart.
`PROJECT.json` lists these hazards at their lines, with the properties that
cover them or the reason none does.

## The modules

| Module | Models |
|---|---|
| `HdbIpc` | the request path, from `HdbDllRequest` through TCP and the server loop to the adapter, with the faults the code reacts to |
| `HdbCall` | abstract: what a caller may rely on, with no transport and no server in sight |
| `HdbIpcCall` | the refinement mapping from `HdbIpc` to `HdbCall` |
| `MCHdbIpc` | session and command assignments for TLC |
| `HdbIpcProofs`, `HdbIpcCallProofs` | the proofs about the above |
| `HdbSourceRegistryProofs`, `HdbQueryAstProofs`, `HdbShardedTableProofs`, `HdbDslContextProofs`, `HdbModelCrudProofs`, `HdbResultProofs` | the proofs about the modules they are named after |
| `HdbSourceRegistry` | the table of active sources, its lock, and the calls that create, validate and free handles |
| `HdbQueryAst`, `MCHdbQueryAst` | the query under construction, with allocation failures, and the codec |
| `HdbLogicalTable` | abstract: a dataset as a single table of rows, which a SELECT may join with fixed tables; the meaning of the SQL operators |
| `HdbShardedTable`, `MCHdbShardedTable` | a day-sharded dataset and the statements the SQL builder makes for it; implements `HdbLogicalTable` |
| `HdbResult`, `MCHdbResult` | the rows of a SELECT from PostgreSQL through codec and frame body to the cursor and the getters |
| `HdbJoinOn` | which ON conditions the SQL builder takes for a JOIN, and what that rule is for |
| `HdbDslContext`, `MCHdbDslContext` | the fluent builders of the DLL's header on top of `HdbQueryAst`, and the server's guards on the query they hand over |
| `HdbMetaCodegen` | the metadata generator and the registry's validation, as operators |
| `HdbModelCrud`, `MCHdbModelCrud` | CRUD of single records by generated metadata, beside another client |

### HdbIpc

A *call* is one execution of an API function. It owns one connection and one
request frame, so the call names all of them. Each line of unprotected code on
shared session state is a step: `LoadSequence`, `StoreSequence` and
`WrapSequence` are the three accesses of `HdbDllNextSequence`; `Fail` writes
`session->lastError` and `CopyError` is the caller's later read of it.
`Connect` takes a place in the listen queue; `SendPart`, `RecvFrame`,
`SendFrame` and `RecvResponse` move frames in `FrameParts` units, so a process
may die with half a frame on the wire. The server's `Accept`, `RecvFrame`,
`HandleRequest`, `SendFrame`, `Close` are the body of the loop of
`RunIpcServer`; both frame buffers are locals of an iteration and reset by
`Accept`. `HandleRequest` is the whole handler: decode and build (refusal), the
adapter (`AdapterExec`), conversion and encoding of the reply (which can fail
after the statement ran). `AdapterExec` separates what libpq remembers of the
link (`dbStatus`) from the link itself (`dbAlive`).

Faults, at most `MaxFaults` of them: the server process dies (and may be
started again), a DLL process dies, a connection is reset, the database link
breaks, also under a statement.

Data left out: bodies, checksums and sizes (a damaged frame is a failed
receive), and what a statement computes; `executed` counts how often the
database ran it.

### HdbSourceRegistry

Every API function that takes a query is split where another thread can get
in between: before and after each guarded block and, inside a guarded block,
between the lookup and the use of what it found (so that a lock missing from
one of them shows). Memory is explicit: `heap` says what an address holds, an
address is handed out again after `delete`, and `new` and both `push_back`
calls may fail. A failure is followed by storing its text, which may run out of
memory as well: the exception then leaves `HdbQueryFrom`, `HdbQueryJoin` or
`HdbQueryJoinOn` before the new source is taken out of the AST (`CreateFails`;
`JoinOnFails` is the same inside `AddJoinSourceOn`), so the AST may have sources
without a handle and the id of a later handle runs ahead of its place. The
application may pass any handle it was ever given.

### HdbQueryAst

The operators `AddRootSource`, `AddJoinSource`, `SetJoinOnRoot`, ... are the
methods of `CHdbQueryAst`; the actions are the `HdbQuery*` calls with their
guards and with the state each leaves behind when memory runs out in the middle.
Where the text of that error cannot be stored either, `HdbQueryFrom` and
`HdbQueryJoin` leave their source in the query. `Encode` makes the sequence of
lines, `Decode` reads them one by one into a fresh query with the checks of each
`Decode*` method, in their order.

### HdbShardedTable

`LocalDayStart`, `NextLocalDayStart` and `DayTables` are the router's loop over
local days; `Mktime` is the C library's treatment of a local time that does not
exist. `AndedNodes`, `Begins`, `Ends` and `RangeCode` are
`ResolveRouteTimeRange`. `RootRows` is the UNION over the day tables with the
columns of `CollectRootColumns` and the pushed-down conditions, `Select` joins
it with fixed tables (`BuildJoins`, after `ResolveSources` and the ON rule of
`HdbJoinOn`), filters by what was not pushed down, orders and cuts the page;
`DmlRows` is the WHERE clause of UPDATE and DELETE. All compare stamps, the
local time text that is really stored. `HdbLogicalTable` says what the same
query means with every condition after the joins and no columns left out;
`OnlyMissingTablesFail` says that the union returns the columns the rest of the
statement names (`OuterColumns`, read off the statement). The meaning of JOIN,
ORDER BY, LIMIT and NULL is PostgreSQL's and the two modules share it. `IsQuery`
says which queries callers can send: ids are positions, children stand before
their group (`AstWellFormed`, proved in `HdbQueryAstProofs`), every reference is
a field of a source (`ResolveFieldRef`) and a time is compared with a time (what
`ValidateFieldCompare` refuses with `HDB_ERR_TYPE_MISMATCH` is left out); TLC
evaluates it for every query of the run. Refusals come in the code's order and
with its codes: `SourceCode` source by source, `JoinsRefusal` and
`HdbJoinOn!JoinOnRefusal` at the first node of the first ON condition refused.
`Send`, `Execute` and `Return` are one request; the server has one request in
its hands at a time (see `HdbIpc`).

### HdbResult

`HdbQueryExecute` is the whole request without faults (they are `HdbIpc`'s):
the statement's limit (`Answer`), libpq's texts (`Printed`), the executor's
reading of timestamps (`Normalizes`, `CellOf`), the command handler's encoding
(`EncodeSchema`, `EncodeRows`, `Body`), the field reader and the decoders of
the DLL, which read any sequence of units and refuse what does not parse, and
`FillResult`. Then the caller moves the cursor and calls getters in any order
with any of its names and buffers; `told` is what the last call gave it. The
properties compare that with `page`, the cells in the database, and with
`SizeOf`, a count of the units a body needs that shares nothing with the
encoder.

### HdbJoinOn and HdbDslContext

`HdbDslContext` instantiates `HdbQueryAst` for what each `HdbQuery*` call does
to a query, so that one copy of the AST serves both. Its variable `builder`
holds the members of `CHdbDslQuery` (or of `CHdbDslDmlCore`, whose part of them
is the same), `failed` the sticky error `m_error`. `Begin` and `Start` are
`Reset`; `Select`, `OrderBy`, `Where`, `Set`, ... only collect, as in the code,
and `JoinOn`, `Fetch` and `Execute` make the calls in the code's order, any of
which may run out of memory: `NodesReached` and `FieldsReached` say how far they
can get, and what was added until then stays in the query. A call whose error
text cannot be stored either may keep its source (`HdbQueryAst`). `held` is the
set of step objects the caller still has; all of them drive the one DML core. A
field is reduced to its dataset, because that is all the builders decide by.

`asked` keeps what the calls since the last start asked for, `sent` the
statement of the last hand-over and whether the server ran it. `SentAsAsked`
compares the two as trees and lists, so the ids the builder chose do not matter.

`TakesOn` is the header's judgement of an ON condition and
`HdbJoinOn!ValidateJoinOnCondition` the server's; both unfold the tree into its
OR branches, and `Relates` says without branches what the rule is for: no row
pair may satisfy the condition unless one of its comparisons relates the joined
source to an earlier one. `BuilderAgreesWithServer` puts every small condition
to both judges in every state of the builder; `JoinsRelate` compares the
server's with `Relates` for a C caller, who may use a node in two groups.

### HdbMetaCodegen and HdbModelCrud

`ReadSchema` is `HdbReadSchema` over a set of tables: types are mapped, tables
are taken in the order of their names, and each becomes a dataset or joins one.
`Describes` is the reference: it looks at the tables and not at how the list was
built. `HdbModelCrud` runs the generator in its first step and uses the first
dataset's fields. Texts are sequences of bytes in which a character may take
two, so that cutting a text can cut a character. A time is epoch milliseconds in
a struct and local time in a row: `LocalTime` stands for `localtime`, `Mktime` for
`mktime`, which gives up with -1 (the code then reads 0) and makes something of a
local time that the clock skips; `ReadFraction` is what becomes of a fraction
that PostgreSQL prints without its trailing zeros. `OtherWrites` is another
client, which may store any local time. A statement may fail, and its
failure may be reported although it was run.

## The runs

| Run | Question | Properties |
|---|---|---|
| `ipc_serial` | With sessions used by one call at a time, as the smoke test does: is a statement run at most once, is every code true, does every response and error text reach its call, is every connection accounted for? Three calls in two sessions (both start at sequence 1 and the counter wraps), a listen queue of one, frames of two parts, one fault of any kind at any point. | `TypeOK` `AtMostOnce` `OutcomeHonest` `OwnResponse` `ConnectionsAccounted` `ErrorTextIsOwn` `AnsweredIsSettled` |
| `ipc_shared` | With two threads on one session: does the path still implement the caller's contract, and does every started call return and every queued connection get drained? | `ImplementsCall` `CallReturns` `ConnectionDrained` |
| `source_registry` | Do two threads with stale, foreign and reused handles, and with allocations failing anywhere, ever touch freed memory, confuse queries, leak, or keep the lock? | `TypeOK` `ListedIsAlive` `NoStaleAccess` `ValidatedIsOwn` `QuietIsExact` `LockReleased` |
| `query_ast` | Over every order of building calls with failing allocations: do ids stay positions and trees acyclic, do the caller's names keep their meaning, is the wire faithful? | `TypeOK` `AstWellFormed` `NamesKeepMeaning` `WireFaithful` |
| `shard_day` | Does a day-sharded dataset behave as one table, over queries that give their range in every way the code reads (time range, every comparison, BETWEEN, AND and OR groups, nested), with a missing table, a range that is too long and a daylight saving gap inside a day, also below left and inner JOINs, ordered and paged? | `TypeOK` `RowsInTheirDay` `TablesAreTheDays` `OnlyMissingTablesFail` `ImplementsLogicalTable` |
| `result_page` | Over tables at and beyond every limit (rows, columns, cell, body), with NULLs, empty texts, numbers out of range, a text in a time column and two columns of one name: does the caller get every row, once and in order, with the stored values, or a refusal that is deserved, and does asking again with the required size work? | `TypeOK` `ReadsAreTrue` `PageIsWhole` `RefusedForSize` `StringAsAsked` |
| `dsl` | Over chains of calls on reused builders, with memory running out anywhere, lost answers and step objects from earlier chains: is what is sent what was asked, can an UPDATE or DELETE run without its WHERE, and do the two judges of an ON condition agree with each other and with what the rule is for? | `TypeOK` `SentAsAsked` `NoUnfilteredWrite` `BuilderAgreesWithServer` `JoinsRelate` |
| `model_crud` | For fourteen databases, good and bad: do the generated metadata describe the tables? And do the CRUD calls made by them touch one row, tell the truth, and keep what the caller did not change, except exactly where the struct cannot hold it? | `TypeOK` `GeneratedDescribes` `WritesOneRow` `ReadThenWriteKeeps` |
| `ipc_sequence_zero`, `shard_update`, `shard_skipped_midnight`, `result_timestamp` | Counterexamples, see [findings](#findings) | one each |

`ImplementsCall` is worth spelling out: `HdbCall` allows a call to be applied
late only if its whole request had been sent and its answer was lost, forbids a
second application for ever, ties `HDB_OK` to "applied" and a refusal to "not
applied", and lets nothing settled change. `ImplementsLogicalTable` allows a
statement to be refused, but whatever is answered must be exactly what one
table would answer, up to the choice of rows when a limit cuts them.

Every property of a passing run has a mutant in the module it is about: an
operator named in `PROJECT.json` that replaces a definition by a plausible
mistake (a retry, a leaked descriptor, a lock released early, an off-by-one in
the last day, the bounds of an OR group used for pruning) and makes that
property fail.

## Bounds

* `ipc_serial`: 3 calls, 2 sessions, `SeqSpace = 2` (2^32 in the code; small
  so that the wrap and collisions happen at once), `Backlog = 1` (16), one
  fault. Two calls are enough to meet at any resource; the third lets one be
  served while a second waits and a third is refused by the full queue.
* `ipc_shared`: 2 calls on 1 session; the unprotected state is per session and
  a race needs two. One fault, so that a call can be cut off at every place.
* `source_registry`: 2 threads, 2 query addresses, 2 source addresses, 3 sources
  per query: an address is freed, reused by the other query and validated by
  its old owner, and a query has two handles with a source in between that has
  none.
* `query_ast`: a root and one JOIN, one item and two conditions in the limits of
  the codec and one more of each in the query (`AstBound`), so that every count
  is reached and exceeded; condition ids up to one past the end are passed.
* `shard_day`: 2 rows, route times on both sides of every day boundary, 5 days
  of which one has no table, at most 3 tables per query (3660), a default limit
  of 2 (1000). Joins with a table of two rows, one and two of them, where some
  rows find a partner and some do not; ON conditions refused for a BETWEEN, a
  branch without an anchor, a source joined later, and for one behind another;
  offsets 0 to 2 past fewer rows.
* `result_page`: at most 3 rows and columns (10000, 1024), 5 characters in a cell
  (1 MiB), 50 units in a body (16 MiB), tables of 4 rows, so that each limit is
  met and exceeded by one; pages of all limits at three offsets; integers of at
  most 50 and 99999 (2^31 - 1 and 2^63 - 1). The fractions of its moments are
  printed with all three digits or none; the others are `result_timestamp`. Local
  time is a second ahead, and `mktime` gives up on one of the local times.
* `dsl`: 3 datasets, chains of 7 calls (`CallBound`): a statement of four or
  five calls and the begin of the next on the same builder, or a repeated
  `fetch`. Datasets are symmetric. ON conditions: about a thousand trees of up
  to three leaves (`OnCandidates`); of a C caller, every DAG of 5 nodes over 5
  kinds of leaves (`NodeBound`). `MaxConditions` is 4 (256), below two rounds of
  a condition of three nodes; at most 3 sources (64), 2 items of each kind. Limits
  one past `MaxLimit` and a negative one are passed too.
* `model_crud`: 2 rows, char arrays of 2 bytes, texts of one, two and three bytes
  (the last two characters), the fractions .005, which survives, and .500, which
  does not; keys of one and of two numbers, a key that is a text, and none. Of
  the local times another client stores, one is skipped by the clock and `mktime`
  gives up on the other.

The proofs need none of these bounds: they hold for every value of the
constants that the assumptions allow.

## Fairness

`ipc_shared` assumes weak fairness of a call's steps once it has begun
(`Progress(k)`: a running thread keeps running; the steps of a call that waits
in `recv` are enabled when data, a close or a reset arrives) and of the
server's loop (`ServerStep`: `accept`, `recv` and `send` block on nothing but
their own socket, in one thread). Nothing is assumed of the application (to
start a call), of whoever starts the server, or of faults. `source_registry`
assumes weak fairness of a thread inside a call; nothing makes the mutex fair,
and `LockReleased` does not need it.

## Proofs

Each proof module holds the theorems about one component: an inductive
invariant, one lemma per action with one step per part of the invariant that
the action can disturb, and the invariants of the runs as its consequences.
TLC checked each inductive invariant on the run's instance before it was proved.

**Request path** (`HdbIpcProofs`, `HdbIpcCallProofs`; any sets of calls and
sessions, any assignment of calls to sessions and commands, any sequence space,
frame size, queue length and number of faults: `IpcAssumption`,
`NoFrameAssumption`). Proved: `TypeOK`, `ConnectionsAccounted`, `AtMostOnce`,
`OutcomeHonest`, `OwnResponse`, the action property `AnsweredIsSettled`, that
`Spec` implements `HdbCall`, and, with `Serial`, `ErrorTextIsOwn`.

None of these is inductive alone. `IInv` has four parts. `TypeOK` and
`ConnectionsAccounted` say that the server's current connection and the listen
queue are disjoint and repeat nothing, without which a connection could be
served twice. `ServingInv` follows the one connection in service: from `Accept`
until `HandleRequest` its call is untouched, in `HandleRequest` the request frame
is its own and complete, and the response waiting to be sent is truthful.
`CallInv(k)` follows one call: nothing happens to it before its connection is
accepted, `executed[k] <= 1`, a response frame on its connection names it and
tells the truth, and a code other than `HDB_ERR_NOT_CONNECTED` was returned only
before connecting or after its response was on the wire. The last conjunct is
what makes `AnsweredIsSettled` and the refinement provable: a settled call
cannot be in the server's hands before `HandleRequest`. For the refinement, each
step is a stutter, a `Start`, an `Apply` (only `HandleRequest`, `HandleApplies`),
an `Answer` (`ResponseEnds`) or an `Abandon` (transport failures and deaths,
`FailuresEnd`, `DllDiesAbandons`). `SerialInv` adds, for sessions used by one call
at a time, that a call between its start and its return is alone on its session
and that the text of a failed one stays the session's until it is copied.

**Source handles** (`HdbSourceRegistryProofs`; any threads, queries, addresses
and sources per query: `RegistryAssumption`). Proved: all five invariants of the
run. `IInv` ties four views of one source together: memory (`BlockInv`: an
allocated source is kept by its query and not yet passed by the loop that frees
it, or is in the hand of the query's thread; and it is in the table, or that
thread is just about to put it there or has just taken it out), the table
(`TableInv`: nothing twice, nothing freed), the query (`QueryInv`: what it keeps
and has not freed are blocks of its own, with ascending ids below `Room`, the
number of sources of its AST but for the one its thread is adding or taking
back) and the call in progress (`CallInv`, `BuildInv`, `FreeInv`, `HandInv`:
what the thread has in hand, and that being inside a guarded block and owning
the lock are the same). Ids and places need not agree, since a failed call may
leave a source in the AST; that ids ascend and stay below `Room` is what still
makes a validated id name one source. `Exclusion` follows from the last and
makes the index found by one statement good in the next. Frame lemmas
(`OtherThread`, `OtherBlock`, `OtherQuery`, `HandsDiffer`) say that a step
disturbs nobody else's part: two threads never hold the same source.
`IndexOfListed`, `AppendListed` and `RemoveListed` are about the table as a
sequence. `QuietIsExact` is then the invariant with every thread idle.

**Query AST** (`HdbQueryAstProofs`; any datasets, any of the four lists, any
limits and bounds: `AstAssumption`). Proved: `TypeOK`, `AstWellFormed`,
`NamesKeepMeaning`, `WireFaithful`.
`AstWellFormed` is not inductive: `HdbQueryFrom` clears the whole query when it
runs out of memory for the handle, and a condition the query held until then
would lose its name. `Rooted` is what rules that out: without a source there is
no condition, since every condition names a source. Each operation of
`CHdbQueryAst` has a lemma (`AddRootOk`, `AddJoinOk`, `SetJoinOnOk`,
`AddConditionOk`, `DropLastOk`, ...) that it keeps a good query good; each call is
then a composition, also where memory ends half-way (`JoinOnFailsStep`).
`StepKeeps` reduces `NamesKeepMeaning` to "what a query named is still there",
and a call that takes something back shows that nobody was told its name.
`WireFaithful` says more than `Encode` checks: it never looks at the sources a
condition names, and `Decode` refuses one that is not there. `Named` fills the
gap: a condition is built from handles, which name sources, and the only call that
takes a source from under a condition sets `lost` (`NamedStep`). A good, named
query is then read back (`RoundTrip`). `Reads` is the loop of `Decode`;
`Half` is the query after part of its text, so that what one line must do is a
lemma of its own (`SourceLineRead`, `ItemLineRead`, `ConditionLineRead`, ...):
the guards of `Decode` pass there because parents and children came in earlier
lines (`GoodAst`) and because `Encode` keeps the same limits. `PartRead` carries
this through a list of any length, and `EncodedRead` from one part to the next.

**Day tables** (`HdbShardedTableProofs`; any calendar of an ascending clock,
any queries, rows, fixed tables and limits: `ShardAssumption`, `ClockAssumption`,
`QueryAssumption`, `FixedAssumption`). Proved: `NamedDaysExact`
(`TablesAreTheDays`) and `TypeOK` for calendars in which no midnight is skipped,
`RowsStayInTheirDay` (`RowsInTheirDay`) where the route field cannot be updated,
`OnlyMissingTables` (`OnlyMissingTablesFail`) without hypotheses, and, under both,
`DayTablesAreOneTable`: the specification implements `HdbLogicalTable`. The two
hypotheses are not conveniences: the runs `shard_skipped_midnight` and
`shard_update` show what goes wrong without each, and nothing else was needed.

*Days.* In `DayTablesExact`, under `NoMidnightSkipped`, `Mktime` finds the first
instant of every day the loop asks for, so the loop's recursive function equals
a closed form, the days from its first to its last, and the half-open end falls
on the right side (`DaysOfRange`). `RouteRange` and `AcceptedTables` carry it
through the range checks.

*Trees.* Four recursions run over a condition tree: the leaves it holds, the
leaves that hold for every matching row (`AndedNodes`), the anchors of an ON
condition, and its truth. `Computes` is what they have in common, so that their
existence is proved once (children stand before their parents) and facts that
relate two of them by the least node at which the relation fails. `AndedHold`:
what a tree says, each of its anded leaves says. Hence `MatchesInRange`: a row
that satisfies a query whose range is accepted lies in the route range, and no
row of a pruned day matches. `LeafSame` and `TreeStored`: a leaf and a tree mean
the same of stored rows, with their values made stamps, as of logical ones,
because the clock ascends and a time is only ever compared with a time.

*Columns.* `OuterColumns` is read off the trees, `RootColumns` off the flat list
of conditions; what a tree reaches is in that list, so nothing is missing.

*JOINs.* `SubSelects`: the sub-selects return exactly the rows of the table that
lie in the range and satisfy the root's where items. These hold or fail alike
before and after a LEFT JOIN, since the root's part of a joined row never becomes
NULL. An ON condition that `HdbJoinOn` accepts names only sources joined so far,
so it reads the same from a row still without its later partners; `JoinStep`
adds one source on both sides, and `JoinedStored` is the least source at which
the two would differ. So `FoundSame`: the joined rows found in the day tables are
the stored images of those the logical table gives, one for one. `OrderSame` and
`OutputSame` then carry ORDER BY and the select list over, `PagesSame` the pages.

*UPDATE and DELETE* name one table; by `MatchesInRange` and `RowsInv` all rows
they match are in it (`HitSame`, `HitCount`, `OneTable`), and replacing them
there is replacing them in the union (`LogicalReplaced`). `TableInv` is the
inductive invariant: every stored row is a row of its table's day, keys occur
once, the tables are finite, and an INSERT in the server's hands brings a new
key. Without the last two a count of rows hit in one table would not be the
count in the union.

**Builders** (`HdbDslContextProofs`; any datasets, conditions, times, limits and
numbers of calls: `DslAssumption`). Proved: all that `dsl` checks. What is sent
is as asked because of what holds before: `IInv` says that a builder without an
error `Holds` what its client asked for, in three parts. `GoodQuery`: sources
are numbered by position, items and condition nodes name sources of the query,
children of a group come before it. `Binds`: the builder's table of bound
datasets is the query's list of sources, so that `FindSource` finds the source
of that dataset (`BoundSource`). `Meant`: the query has the sources, ON trees,
times and limit that were asked for, the lists and the WHERE are collected in
the builder, and what a mark says was added is there. Nothing is claimed of a
builder with an error: what it added half-way stays in the query, but nothing of
it is handed over. Conditions are compared as trees whatever ids they got:
`Tree` is a recursive function, so first it is shown to exist (`TreesExist`),
then that it does not change when nodes are added behind (`TreesKept`) and that
a copy of a condition behind other nodes stands for the same tree
(`AddedCondition`). `DslAssumption` asks of the conditions that every node but
the last is a child of a later one; `LeafIsCondition` and `ConnectIsCondition`
prove it of everything the header's constructors, `&&` and `||` make.

The rule for an ON condition is a product of branches: a leaf has one, OR lists
the branches of its children one after another, AND pairs every branch of one
child with every branch of the next. All that matters of a list is whether it is
empty and whether one of its branches is `Open` (has no anchor), and that is
simple: OR has an open branch if a child has one, AND if every child has one
(`FlattenOpen`, `MergeOpen`, `GroupOpen`). So "no open branch" is "false when
exactly the anchors are false" (`NodesJudge`), and since truth grows with the
leaves that are true (`TruthGrows`), the server's test is the one `Relates` states
over row pairs (`BranchesRelate`, `AcceptedJoinsRelate`), also for nodes used
twice. `JudgesAgree` compares the two implementations node by node: the nodes of
the query stand behind `base` others with ids for names, a name is bound to the
new source's id exactly if it is the new dataset (`NameStands`), so leaf by leaf
and group by group the branches are equal (`NodesAgree`); that `on` also looks
for an anchor outside the branches changes nothing (`OpenWithoutAnchor`). For the
statements that leave, `JoinsInv` carries `JoinsAccepted` through every call: the
branches of a join do not change while the query grows (`AnchorsKept`), and the
parent `on` computes is an earlier source (`ParentBefore`).

**Generator and CRUD** (`HdbModelCrudProofs`; any databases, values and rows).
Proved: `TypeOK`, `GeneratedDescribes`, `WritesOneRow`, `ReadThenWriteKeeps`.
`CrudAssumption` says what a database gives the generator: a table name once, no
table without columns. First the generator: the tables can be put in the order
of the `std::map` (`OrderExists`), the loop over them can be followed to its end
(`ReadingExists`), and after each table the datasets are `GoodDatasets` of the
tables read so far, the first of them with the fields of the first table
(`ReadingKeeps`): that two datasets never share a name, and that a dataset has
the fields of *every* table it holds, is what makes a further table safe to add.
Then CRUD: `IInv` adds to the types that the metadata are those of the database,
that no two rows have one key (`KeysUnique`) and that the key in a struct that
was read is the key of its row as it was read (`OriginKept`). With these the
`WHERE` of the key fields finds one row or none (`FoundByKey`), because the
fields marked as key are the columns of the key (`DefIsColumns`). `RoundTrip` is
the lemma about values: what `SetFieldValue` stores and `BuildFieldValue` sends
is the value read if and only if it `Survives`. Of `LocalTime` and `Mktime` it
takes any two functions that fit together (`ClockAssumption`): the results of
each are arguments of the other, and `mktime` does not give up on the local time
of the epoch, so the 0 read for a time it gave up on is never taken for that
time.

**Results** (`HdbResultProofs`; any tables, limits, buffers and integer widths:
`ResultAssumption`). Proved: `TypeOK`, `PageIsWhole`, `RefusedForSize`,
`StringAsAsked`, and `ReadsAreTrue` where no fraction of a second ends in a zero
(`FractionsKept`; run `result_timestamp` shows that it fails otherwise).
`ResultAssumption` says of a table that its rows have a cell for each column and
that a cell holds a moment only in a column declared as a time; names may
repeat; `Mktime` may be any function with numbers or -1 for values. The heart is
`RoundTrip`: within the limits, `Received` undoes `Body`. It says of every part
of a body where it `Stands`: parts joined by `FlattenSeq` stand behind one
another (`PartsStand`), a decoder that starts where the code of a text, a cell,
a row or a page stands reads that text, cell, row or page and stops right behind
it (`TextRead`, `CellRead`, `RowRead`, `PageRead`), and the field reader cuts a
body into the two fields it was joined from (`FieldRead`). The decoders trust
nothing, so each step must also show that their checks pass: that follows from
the encoder's. `IInv` adds what the getters need: `PageIn` (the page is what a
statement can answer), `HandleIs` (the handle is `Convert` of the page),
`CursorIn` (the rows visited are exactly those up to the cursor) and
`RequiredIs` (a caller told that its buffer is too small was told one more than
the length of a text it may read, and still may). `PageIsWhole` needs the second
and third: no further row of the handle means none of the page. `ReadsAreTrue`
needs `CellOfIs`: a printed number, text or moment is read back as itself, by
`Number` undoing `Digits` (`DigitsStandForIt`). For `RefusedForSize`, `SizeOf`
is shown to be the length of the body (`NamesSize`, `CellsSize`, `RowsSize`),
although it is counted from the cells.

The prover has no induction over data, but a set of naturals without the
property has a least element (`LeastNatural`, from `WFMin` and the
well-foundedness of `<`), and that proves what induction over numbers would:
uniqueness of `DayTables` by a least position at which two solutions differ,
existence of the trees of a condition by a least number of nodes without one,
that two readings of a condition agree by the first node at which they differ,
what holds of the generator's loop by a least table after which it does not,
that two loops agree by the first pass after which they differ (`UpTo`,
`SameLoop`), that the recursive functions of `HdbResult` have solutions, and
where the loop of `Decode` stands after each part of a text.

Only model-checked: `CallReturns`, `ConnectionDrained` and `LockReleased`
(liveness under fairness is out of reach of the prover).

## Findings

* `ipc_sequence_zero`: two threads on one session can send sequence 0, which a
  comment reserves.
* `shard_update`: the shipped metadata let the route field be updated; the row
  stays in the table of its old day and is no longer found.
* `shard_skipped_midnight`: where daylight saving starts at midnight the router
  misses the last day of a range.
* `result_timestamp`: PostgreSQL prints `.500` as `.5` and the executor reads
  `.5` as 5 ms, so a time whose milliseconds end in 0 comes back as another.

`PROJECT.json` quotes the lines. `shard_day` is run with `RouteUpdatable =
FALSE` and a calendar whose gap is not at midnight: what holds apart from
`shard_update` and `shard_skipped_midnight`.

## Assumptions and limits

* A peer that vanishes silently (no reset, no close) is not modelled; neither
  side has a receive timeout, so such a loss blocks a call and the server.
* `Clock` has no hour that occurs twice: the stored local time has no offset,
  so during the hour repeated in autumn two instants share a stamp and no
  single-table reading of them exists.
* An insert uses a fresh primary key; a duplicate is one of the rejections of
  `AdapterExec`, not a case of the table model.
* A freed `HDB_QUERY` is never passed again; the DLL does not guard against it.
* An `HDB_SOURCE` and an `HDB_QUERY` belong to one thread at a time, as
  `ysd_hdb_c.h` demands.
* A read of freed memory in `ValidateRead` may give any block; the run shows it
  does not happen.
* `HdbShardedTable` knows no times between its instants; number formatting,
  field metadata, LIKE and SQL quoting are not modelled. The root of its queries
  is day-sharded; for other shard types `HdbQueryTimeRange` is a condition
  (`HDB_SHARD_DB_PARTITION`) or ignored (`HDB_SHARD_NONE`), although
  `ysd_hdb_c.h:95` says the server adds the range. An answer is a set of rows
  where SQL has a bag, so `IsQuery` asks of a SELECT that it returns the key of
  the root. Route times in conditions lie in the calendar (`0 .. MaxTime`). The
  route field is a timestamp: the builder also takes one declared
  `HDB_FT_INT64`, but compares it with the text of a local time
  (`HdbQuerySqlBuilder.cpp:766`), which PostgreSQL refuses.
* `README.md:176` says a query on day tables must be given a time range and that
  conditions on the time do not replace it; `ResolveRouteTimeRange` takes the
  range from them too, as modelled.
* `HdbResult` has no signs, and so no moment before the epoch, no doubles and no
  failing allocations. What `mktime` makes of a moment is `EpochMs`; a page with
  a local time it gives up on (-1, which is also the second before the epoch) is
  refused as a whole (`HDB_ERR_TYPE_MISMATCH`). Of two
  selected fields with one output name a getter finds the first, and
  `ReadsAreTrue` means that one.
* `HDB_ERR_NOT_CONNECTED` (`HdbCommon.h:15`: not established yet) is also what
  a caller gets for a statement that was run and whose answer was lost;
  `OutcomeHonest` and `HdbCall` allow it, because nothing in the DLL could tell.
  `CheckConnected` reads what libpq remembers of the link, so the first statement
  after a loss fails with `HDB_ERR_DB_EXEC`, and nothing reconnects.
* `HdbDslContext` has fixed tables only, no offset, and no output names; the
  reading side of the DSL (`CHdbDslResult`, `fetchInto`) is not modelled, nor is
  a builder used by two threads. `README.md` calls the entry class
  `CHdbDslContext`, the code `CHdbCreate`; it allows a dataset several times in
  a query, which the C calls do and the builder refuses (`HdbQueryBuilder.h:1458`).
  Fields selected after a first `fetch` are not sent, a repeated `fetch` adds the
  WHERE nodes again, and `leftJoin` without `on` joins nothing; `SentAsAsked`
  says so for the first and allows the others.
* What does not survive a struct in `HdbModelCrud` (`Survives`): NULL, a text as
  long as its column, a fraction that ends in zero, a local time the clock skips
  or `mktime` gives up on. Microseconds, dates PostgreSQL prints in other ways
  (`infinity`, BC) and a failing `localtime` are left out. A text key that is cut names
  no row or another one. A change by another client between a read and an update
  is lost. Fields of the other types (int, short, double) are left out.
* The generator is modelled up to the arrays it writes; that two names become
  one C++ identifier, or that it fails between its three files, is not. A suffix
  of eight digits is a day for it, whether the calendar has it or not.
* Of the lines in the repository about 70000 are vendored PostgreSQL server
  headers (`svr/include`), of which the program uses the client interface alone;
  they are third-party code and not modelled.

## Plan

1. Done: request path, caller's contract, their proofs; source table; AST and
   codec; day tables against a logical table, with
   JOINs and paging; result codec and cursor; the DSL
   builders and ON conditions; metadata generator and CRUD.
2. Done: proofs about the source table, the AST and its codec, the day tables with their
   refinement of the logical table, error texts of serial sessions, the builders
   with ON conditions, the generator and CRUD, and results.
3. To model: the other shard types as the root of a query; signs and doubles in
   `HdbResult`.
