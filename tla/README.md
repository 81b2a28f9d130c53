# The MongoDB Go driver in TLA+

This directory models the driver from its connection pool up to the client's
calls: pooling and discovery, where goroutines meet; sessions, transactions and
retries, where the network loses things; cursors, change streams, bulk writes and
GridFS, where one call is many commands; and the codecs and BSON machines, where
values must come back as they were. The modules are checked by TLC on small
instances. The safety properties of the pool, the topology, the monitor of a server,
the session pool, transactions, bulk writes, change streams, legacy cursors, server
selection and the codec registry are also proved with TLAPS, for any number of
goroutines, servers, sessions, documents and sizes. Paths below are relative to the repository;
`topology/` is `x/mongo/driver/topology/` and `driver/` is `x/mongo/driver/`.

## 1. Inventory

### Parts and how they interact

An application calls the **client API** (`mongo/collection.go` and its like). The
call merges its options, takes an implicit session from the **session pool** if it
was given none, and builds an **operation**. `Operation.Execute` asks the
**Topology** for a server (`SelectServer`, with the **server selectors**), the
**Server** for a connection (`Connection`, which is `pool.get`), runs one or more
round trips on the **connection**, retries at most once, hands errors to
`Server.ProcessError`, and returns the connection (`pool.put`). Results come back
as a **cursor**, which keeps the session and asks for more. **Change streams**,
**bulk writes**, transactions and **GridFS** are built from such calls. Documents
are converted by the **codecs** a **registry** finds, over **readers and writers**
of BSON.

Beside the application run, per server, a monitor goroutine (`Server.update`) that
reports descriptions to the topology and clears the pool after errors, a round
trip monitor, the timer of the pool's `Maintain`, one goroutine per connection
being connected and one per connection being closed; and, for `mongodb+srv` URIs,
one goroutine that polls DNS.

| Part | State | Operations | Hard behaviour |
|---|---|---|---|
| pool (`topology/pool.go`) | connected, generation, nextid, opened, semaphore | get, put, clear, connect, disconnect | error paths that must release exactly once; clear and disconnect in the middle of a checkout |
| resource pool (`topology/resource_pool.go`) | list of idle connections, totalSize, closed, timer | Get, Put, Maintain, initialize, Close, counters | Maintain under the mutex against getters; an unsigned counter that is also reset |
| connection (`topology/connection.go`) | connected state, connectDone, idle deadline, generation | connect, wait, close, Expire, read, write | two goroutines that may both connect it; close while connecting |
| semaphore (vendored `x/sync`) | cur, waiters | Acquire, Release | a waiter that gives up while a permit is handed over |
| server, RTT monitor (`topology/server.go`, `rtt_monitor.go`) | description, heartbeat connection, subscribers, average round trip time | Connect, Disconnect, ProcessError, update, check, cancelCheck, Subscribe | an operation's error against the monitor's own check; Disconnect against all of them |
| connection options (`mongo/client.go`, `topology/connection_options.go`) | one slice of options | append | an array shared by all servers |
| topology (`topology/topology.go`) | state machine, servers, description, subscribers | Connect, Disconnect, apply, Subscribe, SelectServer, FindServer, SRV polling | late reports; state read before a wait and used after it |
| discovery state machine (`topology/fsm.go`) | kind, set name, servers, highest set version and election id, session timeout | apply | reports in any order from servers that are not what they seem |
| selectors (`mongo/description`) | – | read preference, latency | descriptions of different ages |
| session pool (`driver/session/session_pool.go`) | linked list of sessions, timeout | GetSession, ReturnSession | expiry by a timeout that changes |
| client session, execution (`client_session.go`, `mongo/session.go`, `driver/operation.go`) | transaction state and number, labels, retries left | start, commit, abort, WithTransaction, Execute | retry of what may have been applied, or may still be |
| bulk writes, batches (`mongo/bulk_write.go`, `driver/batches.go`) | models, batches, merged result | execute, AdvanceBatch | errors half way; indexes cut twice |
| change streams (`mongo/change_stream.go`) | token, operation time, cursor, session | Next, TryNext, resume, Close | the right token after each batch and error |
| cursors (`driver/batch_cursor.go`, `operation_legacy.go`) | id, batch, numReturned | Next, getMore, KillCursor, Close | a limit counted by the driver |
| client API (`mongo`, `mongo/options`, `driver/operation`) | one call | every call that sends a command | some sixty similar calls, none the same |
| GridFS (`mongo/gridfs`) | upload and download buffers, indexes | Write, Close, Abort, Read, Skip, Delete | buffers that are no multiple of a chunk; failures between inserts |
| codecs, registry (`bson/bsoncodec`) | builder, registry and its cache | encode, decode, register, look up | widths; used variables; shared maps |
| readers and writers (`bson/bsonrw`) | stack of frames, offset | write, read, skip, copy | modes of a stack machine; lengths filled in later |
| authentication, encryption, connection strings, wire messages, tools | – | – | data, cryptography and I/O |

`PROJECT.json` lists every component with what is and is not modelled, and the
hazards at their lines.

### What makes them correct

* Pool: each permit is released exactly once; nobody sleeps beside a free
  permit; a connection has one user; it is counted while and only while it
  exists; the maximum holds; a checkout never returns a connection from before a
  clear it could have seen; every created connection is closed once; `get` and
  `disconnect` return.
* Monitor: operations that fail on connections of one generation clear the pool
  once; a cancelled heartbeat says nothing of
  the server; monitoring goes on; the views of a server meet again; Disconnect
  leaves nothing of the round trip monitor or of a subscriber behind, and returns.
* Discovery: at most one primary, and the newest; only servers that belong; a
  session timeout safe on every server; one monitor per address; convergence.
* Sessions and transactions: a session has one user and is fit for use; a write is
  applied at most once, the writes of one run of a callback at most once, and what
  was reported as done is done; a second commit has majority write concern.
* Calls: what the caller set last reaches the server; the session is given back
  once on every path and never used after; every cursor is used up or killed; an
  acknowledged ordered bulk write stops; every error names its model; a change stream neither skips nor
  repeats.
* Data: a file is read as it was written; a suitable, fresh and near server is
  chosen; a value survives its codecs, or is refused; a registry answers as it was
  built; BSON is read and copied as it was written, and damage is noticed.

## 2. The modules

| Module | Models | Checked by |
|---|---|---|
| `ConnectionPool` | `pool.go`, `resource_pool.go`, the life of a connection, the semaphore, `ProcessHandshakeError` | `MCConnectionPool` |
| `ConnectionPoolProofs` | types, locks and the semaphore, proved | TLAPS |
| `PoolOwnershipProofs` | who has each connection, its age, its events and the size of the pool, proved on top of that | TLAPS |
| `TopologyFSM` | `fsm.go` and the descriptions, as operators on a record | through `Topology` |
| `Topology` | `topology.go`, with `TopologyFSM`'s record as a variable | `MCTopology`, `MCTopologyModes` |
| `TopologyProofs` | what `fsm.apply` promises, and the theorems about `Topology` | TLAPS |
| `ServerMonitor` | `server.go` and `rtt_monitor.go` of one server | `MCServerMonitor` |
| `ServerMonitorProofs` | the theorems about it | TLAPS |
| `ConnectionOptions` | the shared slice of connection options, with Go's `append` | itself |
| `SessionPool` | the linked list of server sessions | `MCClient` |
| `SessionStack` | what that list promises: the abstract specification | `MCClient`, by refinement |
| `SessionPoolProofs` | the refinement and the theorems about `SessionPool` | TLAPS |
| `Transactions` | client session, `WithTransaction`, `Execute` with its retries and labels | `MCClient` |
| `TransactionsProofs` | the theorems about it | TLAPS |
| `BulkWrite` | `BulkWrite`, its batches, and the commands `Execute` cuts them into | `MCClient` |
| `ChangeStream` | a change stream and its batch cursor | `MCClient` |
| `LegacyCursor` | cursors with limits of servers before 3.2 | `MCClient` |
| `ClientProofs` | the theorems about `BulkWrite`, `ChangeStream` and `LegacyCursor` | TLAPS |
| `ClientCalls` | every call that sends a command, from its options to the end of its cursor | `MCClient` |
| `CallTables`, `OptionTables`, `OperationTables` | the record of each call; the fields, merges and hand-overs of options; what each operation does with its parameters | through `ClientCalls` |
| `GridFS` | upload, download and delete of a file | `MCData` |
| `ServerSelection` | `ReadPrefSelector` and `LatencySelector` | `MCData` |
| `Codecs` | the default codecs | `MCData` |
| `CodecRegistry` | builder, registry and its cache | `MCData` |
| `DataProofs` | the theorems about `CodecRegistry` and `ServerSelection` | TLAPS |
| `ValueReadWrite` | the writer, the reader and the copier of BSON | `MCData` |

### ConnectionPool

Each goroutine has a program counter `pc[p]` and a local connection `loc[p]`.
`Getters` run `get`, use a connection and `put` it; `Timer` runs `Maintain`;
`Admin` is the Server goroutine that calls `connect` and `disconnect`. The two
goroutines a connection may have are fields of its record: `phase` follows
`connection.connect`, `closer` the goroutine `connectionCloseFunc` starts.

An action is one critical section or one access to an atomic variable, because
that is the grain at which goroutines interleave: `Acquire`, then the check of
`connected` (`GetLoop`), then `resourcePool.Get` under its mutex (`RPGet`), then
`incrementTotal`, and so on down to `Release`. `resourcePool.Get`, `Put` and
`Close` hold the mutex throughout and are one action each. `Maintain` holds it
too, but atomics change while it runs: `rpLock` is held over `MaintainStart`,
one `MaintainPrune` per element of the list from its end, and one
`MakeConnection`, check and `MakeInsert` per connection it adds.

`totalSize` is an unsigned integer and is computed modulo `MaxUint + 1`. The
nil that `connectionInitFunc` returns on an error is the list element
`NilConn`, which `Maintain` really adds. The `select` in `disconnect` keeps its
cases apart (`WaitTimerReady`, `WaitContextDone`, `WaitTickerEmpty`), because
which one is ready is what one of the findings is about. `startGen`,
`closedEvents` and `calls` are history and bounds.

### TopologyFSM and Topology

`Apply(f, s)` is `fsm.apply`, with one operator for each method it calls.
`servers` is a function from addresses, since `apply` never adds an address
twice; the order of the slice matters in one place, `processSRVResults`, and
`Topology` keeps it in `order`. Wire version ranges are reduced to whether the
driver supports them, topology versions to a counter within one server process.

`Topology` adds the rest: `apply` under `serversLock` (one action), the map of
servers and their monitors (`monitoring`; a removed server's monitor may report
once more as one of `zombies`), the published description, `SelectServer` in the
steps between which other goroutines run, the polling goroutine, and
`Disconnect` in its stages. The goroutines of `SelectServer` use
`WriteSelector`. A monitor may report any description of `Reports` at any time:
that covers late and repeated reports, elections seen in any order, and servers
of another set or kind.

### ServerMonitor

The heartbeat goroutine, the round trip monitor, workers whose operation or
handshake failed, subscribers and `Disconnect`, each with a program counter. A step
that holds a lock is one action; dialing, writing and reading are steps in which
others run. The topology is its last description, and of the pool there is `stale[w]`:
who has cleared it since the connection of `w` was checked out, which is what
`conn.Stale()` asks and also tells a clear by `ProcessError` from one by a heartbeat or
by `ProcessHandshakeError`, which do not take `processErrorLock`. The question and the
clear are two steps, and the lock is a variable:
`updateDescription` calls the one and stores the other in two steps, as in the
code. Connection objects are used again when nothing refers to them, so that
heartbeats go on for ever in a finite state space.

### Sessions, transactions and calls

`SessionPool` keeps the list with its links in both directions, since dropping
expired nodes at the tail and unlinking at the head are separate code. `StackSpec`
is the refinement: `SessionStack` with the list read from `head` as its stack.
`Transactions` has one action per step of `Execute`, the network losing a request, a
reply, or holding a request back until later; what a server does with a command is
external, and follows from what the driver relies on. The server an operation
selects may be one without sessions (`Supports`): its command then carries no session
and no number and is not retried. The callback of `WithTransaction` may abort the
transaction itself, after which nothing is committed. `BulkWrite`, `ChangeStream` and
`LegacyCursor` treat the server the same way. In `BulkWrite` a model is named by its
index in the call. The code never changes the order of models within a batch or a
command, so both are sets of indexes, and `Position` gives the number under which the
server knows a statement; what the code does to get from such a number back to the
caller's index (`ShiftErrors`, `At`) is what can go wrong. A bulk write may be
unacknowledged: the last command of a batch then has no reply, may be lost, and gives
`ErrUnacknowledgedWrite`, which `execute` does not stop at. A change stream sends
`killCursors` and ignores its error, so `cursors` counts the cursors it was not sent
for; one for which it fails is left to the server's timeout. `ClientCalls` describes each call by a
record (the order in which it converts, takes a session, checks and builds; how it
gives the session back; which options it hands on), with these records and the
tables of the option and operation types in modules of their own; the actions are the steps all
calls share, and a call that differs from the others differs in its record. Concerns depend on the wire
version as in the code: `aggregate` with `$out` or `$merge` sends its write concern from
version 5 on, and a find by `OP_QUERY`, below version 4, has no read concern.

### Data

`GridFS` keeps bytes as numbers in order, so that a lost, doubled or displaced one
is seen, and lets any insert, find or delete fail, with or without effect.
`ServerSelection` lets a replica set write, copy and report on a clock, so that the
estimate of staleness can be compared with the truth. `Codecs` keeps the boundaries
of integers and floats at a small scale (`Max8 < Max16 < Max32 < Max64`, with
precisions between), and checks every Go value to BSON and back, every BSON value
through `interface{}`, and a struct with an inline map decoded into a variable used
before. `CodecRegistry` keeps maps and arrays by address, since what is shared is the
question. In `ValueReadWrite` a length, a type, a name or a piece of data takes one
cell.

## 3. The runs

| Run | Setting and properties | Distinct states |
|---|---|---|
| `pool_checkout` | three getters, two permits, a clear: `TypeOK`, `PermitsConserved`, `NoLostWakeup`, `ExclusiveCheckout`, `FreshCheckout` | 1.4 million |
| `pool_maintain` | two getters, the timer, an idle timeout, minPoolSize 1: `SizeIsRight`, `ConnectionsKept` | 2.8 million |
| `pool_disconnect` | two getters and a disconnect, with fairness: `ClosedEventsMatch`, `CallsReturn` | 21 thousand |
| `topology_reports` | a replica set with any report, a direct connection, a set that settles, SRV polling: `TypeOK`, `PrimaryIsRight`, `ServersBelong`, `SessionTimeoutSafe`, `EveryServerMonitored`, `NeverForgetsElection`, `SettledConverges`, `PolledDisconnectReturns` | 82 thousand |
| `topology_select` | a goroutine in `SelectServer`, routers that come and go, SRV polling that removes one, Disconnect: `NoLeakedSubscription`, `SelectionReturns` | 16 thousand |
| `server_monitor` | heartbeats with failing operations, the round trip monitor, subscribers, Disconnect: `TypeOK`, `NothingLeftBehind`, `DescriptionsHold`, `OneClearPerGeneration`, `EveryoneReturns`, `MonitoringHeals` | 288 thousand |
| `client` | the parts above the topology: `TypesOK`, `SessionsHaveOneUser`, `AppliedOnce`, `BulkOutcome`, `StreamIsExact`, `LegacyCursorIsExact`, `CallsDoAsAsked`, `StackSpec`, `CommitAgainWithMajority` | 2.2 million |
| `data` | selection, GridFS, codecs, registry, readers and writers: `TypesOK`, `FilesAreWhole`, `SelectionIsRight`, `ValuesSurvive`, `AnswersAsBuilt`, `WrittenIsRead` | 871 thousand |
| `pool_graceful` | a **violation**: a graceful disconnect does not wait | – |
| `pool_all_closed` | a **violation**: a socket survives disconnect | – |
| `topology_poll_race` | a **violation**: polling changes a replica set | – |
| `options_aliasing` | a **violation**: a handshake error is reported to another server | – |

Several properties are conjunctions of named parts, each with its own comment where
it is defined: `SizeIsRight` is `TotalIsExact` and
`AtMostMaxPoolSize`, `AppliedOnce` is `AppliedAtMostOnce`, `CallbackAtMostOnce` and
`SuccessIsApplied`, and so on. TLC names the whole; the trace shows which part.

**Parts in one run.** The modules of `MCClient` share no state, nor do those of
`MCData` (each extends the modules that theorems are about, so that their assumptions
are evaluated, and instances the others). A behaviour of such a run is a behaviour of one part, named by `focus`, while the others stay in their initial states: every behaviour of every part is
checked, and no products of unrelated states are built. `MCTopologyModes` puts four
ways to configure a `Topology` side by side in the same way, and `MCServerMonitor`
lets one kind of goroutine at a time be busy beside the heartbeats (`Scheduled`).

The system may stop in every run (the bounds on calls are used up, or nobody
calls), so the configurations do not check for deadlock; that nothing hangs
that should go on is what the liveness properties are for.

**Seeded faults.** Each property, and each part of one, was tried against a plausible
mistake in the code. The mistaken form stands just before the definition it replaces
(`RestInclusive` before `RestAfter`, `RetriedAnew` before `Retried`, ...), is used
nowhere, and is listed with the property that catches it under "mutants" in
`PROJECT.json`.

**Bounds.** For the pool `MaxGets`, `MaxConnId`, `MaxClears`, `MaxMaintains`,
`MaxDisconnects` and `MaxConnects` bound calls. Three getters and two permits
are the least where a waiter is queued behind another while two connections are
out; a pool of size one with two getters, a timer and four connection ids lets
Maintain replace a connection that one getter has just returned while another
waits, and still make the one after it. `MaxUint = 15` lies far above any count
that can be reached without wrapping, so a wrapped counter is seen as one. For
the topology, three addresses, two seeds, two set versions and two elections
give a stale primary by either number, a member that is not a seed, and a set
that loses a member. The monitor needs no bound on calls: two workers, one
subscriber and four connection objects, of which a heartbeat, a round trip monitor
and a connection being closed hold three. Three clients and four sessions make a list
long enough to lose nodes at both ends at once. Three models with two statements per
command make a batch that is cut again; a log of three entries, and two failures, make
a stream that fails while it resumes; two documents and four calls cover a retried
commit between two others. Two registrations, two registries and two lookups let a
builder change between two builds while both goroutines are between reading the map
and storing what they found. Writes of two or five bytes in chunks of two or three, over a
buffer of four, overfill it, leave a rest to move and a partial chunk. `MaxValues` is
the number of values in the first document; a second one has one less. In
`topology_select` the SRV record leaves one of two routers, once: with a record that
changes again and again a goroutine may choose a server just before each removal and
wait for ever, which is no fault. The widths 1, 3, 7 and 15 keep the
order of the real ones, and every boundary is met from both sides.

**Symmetry.** Getters in the runs of safety properties of the pool, and the secondaries
in `data`. No definition tells the members of these sets apart, and these runs have
only invariants, so this is sound; the runs with liveness use none.

**Fairness.** `ConnectionPool!Fairness`: a goroutine that can take a step takes
one, a dial or handshake ends (`connectTimeout`), a user returns its
connection. It does not assume that timeouts fire: `GetReturns` holds for
contexts without end. `MakeStep` is fair while connection ids last, which they
do in the fair run. `Topology!Fairness`: the same; at its `select`,
`pollSRVRecords` chooses at random between the ticker and `pollingDone` when both
are ready, hence strong fairness of `DisconnectPolling`. `HeartbeatSpec` (run
`topology_select`) adds the heartbeat ticker: while the state machine does not
change, the monitors' unchanged reports are still applied and published, which is
what heals the gap in `Subscribe`. No server is assumed to change what it reports.
`ModesSpec` gives the settling mode servers that report what is true of them again
and again, and the polling mode the fairness above. `ServerMonitor!Fairness`: the
two monitor goroutines, `Disconnect` and a worker that reports its error go on;
heartbeats and dials end because their contexts have deadlines, and the ticker
starts the next one. Nothing obliges a worker to fail, a subscriber to read or
anybody to call `Disconnect`.

### What the violations show

1. `pool_graceful`: `disconnect` sets a timer to `time.Now().Sub(dl)`, a
   negative duration, so with a deadline ahead it fires at once and connections
   in use are closed, against the comments of `Server.Disconnect` and
   `pool.disconnect`.
2. `pool_all_closed`: a connection of `Maintain` may be closed while it is still
   initialized, which does nothing; its goroutine then connects it. Against "all
   connections associated with this Server have been closed".
3. `topology_poll_race`: the kind checked before the DNS lookup is stale when
   the answer is applied; a replica set discovered meanwhile loses or gains
   hosts.
4. `options_aliasing`: every server appends its callback for handshake errors to the
   same slice of options. Where the array under it has room, the callback of the last
   server to append serves them all, and the pool of another server is cleared.

### Met while modelling, without a run

The models follow the code in these places, and properties are stated so as not to
claim more than it does.

* Pool and topology: after a disconnect, `clearTotal` resets a counter that
  connections still out are later subtracted from, so that it wraps and `get` spins
  in a pool connected again (`TotalIsExact` is stated for the first lifetime);
  `serversClosed` and `resourcePool.closed` are never reset; `Subscribe` can miss the
  description published between its load and its registration (the next heartbeat
  heals it); `fsm.apply` may return a description other than the one it keeps;
  `processSRVResults` compares descriptions that share an array
  (`topology/topology.go:566`), so that some changes have no event; `Disconnect`
  may leave the socket of a heartbeat that was just being connected
  (`topology/server.go:230`).
* Execution: an unacknowledged write with no session meets a nil pointer after a
  network error (`driver/operation.go:455`); the write concern error of all but the last command
  of an unordered batch is lost; an ordered bulk write that stops early returns
  before it corrects `MatchedCount`. With write concern `w: 0` an ordered bulk write goes
  on to later commands and batches after a model has failed, of which nobody tells the
  driver (`mongo/bulk_write.go:76`), while `mongo/options/bulkwriteoptions.go:20` says that
  "no writes will be executed after one fails": `OrderedStops` is stated for acknowledged
  ones. In an unordered one the error of a command is lost if a later batch ends with
  `ErrUnacknowledgedWrite` (87).
* Calls: a legacy limit without a batch size is not kept by getMores; `FindOne`
  drops `MaxTime` (`mongo/collection.go:1261`), `InsertOne` a flag set to false
  (331); a collation is sent to old servers by delete and update; `CreateMany` sets
  a name on the caller's options (`mongo/index_view.go:208`); the read concern of
  `RunCommand` is never sent; a large limit is cut to 32 bits (`collection.go:1167`).
* Change streams resume at the session's operation time and not at the cached one
  (`mongo/change_stream.go:419`): without post batch resume tokens events may be
  missed, and `NothingSkipped` is stated for servers that send them.
* GridFS: `Skip` compares the wrong way (`download_stream.go:209`); a cursor that
  fails is taken for the end of the file (230); a Close or Abort repeated after a
  lost reply may insert chunks twice; a failed `UploadFromStream` leaves chunks;
  `Drop` does not reset `firstWriteDone`.
* Codecs: a double of 2^63 passes the range check; an int64 loses precision as a
  float64; names of inline maps compare in lower case (`struct_codec.go:277`); a
  code with a nil scope, unless nil slices are written as empty ones, and an empty
  `json.Number` cannot be encoded; an empty binary of subtype 2 comes back as the four
  bytes of its length, which `RoundTrip` says.
* Readers and writers: an empty binary of subtype 2 is read back as its length
  (`value_reader.go:376`); `WriteDocument` is not refused at the top level while
  a document is open.

## 4. The proofs

The theorems hold for all values of the constants that satisfy the named assumptions
of the modules: finite sets of getters and of connection objects, natural sizes with
`MinPoolSize <= MaxPoolSize`, an unsigned range above any count that does not wrap,
seeds that do not repeat, replica set members that report the name of their set, and
names of goroutines that differ (`WorkersAssumption`), natural bounds of calls. There
are more names of sessions than clients (`SessionsAssumption`: a Go program can always
make another session object, and one that nobody refers to is free to be named again);
periods, latencies and limits of the model are natural numbers, and a round trip time is
one or not known (`SelectionAssumption`, `LegacyAssumption`, `StreamAssumption`); a
command takes at least one statement (`BulkAssumption`: `AdvanceBatch` takes one where
the server says less). TLC evaluates the assumptions in every run of these modules. Each invariant below was an invariant of a run before it was proved.

| Theorem | States, for every reachable state or step | Module |
|---|---|---|
| `TypeCorrect`, `PermitsSafe`, `WakeupSafe` | `TypeOK`, `PermitsConserved`, `NoLostWakeup` | `ConnectionPoolProofs` |
| `CheckoutExclusive`, `CheckoutFresh`, `SizeAlwaysRight`, `ConnectionsAlwaysKept`, `EventsAlwaysMatch` | `ExclusiveCheckout`, `FreshCheckout`, `SizeIsRight`, `ConnectionsKept`, `ClosedEventsMatch` | `PoolOwnershipProofs` |
| `ServersAlwaysBelong`, `SessionTimeoutAlwaysSafe`, `ElectionsNeverForgotten`, `ServersAlwaysMonitored`, `SubscriptionsNeverLeak` | `ServersBelong`, `SessionTimeoutSafe`, `NeverForgetsElection`, `EveryServerMonitored`, `NoLeakedSubscription` | `TopologyProofs` |
| `PrimaryAlwaysRight` | `PrimaryIsRight`, without polling and until a second `Connect` | `TopologyProofs` |
| `TypeCorrect` | `StateType`, which is `TypeOK` without the order of the host slice | `TopologyProofs` |
| `TypeCorrect`, `NothingEverLeftBehind`, `DescriptionsAlwaysHold`, `OneClear`, `ErrorsOneAtATime` | `TypeOK`, `NothingLeftBehind`, `DescriptionsHold`, `OneClearPerGeneration`, and that `ProcessError` is a critical section | `ServerMonitorProofs` |
| `TypeCorrect`, `WritesAreAppliedOnce`, `CommitsAgainWithMajority` | `TypeOK` with the invariant `BaseInv`, `AppliedOnce`, `CommitAgainWithMajority` | `TransactionsProofs` |
| `ListImplementsStack`, `SessionsOfOneUser`, `PoolTypesStay` | `StackSpec`, `SessionsHaveOneUser`, `PoolTypeOK` | `SessionPoolProofs` |
| `PoolIsBounded` | `checkedOut` is the number of sessions in use, and the pool has no more than clients had at once | `SessionPoolProofs` |
| `StreamLosesNothing`, `StreamTypesStay` | `StreamIsExact`, `StreamTypeOK` | `ClientProofs` |
| `LegacyKeepsLimit`, `LegacyTypesStay` | `LegacyCursorIsExact`, `LegacyTypeOK` | `ClientProofs` |
| `BulkDoesAsTold`, `BulkTypesStay` | `BulkOutcome`, `BulkTypeOK` | `ClientProofs` |
| `RegistryAnswersAsBuilt`, `TypeCorrect` | `AnswersAsBuilt`, `TypeOK` of the registry | `DataProofs` |
| `SelectionAlwaysRight`, `SelectionTypesStay` | `SelectionIsRight`, `SelectionTypeOK` | `DataProofs` |

### The pool

None of the properties is inductive. The type of `semCur` needs the semaphore's
accounting (`Release` must not take it below zero), the type of `conn'` after
`conn[loc[p]]` is changed needs to know when `loc[p]` is a connection, and the
accounting needs the queue. The first invariant, `Inv`, is therefore

* `BaseInv`: `TypeOK`; `LocalsOK` (at which positions `loc[p]` is a connection);
  `LockOK` (Maintain holds the mutex at exactly these positions, and its cursor
  stays within the list, which nobody else can then change);
* `SemInv`: `PermitsConserved`; `NoLostWakeup`; `QueueOK` (the queue holds each
  getter that waits, once, and no other).

The preservation of `BaseInv` has one step per action, grouped by goroutine
(`BaseAcquire`, `BaseGet`, `BaseUse`, `BaseMake`, `BaseMaintain`, ...); the lemmas
`Moves`, `GetterMoves`, `MaintainerMoves`, `OutsideMoves` and `Still` state once
what a change of program counter does to it. For `SemInv`, `SemFrame` disposes of
every action that leaves the semaphore alone and keeps each getter on its side of
it; `SemAcquire`, `SemTimeout` and `SemRelease` are the three that do not. The
heart is `ReleaseWakes`: because of `NoLostWakeup`, a `Release` finds either no
waiter or a full semaphore, so its loop wakes exactly none or exactly one.

`PoolOwnershipProofs` adds three invariants. `OwnInv` follows a connection from
`makeNewConnection` to its removal from `opened`: it is known only below `nextid`; it
is with one goroutine or once in the list; while it is being made it is in neither
`opened` nor the copy that `disconnect` took; an open one is idle or with somebody;
before the first disconnect everything idle or out is open; and its closed events are
none before, one after. `FreshInv` compares generations at the positions between
`resourcePool.Get` and the return of `get`. `SizeInv` says that `totalSize` is the
length of the list plus the getters that count, until the first disconnect clears it.
After that the counter may wrap, and the maximum is kept for another reason, which
`BoundedByPermits` states: the resource pool is closed, its list can only shrink, and
who is past `get` holds a permit. The list lemmas (`PushElements`,
`WithoutElements`, `RestElements`) say what `Put`, `Maintain` and `Get` do to the
elements; then there is one lemma per action that moves a connection, and a frame
lemma for the rest.

### Discovery

`TopologyProofs` first says what each helper of `fsm.go` does to the record, then that
each `applyTo...` keeps `Promise`: `Good` (types, `MembersBelong`, `TimeoutIsSafe`, and
a named set in the kinds that need a name), `RightPrimary` (`OnePrimary`,
`PrimaryIsNewest`, `PrimaryListsMembers`), and that the highest election seen is not
lowered. Between a change of the servers and `checkIfHasPrimary` the kind is out of
date, so inside a replica set the two are carried as `RSLike` and `PrimaryFacts`, which
do not mention it. `TimeoutIsSafe` needs the minimum of a set of naturals, whose
existence is proved from well-foundedness (`Smallest`). `CoreStep` lifts `ApplyKeeps`
to the actions. `PrimaryAlwaysRight` has two hypotheses because the code needs them:
polling may replace the hosts of a replica set behind the state machine's back (run
`topology_poll_race`), and a second `Connect` sets the kind again over the servers that
`Disconnect` left.

### The monitor

`Inv` of `ServerMonitorProofs` follows each connection object from the monitor that makes it
to whoever closes it: `ConnShape`, `OwnerInv` and `StepInv` tie the position of a
monitor to the state of its connection, `HeldInv` what a canceller has in hand,
`RttInv` that the only open socket of the round trip monitor is its current one and,
once `Disconnect` is past reading it, the one `Disconnect` will close; `CancelInv` that
a heartbeat connection is dropped or closed under `update` only when the context is
cancelled, which is why a cancelled check is seen as one; `ReportInv` that no
description on its way to topology or server says so; `LockInv` that
`processErrorLock` is held through `ProcessError`. `OneClear` rests on the last, by an
invariant of its own: `GenerationInv` says that an operation that has passed the check for
staleness finds no clear by another `ProcessError`. That is kept because whoever clears
holds the lock, and by `LockInv` so does whoever is past the check; without the lock
(`TakeErrorUnlocked`, the seeded fault) TLC finds two clears.

### Transactions

The theorems assume `MaxDocs \in Nat` and nothing of `MaxCalls`: any number of documents,
any number of calls. Two dozen actions would each have to be followed through five
invariants, so `StepForm` first brings every step into one of a few forms (`CallStep`,
`Ending`, `IdleStep`, `Sends`, `RoundTrip`, `RetriesOp`, `ReturnsOp`, `NextDocument`,
`EndsOp`, `Arrives`) that say what becomes of each field, and `ServeCases` brings what a
server does with a command into the cases of `Takes`. The invariants build on each other:

* `BaseInv`: types; `FlagsInv` and `CallersInv` (the flags of the session say which
  operation runs and for whom); `RetryInv` (only what is outside of a transaction is
  retried, and a retried write has a number); `NumbersInv`; `CmdInv` (the command on the
  wire is that of the operation).
* `DocsInv`: a document that was applied is in no open transaction, and a command that
  still holds it is spent: its number is known to the servers (`SpentAt`). The document
  being written with a number of its own is applied exactly when the servers know that
  number (`HeadInv`); what waits behind it was never sent. `AppliedAtMostOnce` follows.
* `DoneAll`: while a transaction is in progress the servers have every document it was
  told is in it, have applied it, or have given the transaction up (`TxnInv`); once a
  command has carried the session, a transaction that ended is forgotten (`SettledInv`); what
  `Execute` has behind it is done (`DoneInv`). `SuccessIsApplied` follows.
* `CallbackInv`: all runs of a callback but the last are lost for good (`OldLost`: no
  commit of theirs is on its way, and the session's number has moved on); the last is
  lost until it commits (`LostInv`), belongs to the session's number while that is open
  (`LastInv`), and is lost again if the commit is answered with a transient error
  (`TransientInv`). This is where the missing label matters: `NetworkLabels` must not say
  "transient" of a commit, for the commit may have been applied or arrive late.
  `CommitInv` says that no commit arrives late for a transaction that still runs. Two
  applied runs would make the earlier one lost: `CallbackAtMostOnce`.
* `MajorityInv`: a commit sent with the session's number leaves a session that asks for
  a majority, until the number changes.

### The session pool

The refinement maps the list to `Walk(next, head)`, the nodes along the links, which is a
recursive function and says little by itself. `Path(link, s, q)` says instead that a
sequence `q` without repetitions is what the links give from `s` on, and `WalkIsPath`
that then `Walk` is `q`: from there on each action is an operation on a sequence.
`PathAfter`, `PathCut`, `PathPushed` and `PathBack` say what taking, trimming, pushing and
reading backwards do to it, and `DropExpiredCuts` that the walk from the tail drops
exactly the expired end. `Inv` is the types, the number of users, and `ListedAs`: the list
is a path, `prev` leads back along it from the tail if there is a tail, nobody in it is
with a client and no two clients have one session, and list and users together are no
more than the clients. The condition on the tail is there because of `ReturnSession`:
when all nodes have expired and the session returned is not kept, the tail becomes nil and the
head stays, so that a list of dropped nodes remains until the next call. The last part is what makes `PoolIsBounded` inductive: a session is
made only when none in the list is fit, and the walk that found this has emptied it.
`ListImplementsStack` is the refinement itself: the initial states are those of
`SessionStack`, and `CreateStep`, `TakeStep`, `ReturnStep`, `UseStep` and `TickStep` show
each step to be one of its steps or a stutter.

### Change streams and legacy cursors

`StreamInv` is the types; `Shape` (which fields go with which position in `Next`);
`Owned` (at most one cursor is open at the server, the one the stream has, and none while
it makes another or has ended; an implicit session ends with the stream); `Ahead` (what
was given is at or before the token, what is in a batch after it, and while a cursor is
made again its options name the token); and `Exact`, for servers with post batch resume
tokens: everything that matches from the start to the token was given, everything from
there to the cursor's place is in the batch, and wherever the stream may have to resume it
has a token. `Exact` is what `NothingSkipped` needs, and the last clause is what fails on
older servers. The lemmas about `Between` (entries that match in a part of the log) are
what the deliveries, batches and new entries come down to.

`LegacyInv` is the types, `LegacyShape` (`numReturned` is what the server sent, an open
cursor has an id) and `LegacyCount`: the server never sent more than was wanted, it sent
all of that once the id is 0, and nothing of it is dropped. `FirstReply` and `NextReply`
hold the arithmetic of `calculateNumberToReturn` and of the number in `getMore`: in each
case the reply brings the cursor up to the limit and not past it. The limit is
only claimed for calls with a batch size, as in the property.

### Bulk writes

`BulkInv` is the types; `Apart` (batches are disjoint and not empty, and for an ordered
call those that wait come after those that ran); `Sent` (what waits did not run, and within
a batch the commands go up in order, the offset being the number of statements sent);
`Failures` (the errors known to the operation are those of the models that failed in its
batch, the errors of the call those of the batches merged; an ordered call that still runs
has none); `Silent` (an unacknowledged call knows of no failed model); and `Counted` (the
same as `Failures` for each count, where no batch is split). The two are stated for
acknowledged calls. The lemmas at
the bottom are about numbering: `PositionIsUnique` and `PlacesFindModels` (going from a
model to its place in a batch and back loses nothing), `CommandIsFirst` (a command is the
first part of what is left of its batch) and `ShiftedFindModels`, which says that an error
of a later command, moved by the offset, still names its model. `BatchesAreParts` says that
`createOrderedBatches` and `createBatches` share out the models without loss, for every call. The
counts are sums of cardinalities of disjoint sets (`DoneOfParts`, `MergedResult`).

### The registry

`AnswersAsBuilt` speaks of the last answer; `Inv` says why each next one is right, too.
`BuilderInv`: the builder stores exactly what was registered, at an address of its own.
`CopyInv`: a registry has the hooks and kinds it was built with, an entry of its map is
the documented answer, and a type without an entry has no codec of its own. `LookInv`
carries the last fact over the gap between the read lock and the write lock of
`LookupEncoder`: what a goroutine found to be missing is still not registered when it
stores its answer, though another may have stored one meanwhile. `SearchIsDocumented` is
the lemma about the code of `lookupInterfaceEncoder`: where no codec was registered for
the type, its search, with its detour through addresses, gives what the precedence
says, and never the mark of a missing entry. `SetHookKeeps` is the one about
`RegisterHookEncoder`, which keeps one hook per interface.

### Server selection

What is selected is a function of the descriptions, so `SelectionInv` only has to say how
these relate to the servers they describe (`Views`): a description has no write that the
server has not, none is older than a heartbeat interval, the last write of a primary that
is up is at most an idle write period ago, and was when the description was made. From
that `StalenessBounded` follows by arithmetic, while the primary is known: the estimate of
the selector is never below the true staleness by more than an idle write period.
`WindowIsRight` says that the latency window of suitable servers is not empty and leaves out
none that is as fast as one it has;
`TagSetsInOrder` that the first tag set that matches anything decides.

### What stays with TLC

* Everything temporal beyond `[]`: `CallsReturn`, `SettledConverges`,
  `PolledDisconnectReturns`, `SelectionReturns`, `EveryoneReturns` and
  `MonitoringHeals`. Liveness under fairness and `ENABLED` are outside what TLAPS proves.
* `order \in Seq(Addrs)` of `Topology`: `processSRVResults` builds it with `SelectSeq`,
  whose library definition is recursive, and the provers know no fact about it. The rest
  of `Topology!TypeOK` is proved as `StateType`.
* `CallsDoAsAsked`: it compares what is sent with tables of the calls and their options.
  A proof would be one case for each entry of the tables, which is what TLC enumerates.
* `FilesAreWhole`, `ValuesSurvive` and `WrittenIsRead`: what chunks, nested values and
  documents contain is defined by recursion or folds over data of any length.
* `TypesOK` of `MCClient` and `MCData` as wholes, since they include the types of these
  modules; the type invariants of the others are proved one by one.

## 5. Plan

All of the plan so far is done: the pool, topology, monitor, sessions, transactions, calls
and data are modelled and checked, and the safety properties of all modules but
`ClientCalls`, `GridFS`, `Codecs` and `ValueReadWrite` are proved. What could follow:

1. The sizes and offsets of `GridFS` as an invariant of its own, apart from the contents.
2. Connection strings and their options, which have no state but many combinations.

## 6. Not modelled

* Authentication, TLS and client-side encryption: cryptographic exchanges, the last
  in an external C library; to the pool a handshake succeeds or fails.
* Connection strings, DNS, wire messages, raw BSON, extended JSON and decimals: byte
  layouts and texts without state, better served by round-trip tests.
* GridFS: Rename, Drop, Find, revisions of a name, deadlines. Codecs: hook codecs,
  the conversion of map keys, and the deprecated copies of the decoders. Command
  monitoring. The fields of options that are only stored.
* Durations are events that may happen at any time, but that the idle deadline of a
  connection does not pass during its handshake, every message of which sets it again
  (`topology/connection.go:156`, 295, 360). Data races on the shared array
  of a published description are not modelled.
* Examples, benchmarks, generators and vendored code other than the semaphore.
