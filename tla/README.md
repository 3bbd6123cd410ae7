# TLA+ verification of the CubeSQL Go driver

The driver lets Go programs use a CubeSQL server through the vendored C SDK.
It has two public packages: `cubesql`, a direct API with connections,
statements, rows and transactions that several goroutines may share, and
`database/cubesql`, which adapts it to `database/sql` and its pool. Both sit on
`internal/csdk`, a cgo layer that owns the native pointers.

This directory models that code from the driver interface down to the requests
on the wire, checks it with TLC on small instances, and proves its safety
properties with TLAPS for every instance: any number of goroutines and handles,
statements of work, rows and packets, parameters, values and widths.

## Inventory

| part | state | operations | interacts with | correct when |
|---|---|---|---|---|
| `cubesql.Conn` | `native`, `children`, `txActive`, `mu` | Open, Close, SetDatabase, Exec, Query, Prepare, Begin, Commit, Rollback, Ping, metrics | csdk below; Stmt, Rows and Tx count themselves in it | it closes exactly when nothing uses it, and every native object ends before it does |
| `cubesql.Stmt` | `native`, `rows`, `registered`, `mu` | Bind, Exec, Query, Reset, Close | takes `conn.mu` under `stmt.mu`; is released by its Rows | counted once for as long as it is alive, closed by somebody on every path |
| `cubesql.Rows` | `native`, parents, `closeStmt`, position, `mu` | Next, Seek, Value, Scan, Close | releases Conn, then Stmt, under `rows.mu` | one native cursor, released once; the right field of the right row |
| `cubesql.Tx` | `conn`, `done`, `mu` | Exec, Query, Prepare, Commit, Rollback | read-locks itself around Conn methods | exactly one live Tx owns the server transaction |
| `csdk` and `bridge.c` | native pointers, `children` | one C call under `csdk.Conn.mu` each | the SDK and the server session | no use after free; counts in step with Conn |
| adapter `conn`, `transaction` | `native`, `activeTx`, `closed`, `broken` | driver methods, IsValid, ResetSession | the pool above, core Conn below | no effect is repeated or wrongly reported; sessions are clean when lent |
| adapter `stmt`, `rows`, values | query text; an iterator | as above | conversions both ways | as above; values survive |
| connector, DSN, options | configuration | parse, validate, Connect | opens core connections | what is accepted can be opened, as asked for, and a failed Connect leaves nothing |
| error classes | none | `classifyError`, `publicError` | decides `broken` | a lost connection is never taken for a server error |
| C SDK | socket, recorded error, chunked cursors | requests and replies | server | client and server stay in step; an error belongs to the call that reports it |

What is hard here: `Stmt.query` runs without `conn.mu`; `Rows.Close` releases
two owners one after the other; the server session has a single prepared
statement (VM); results are read by separate requests; contexts can be
cancelled between any two native calls; COMMIT can fail after it took effect;
`database/sql` retries after `driver.ErrBadConn` and reuses sessions; a request
can be half written when its timeout strikes; errors are read from the
connection and classified by their text; Go ints become C ints. The list,
line by line, is `hazards` in `PROJECT.json`.

## Modules

### CubeCore

One `Conn` with its statements, rows and transactions, and any set of
goroutines calling their methods.

*State.* The fields of the structs under their own names (`children`,
`txActive`, `registered`, `stmtRows` for `Stmt.rows`, `linked`/`rowStmt`/
`rowClose` for the parents of a `Rows`, `txLive` for Tx that are not `done`);
the second count `csdkChildren` and the live native statements `vms` and
`cursors`; what the server session holds (`serverVM`, `serverTx`, `database`,
`lastExec`); the mutexes; and for each goroutine where it is (`pc`) and its
locals. `tx.mu` is implied by `txOf`.

*Actions.* A step runs from one point where another goroutine can interfere to
the next: acquiring a mutex with the checks it protects, and one csdk call.
csdk calls are atomic because each holds `csdk.Conn.mu` for its whole C call
and takes no other lock. So `ExecContext` is `Exec` (or `ExecPrepare`,
`ExecTemp`, `ExecDrop` when an argument is an empty BLOB) followed by
`ResultRows` and `ResultLast`; `QueryContext` is `Query`, `QueryMeta`, or with
arguments `QueryArgs`, `BindArgs`, `StmtQuery`, `StmtMeta`, `AddChild` and on
failure `StmtClose`, `ReleaseChild`; `Rows.Close` is `RowsClose`,
`RowsReleaseConn`, `ReleaseRow`, `ReleaseChild`; `Tx` methods are `TxCall`
followed by the Conn method; `Tx.Commit` and `Rollback` are `TxFinish`,
`TxFinishRun`. Native errors and cancelled contexts are alternatives of the
step that meets them. A call that is refused at once and changes nothing is no
step. `Ping`, the metric getters and `Bind` outside `QueryContext` change none
of this state and are no steps either.

Handles are taken from finite sets, and one that is closed and no longer
referenced may be taken again; without this a bounded model could never run
long enough to lose count. A failed BEGIN leaves the session as it was; a
failed COMMIT or ROLLBACK may or may not have reached the server.

### Session

What the package promises about a connection, without counts, mutexes or
goroutines: native objects live inside an open connection, and it is closed,
switched to another database, or moved into or out of a transaction only while
none is alive. `CubeCore!Abstract` maps the code's state to it: the connection
is up when the native pointer is there, the live objects are `vms` and
`cursors`, it is in a transaction when some Tx is not done.

### Adapter

One pooled connection of `database/cubesql`, with the pool, its borrowers and
the server session. A driver call is one action, because `database/sql` holds
the mutex of its `driverConn` around every driver call; inside, each exchange
with the server can succeed, be rejected, find the context cancelled, or lose
the link before or after the server acted, and the link can go down between
calls. Statements with a side effect (`Work`) are submitted once by the
application and as often as `ErrBadConn` asks for by `database/sql`; the server
counts how often each is committed.

External to `src/` and taken from how the code uses it: the pool (a connection
is reset before it is lent again and closed when `IsValid` is false) and the
server (it rolls a session back when its connection is gone, and a session
without a database answers error 7030 to statements, COMMIT and ROLLBACK and
has nothing pending). A borrower may hold the connection as a `sql.Conn` and
begin a `sql.Tx` on it, where work whose autocommit has failed can still be
pending. `StmtExec` is `sql.Stmt.Exec`, which prepares and then executes the
text. The core layer below appears as its transaction flag
and its child count; the refusals of its Close and Tx.finish are those of
CubeCore. The core's own mutexes do not matter here, as one driver call runs at
a time.

### Outcomes

What an application relies on, without connections: each statement is applied
at most once, a success that is reported stays true, and what has been answered
is never answered otherwise. `Adapter!Abstract` maps `srv.commits` to `applied`
and keeps `status`.

### RowCursor

Iteration over one result: `Rows` on the `csqlc` cursor of the C SDK.
`ReadPacket`, `EndChunk` and `ReadFails` are the loop of `csql_read_cursor`,
which leaves a result either in one packet or in a list of buffers with the
cumulative row counts in `rowcount`. `NextContext`, `SeekContext`,
`ValueContext`, `ScanContext` and `Close` are the methods of `Rows`, each one
action because it holds `rows.mu`; `SeekIndex`, `SeekOk`, `FindBuffer` and
`FieldIndex` are `cubesql_cursor_seek` and `cubesql_cursor_field`. The cursor
remembers the buffer it used last (`buffer`) and its own row (`nativeRow`) next
to `Rows.current`.

A field is abstracted to its place, a buffer and an index into that buffer's
sizes; the place is the true one if counting rows through all buffers gives the
same row and column. `CInt` is the conversion of a Go int to a C int, which
holds `-IntLimit .. IntLimit - 1`. Left out: the cursor's `eof` flag, which the driver never asks
for; server-side and custom cursors, which it never makes; reading column
names; and the conversion of a field into a destination.

### Wire

One native connection as a sequence of requests and replies. `Operations` gives
the SDK calls each operation of the package makes (`Exec` is an execution and
two metrics, `ExecPrepared` the empty-BLOB path, `QueryBind` a query with
arguments); `StartCall` writes the request, `ReadReply` reads an answer and goes
on with the acknowledgements of `csql_read_cursor` or the values of
`csql_bindexecute`, `ReadFails` is a failed read, `Return` what `csdk` and the
package make of the call, `Deferred` the close of the package's own statement
that is still due when an operation ends early, `Finish` the adapter's `observeLocked`. `RefuseBind`
is the shim's length check, `Cancel` and `CancelMetrics` a context that has
ended between two calls.

The link delivers bytes in order or fails (`LinkDown`), with or without what has
already arrived. A request with a payload can time out half written; small ones
fit the socket buffer. The SDK's habits are those of the code: which calls clear
the recorded error (`Clears`), which look at the result of their write
(`Checked`), and that `cubesql_vmclose` drops every error. An error is a code
and the groups of words its text contains, as `classifyError` sees it; a server
error may contain any. `own` and `crossed` are history: whether the recorded
error stems from the latest call, and whether a failed SDK call has reported one
that does not. A message is `old` when a later call has started since.

External: the server (`Serve`, `Answers`), which answers every complete request
it expects and waits for an acknowledgement after each partial packet.

### BindValues

Values on their way in and out. A C int holds `-IntLimit .. IntLimit - 1`, the
index field of the protocol `0 .. IndexLimit - 1`. The widths are given by their
limits and not as numbers of bits, so that the proofs need no powers of two. `CheckNamedValue` is the adapter's conversion,
`SetOneShot` and `SetPrepared` are the two bind paths with the C int conversions
and the shim's checks below them (`Bytes`, `CInt`, `WireIndex`, `FormatF`),
`Field`, `DriverValue` and `ScanValue` the way back. `Prepare`, `Bind`, `StmtExec`,
`StmtReset` and `StmtClose` act on the server's prepared statement; `want` is
what the application has bound. A TEXT or BLOB is its length, a float64 a number
of units smaller than the last decimal of `%f`.

### Connector

From a configuration to an open connection: `NewConnector` (also for `OpenDB`),
`ParseDSN`, `Connect`, with `Options.native` (`InRange`, `Seconds`), the defaults
of `csdk.Open` and a database that cannot be selected. Of a DSN's syntax only
whether it is well formed is kept. `Again` is the pool, which closes a connection
and asks the connector for another one.

## Runs

| run | instance | checks |
|---|---|---|
| `core_safety` | 3 goroutines, 2 statements, 2 rows, 2 transactions, 1 database, symmetric; 18,076 states | all invariants of CubeCore, the inductive invariant `CoreInv`, `TxEndsByItself`, refinement of Session |
| `core_liveness` | 2 goroutines, same handles, no symmetry; 52,680 states | `CallsReturn` |
| `adapter_safety` | 3 statements of work; 239,513 states | the adapter's invariants, the inductive invariant `AdapterInv`, `OnlyOwnWorkCommitted`, refinement of Outcomes |
| `adapter_close` | 2 statements of work | violated: see Findings |
| `adapter_cancel` | 2 statements of work | violated: see Findings |
| `cursor_safety` | 2 columns, up to 4 rows in up to 4 packets, `IntLimit` 8, seeks to 20; 68,400 states | the invariants of RowCursor, the inductive invariant `CursorInv` |
| `cursor_seek` | the same | violated: see Findings |
| `wire_behaviour` | 2 partial packets, 2 values in a one-shot bind; 8,177 states | the invariants of Wire, the inductive invariant `WireInv`, `OperationsReturn`, `CloseReturns` |
| `wire_broken` | 1 packet, 1 value | violated: see Findings |
| `bind_safety` | 2 parameters, `IntLimit` 8, `IndexLimit` 8; 8,193 states | the invariants of BindValues, the inductive invariant `BindInv` |
| `bind_float` | the same widths, fewer values | violated: see Findings |
| `connector_safety` | 4 ticks to a second, at most 4 seconds; 4,280 states | the invariants of Connector, the inductive invariant `ConnectorInv` |

*Properties of CubeCore.* `NoDanglingNative`: no native statement or cursor
outlives the connection. `CloseNeverRefusedBelow`: the two child counts reach
zero together, so a connection the API calls idle can be closed. `NoLeak`:
between calls each unit of both counts is a native object in the caller's
hands. `VMIntegrity`: the statement that is alive is the one the session holds.
`ResultBelongsToExec`: a `Result` describes its own statement.
`HiddenStmtOwned`: the statement `QueryContext` prepares for its arguments is
never lost. `TxOwnership`, `TxEndsByItself`: one live Tx, and only it ends its
server transaction. `CallsReturn`: no deadlock among the three levels of
mutexes, on error paths too.

*Properties of Adapter.* `AtMostOnce`: retries never double an effect.
`AnswersAreTrue`: what is reported done is committed, what is reported rolled
back is not. `CleanBorrow`: a borrower meets nothing of an earlier one.
`TxAgreement`: the adapter and the core agree about the transaction while the
pool has the connection, and nothing of an open sql.Tx is committed early.
`OnlyOwnWorkCommitted`: work left pending by a failed autocommit is committed by
the borrower that issued it or by nobody. `ImplementsOutcomes`: all of this as a
refinement.

*Properties of RowCursor.* `ForwardReadsAreTrue`: as long as no Seek goes back,
Value and Scan return the field of the row and column asked for, however the
result was cut into packets; this is all that `Next` and the `database/sql`
adapter need. `InBounds`: the lookup never indexes outside a buffer, even where
it picks the wrong one. `PositionsAgree`: the Go and the native position agree
on every row that can be read, although Seek truncates its argument.

*Properties of Wire.* `InStep`: as long as the adapter holds a live connection
for usable, no message of an earlier call is in flight, and between operations
nothing is; so no operation takes an answer that is not its own, although several
errors are dropped. `ErrorsAreOwn`: a call that fails in the SDK reports an error
recorded during that call. `LostLinkIsSeen`: a socket failure that ends an
operation takes the connection out of use, also when its code is an errno only
the text tells from a server code. `OperationsReturn`: no two sides wait for each
other, except after a half-written request of a call that ignores its write.
`CloseReturns`: Close ends whatever the server does.

*Properties of BindValues.* `OneShotIsExact` and `PreparedIsExact`: what is
executed is what was given, within the widths of the C layer, and a prepared
statement has exactly the bindings made since Prepare or Reset. `ReadsAreTrue`:
NULL is read for NULL and for the empty BLOB (a documented limit of the SDK) and
for nothing else, and no value changes on its way out. `ScansAreTrue`: a variable
that is scanned into again keeps nothing of an earlier row, unless the scan fails.

*Properties of Connector.* `EffectiveIsAsked`: the SDK waits as long as asked and
less than a second longer. `ConnectorsAreOpenable`: a connector never fails on its
own configuration. `NoOrphanSession`: a failed Connect leaves no connection.

*Bounds.* The guards of the code allow one statement, or one rows, or a
statement with its rows at a time, so two of each handle show both the live one
and a recycled or competing one; three goroutines give a holder, a competitor
and an observer between them. Three statements of work allow one to be pending
after a failed autocommit while a second is in a sql.Tx and a third commits. Four rows in four packets give empty buffers,
buffers of one row and of several, and a last, a first and a middle buffer. A
C int from -8 to 7 with seeks up to 20 makes arguments wrap both to small rows and
to each of the four negative seek commands. Two partial packets give a first, a
following and a last one; two values give a bind that fails before, between and
after them; the queues of Wire need no bound, as a call waits for its answer. In
BindValues lengths and indexes go beyond both ends of the small widths: 8 becomes
negative and 17 small in a C int from -8 to 7, 9 becomes the first parameter in
an index below 8; the floats are one below the last decimal, an exact one, and one too long
for the buffer. Connector's timeouts lie on, before and after whole seconds and
the limit. CubeCore and Adapter need no other
bound: the counts are unbounded in the specification and stay small because of
the code's checks.
Deadlock is checked in every run.
The type invariants of Adapter, RowCursor, BindValues, Wire and Connector are
checked as the first conjunct of their inductive invariants.

*Fairness.* `FairSpec` gives each goroutine strong fairness for the steps of a
method it is inside of. Go's `sync.Mutex` and `sync.RWMutex` hand the lock to a
waiter that has waited long enough, so a goroutine whose lock is free again and
again gets it. The assumption that remains is that native calls return: the SDK
reads replies without a timeout in ordinary calls, so a server that never
answers blocks its caller, which no lock discipline can change. Nothing obliges
a goroutine to call a method or a context to be cancelled.

`FairSpec` of Wire is weak fairness of the client, whose thread runs whenever it
has something to do. That the server answers, the same assumption as that native
calls return, is `ServerAnswers`, a premise of `OperationsReturn` only: Close must
return without it, as it reads with a timeout of a second. Nothing makes a link fail or a context end.

## Findings

`adapter_close`: a COMMIT fails, the ROLLBACK after it fails too, so `activeTx`
and the core's `txActive` stay set and the connection is broken. The pool
closes it: `conn.Close` tries the rollback a third time, clears `activeTx`
whatever the outcome, and core `Conn.Close` refuses because `txActive` is set.
`database/sql` has dropped the connection and never calls Close again, so the
native connection and its socket stay. The ADRs say that handles close
deterministically and that an explicit Close is authoritative.

`adapter_cancel`: `ResetSession` runs under the context of the next borrower,
and reports its cancellation as `driver.ErrBadConn`, which ADR 0004 excludes. A
healthy connection is discarded.

`cursor_seek`: `cubesql_cursor_field` accepts the current buffer when
`rowcount[current-1] <= row`, but that row is the last one of the buffer before.
After reading in one buffer and seeking back to the row just before it, the row
within the buffer is 0, its index is negative and is
clipped to 0: Value and Scan return the first field of the current buffer and no
error. ADR 0003 says Rows supports seek. Iterating forwards is not affected, as
`ForwardReadsAreTrue` shows, so `database/sql` users never meet it.

`wire_broken`: `classifyError` looks for words such as "timeout" and "protocol"
in every text, so a server error that quotes one, in the name of a column for
instance, makes `observeLocked` give up a healthy connection, and Prepare and Ping
return `driver.ErrBadConn` in its place. ADR 0005 reserves that for a connection
known to be broken.

`bind_float`: prepared binds write a float64 with `%f`. Query arguments, prepared
statements and the arguments next to an empty BLOB round to six decimals, where
Exec keeps 17 digits.

Three more limits of the code show in the models as the exceptions of properties
that hold:

- `csql_bind_value` ignores the result of its write and then reads without a
  limit. After a write timeout the server waits for the rest of the request and
  the client for the reply: `Stalled` in `OperationsReturn`. The repository's
  README says that the timeout applies to writes.
- A bind whose length the shim refuses has cleared nothing, so
  `nativeErrorLocked` returns the code and text that an earlier bind or the close
  of a statement has left on the connection: `RefuseBind`, which `ErrorsAreOwn`
  does not speak about.
- `BindZeroBlob` checks the Go int and binds the C int, so a size of 2^32 + n is
  bound as n: `FitsInt` in `PreparedIsExact`. In the same way an index beyond 16
  bits reaches another parameter: `wide`.

## Proofs

Every safety property that a passing run checks is a theorem, for every value of
the constants. Each module's proofs are in a module of their own, with one lemma
per action or call; the assumptions are those the modules state.

| module | assumed of the constants |
|---|---|
| CubeCore | `HandlesAssumption`: `Nil` is no handle; goroutines, statements and rows are distinct kinds of things |
| Adapter | nothing: `Work` is any set |
| RowCursor | `BoundsAssumption`: at least one column; a result has no more rows than a C int counts |
| BindValues | `BindAssumption`: limits above zero, the index field no wider than a C int and wide enough for the parameters, and a whole number made of whole last decimals |
| Wire | `WireAssumption`: numbers of partial packets and values, zero included |
| Connector | `ConnectorAssumption`: seconds are made of ticks, and the default timeout lies within the limit |

### CubeCore

| theorem | statement |
|---|---|
| `CoreInvariant` | `Spec => []CoreInv` |
| `TypeCorrect` | `Spec => []TypeOK` |
| `NativeObjectsInsideConn` | `Spec => []NoDanglingNative` |
| `CloseReachesNative` | `Spec => []CloseNeverRefusedBelow` |
| `NothingLeaks` | `Spec => []NoLeak` |
| `VMHoldsLiveStatement` | `Spec => []VMIntegrity` |
| `ResultsAreOwn` | `Spec => []ResultBelongsToExec` |
| `HiddenStmtNeverLost` | `Spec => []HiddenStmtOwned` |
| `OneTx` | `Spec => []TxOwnership` |
| `OnlyOwnTxEnds` | `Spec => TxEndsByItself` |
| `SessionRefinement` | `Spec => ImplementsSession` |

None of the properties is inductive: that `Conn.Close` finds no native object
depends on where every goroutine is in the middle of its method. `CoreInv` says
what each unit of `children` stands for: a registered statement or a goroutine
about to release one (`StmtTokens`), and likewise for rows (`RowTokens`), at
most one of each. `StmtInv` and `RowInv` say where a native statement or cursor
can be when it is not counted yet or no longer; `HiddenInv` follows the hidden
statement; `MutexInv` and `FrameInv` tie the program counter to the mutexes
held; `OpenInv` says a closed connection is idle; `TxInv` ties `txActive` to
the live Tx. There is one lemma per action, with one step per part of the
invariant. The lemma `NoNativeObjects` draws the conclusion the code relies on:
`conn.mu` free and `children = 0` imply that no native object is alive. It
carries the safety theorems and the refinement, where each action maps to one
step of Session or to none.

### Adapter

| theorem | statement |
|---|---|
| `AdapterInvariant` | `Spec => []AdapterInv` |
| `AdapterTypes` | `Spec => []TypeOK` |
| `CommittedAtMostOnce` | `Spec => []AtMostOnce` |
| `ReportsAreTrue` | `Spec => []AnswersAreTrue` |
| `BorrowsAreClean` | `Spec => []CleanBorrow` |
| `TransactionsAgree` | `Spec => []TxAgreement` |
| `NobodyCommitsForOthers` | `Spec => OnlyOwnWorkCommitted` |
| `AdapterImplementsOutcomes` | `Spec => ImplementsOutcomes` |

That a statement is committed at most once depends on what can still be pending
in the session when it is given back to `database/sql` to be retried.
`WorkAccounted` ties what the server holds and has committed to the answer each
statement has been given: what is pending is neither committed nor reported
done. `PendingIsMine` says whose it is, and that a session which is lost or has
no database holds nothing. `TxKnown` says who believes in a transaction: the
two Go flags agree while the pool has the connection, the server has none they do
not know of, and one left without its `sql.Tx` means a broken connection.
`Held` relates the pool's state to the connection's.

The exchanges come first: `ExchangeOutcomes`, `DatabaseOutcomes` and
`UseOutcomes` list the ends of a request, and `Kept`, `Committed` and `Used`
name what they leave of the session, so that each driver call is a case
distinction over a few sessions. The lemma of every action also concludes
`Progress`, what a step does to `commits` and `status`. The refinement follows:
a step decides statements that were undecided, or is a stutter.

### RowCursor

| theorem | statement |
|---|---|
| `CursorInvariant` | `Spec => []CursorInv` |
| `CursorTypes` | `Spec => []TypeOK` |
| `FieldsAreInBounds` | `Spec => []InBounds` |
| `ForwardIterationIsTrue` | `Spec => []ForwardReadsAreTrue` |
| `GoAndNativePositionsAgree` | `Spec => []PositionsAgree` |

`cubesql_cursor_field` trusts the buffer it used last. `Ordered` says that the
cumulative counts are ordered and end at the number of rows, `Reached` that a
current buffer other than the first has rows, and as long as no Seek goes back
none that makes it too late for the current row. From these the lookup is shown to
find the buffer of the row and the index in it, through lemmas about products of
rows and columns; an index that is in bounds after a seek back, in the wrong
buffer, needs only the first half of `Reached`.

### BindValues

| theorem | statement |
|---|---|
| `BindInvariant` | `Spec => []BindInv` |
| `BindTypes` | `Spec => []TypeOK` |
| `OneShotBindsAreExact` | `Spec => []OneShotIsExact` |
| `PreparedBindsAreExact` | `Spec => []PreparedIsExact` |
| `FieldsReadBack` | `Spec => []ReadsAreTrue` |
| `ScansReplace` | `Spec => []ScansAreTrue` |

A row is what the server's statement holds at the moment of execution, so the
property about rows needs one about the statement after every Bind, refused or
not (`BoundIsWanted`), and one about what can be stored at all (`StoredTypes`).
The arithmetic is in the lemmas about `CInt`, `WireIndex`, `Bytes` and `FormatF`:
which numbers come through the narrow fields unchanged.

### Wire

| theorem | statement |
|---|---|
| `WireInvariant` | `Spec => []WireInv` |
| `WireTypes` | `Spec => []TypeOK` |
| `ConnectionsStayInStep` | `Spec => []InStep` |
| `SDKErrorsAreOwn` | `Spec => []ErrorsAreOwn` |
| `SocketFailuresAreSeen` | `Spec => []LostLinkIsSeen` |

That nothing of an old call is in flight is not inductive, as it says nothing
about what the present call may still receive. `UpInv` says that a live link
carries one exchange at a time: none between two calls, and during a call its
request (`Asked`) or its reply (`Answered`), of a kind that fits the step
the call is at and what the server will wait for then. The one exception is
`Stuck`, a request half written when the write timed out; then the call fails or
still waits for the answer, or the connection is already out of use. That such an
operation ends with an error that makes `observeLocked` give the connection up is
in `TodoInv`, which also says what an operation has left to do, as the
cleanup after a fault may be another exchange. `DownInv` is the same for a
link that has failed, where a reply may still be read. `CallInv` ties the call to
its operation, and says why the error of a metric is its own.

### Connector

| theorem | statement |
|---|---|
| `ConnectorInvariant` | `Spec => []ConnectorInv` |
| `ConnectorTypes` | `Spec => []TypeOK` |
| `TimeoutIsAsked` | `Spec => []EffectiveIsAsked` |
| `NoUnusableConnector` | `Spec => []ConnectorsAreOpenable` |
| `FailedConnectLeavesNothing` | `Spec => []NoOrphanSession` |

`ConnectorInv` adds to the properties that a connector exists only for a
configuration that `Config.Validate` accepts; the rest is arithmetic on
`Seconds`, which rounds up.

### Only model-checked

`CallsReturn`, `OperationsReturn` and `CloseReturns`: liveness under fairness is
out of the prover's reach. The five properties of the runs that are violated
are false of the code, so there is nothing to prove of them.

## Not modelled

- Replies that do not follow the protocol (a wrong signature or size), an error
  reply without a text, and running out of memory: the driver returns the error,
  and nothing in it depends on what follows.
- The handshake, encryption and TLS of the SDK, its trace, cancel and server-side
  cursors, and the crypt library: third-party code that the driver uses as it is
  or not at all.
- The syntax of a DSN and the tables of column type names and scan types, which
  keep no state, and a TEXT that parses as a number.
- Aliasing of Go slices, for instance `Scan` into a `*[]byte` that reuses the
  caller's array: values are immutable in the models.
- Topology spikes, scripts, reproducers and reports: tooling.

## Plan

Done: all modules of the inventory, and the proof of every safety property and
both refinements. No module uses a recursive operator. What is left:

1. Wire: an abstract specification of a connection as its callers see it, which
   answers each operation once or is given up, and the refinement from `WireInv`.
2. BindValues: the prepared statement as an abstract map of bindings that Execute
   reads, refined as long as the widths suffice.
3. RowCursor: the exact rows for which a read after a seek back goes wrong, as
   the strongest statement that is true of `cubesql_cursor_field`.
4. CubeCore and Adapter together: that the core state Adapter keeps, `coreTx` and
   `children`, moves only as CubeCore lets one goroutine move it.
