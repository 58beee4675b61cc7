# A verification project for go_mysql_server

TLA+ models of this SQL server: its goroutines and channels, its locks and shared
registries, the index driver and what a crash leaves of it on disk, the rewriting of
query plans, the row iterators that execute them, and the types, operators and
functions of SQL. TLC checks each model on small instances; for six of them TLAPS proves
what the runs check, liveness excepted, for every value of the constants.

`PROJECT.json` lists the components, the runs, the mutants that show that each
property can fail, the source lines behind every definition, the hazards and the
theorems.

## The system

The program is an SQL engine with a MySQL front end, to be embedded in other
programs that bring tables and index drivers of their own.

    client --- Listener/Handler --- SessionManager --- Engine.Query
                                                         |  parse, analyze
               ProcessList <--- QueryProcess, KILL       |
               Catalog (tables, locks, views) <----------+
               IndexRegistry <--- CREATE/DROP INDEX ---  plan nodes (row iterators)
                    |                                    |  expressions, types
               index drivers (Pilosa)          MemoryManager, caches
                                                         |
                                               tables (memory.Table)

| Component | State | Operations | What is hard |
|---|---|---|---|
| `sql/plan/exchange.go` | channels for tokens, partitions, rows, errors, quit | Next, Close; goroutines start, iterPartitions, iterPartition | many goroutines, one error slot, Close and cancellation at any time |
| `sql/index.go` | indexes, their order, status and reference counts, a queue of deletions, loaders | AddIndex, DeleteIndex, lookups, ReleaseIndex, loading | two mutexes, callbacks in goroutines, lookups that retain |
| `sql/plan/create_index.go`, `drop_index.go`, `show_indexes.go` | -- | the statements on top of the registry and the driver | several critical sections in a row, failing Save |
| `sql/index/pilosa` | index directories, bitmaps, mappings | Create, Save, LoadAll, Delete, lookups | a goroutine per partition; crashes between file operations |
| `server/` | connections, sockets waiting to be matched, sessions | NewConnection, ConnectionClosed, ComQuery, KILL | hang-ups, timeouts, goroutines per query, unbuffered channels |
| `engine.go`, `sql/processlist.go`, `sql/plan/process.go` | processes and their contexts | AddProcess, Done, Kill | a process must end on every path |
| `sql/catalog.go`, `sql/plan/lock.go` | table locks per connection | LockTable, UnlockTables | locks of a connection that is gone |
| `sql/parse` | none | syntax trees to plans | which clause sees which names |
| `sql/analyzer` | the plan being rewritten | some thirty rules in batches, one to a fixpoint | rules that undo, miss or renumber each other's work |
| `sql/plan` (iterators), `aggregation` | a tree of open iterators | RowIter, Next, Close | errors and early ends in the middle of a tree |
| `sql/plan/join.go` | primary row, iterator or cache of the other side, mode | Next, Close | the mode changes while rows are returned; memory runs out |
| `memory/table.go` with INSERT, REPLACE, UPDATE, DELETE | partitions, the partition to insert into | tableEditor.Insert, Delete, Update; tableIter | the statement reads the slices that it changes |
| `memory/table.go`, `sql/plan/ddl.go` | schema and rows | AddColumn, DropColumn, ModifyColumn, RenameColumn | schema and rows have to change together |
| `sql/memory.go`, `sql/cache.go` | caches by position | NewXCache, dispose, Free, Put, Add | queries share it; check and store are apart |
| `sql/*type.go`, `sql/charsetcollation.go` | none | Convert, Compare, SQL, printing | widths, NULL, values that do not read back |
| `sql/expression` with its functions | the value a subquery keeps | Eval, Type, IsNullable | NULL, panics, declarations that Eval does not keep |
| `memory/*_index.go` | none | lookups and their merging | used through the assignment of indexes |
| `auth`, `sql/session.go`, `sql/viewregistry.go`, `information_schema`, SHOW | small maps | reading | little |

What makes each component correct is stated by the properties of its module; the
list of hazards in `PROJECT.json` names, line by line, what they are aimed at.

## Modules and runs

A definition carries the name of the Go function it stands for where it can; `map` in
`PROJECT.json` gives the lines. Definitions introduced by a comment "mutant" are wrong
on purpose: put in place of the definition they are variants of, they show that a
property notices the error. Where the code is known to break a property, the property
names the case as an exception, and the section "What the models show" lists it.

| Run | Module | Question |
|---|---|---|
| `exchange` | MCExchange | do the goroutines of an Exchange together form a row iterator? |
| `registry` | MCIndexRegistry | do CREATE, DROP, SHOW and queries leave the registry whole, and do they return? |
| `handler_kill` | MCHandler | does a killed connection end? |
| `handler_commands` | MCHandler | is success complete, and is nothing left of a closed connection? |
| `pilosa` | MCPilosaDriver | is an index that is offered complete, after whatever crash? |
| `indexes` | MCAssignIndexes | do index lookups lose rows? |
| `analyzer` | MCAnalyzer | does the analyzed plan answer the statement? |
| `rows` | MCRowIters | do the iterators give the rows of the plan and close what they open? |
| `table` | MemoryTable | does a statement change the rows it selects, and no others? |
| `alter` | MCAlterTable | do schema and rows stay together? |
| `memory` | MCMemoryManager | is every cache tracked, and disposed of? |
| `values` | MCValues | are types, operators and functions sound? |

### Exchange, PartitionedRows, MCExchange, ExchangeProofs

The iterator that reads partitions in parallel. Every goroutine (start,
iterPartitions, one per partition, the caller) is a program counter; a step is one
channel operation or one critical section of `it.mut`. Channels are modelled by
what is in them and whether they are closed; `quit()` answers nil after Close, as
in the code. `Faults` says which of the following may happen: an error of the
partition iterator, of opening, reading or closing a partition, cancellation of
the context, Close before the end.

`PartitionedRows` is what the interface `sql.RowIter` promises a caller: rows come one
for each call, those of one partition in order, io.EOF after the last row or after an
error that was reported, and every call is answered. `IsRowIter` says that Exchange
implements its safety part: a call in progress is a call in progress there, and what goes
on in channels and goroutines is stuttering. That every call is answered is the first
conjunct of `DrainedAndDone`.

* `exchange`: all failures, three partitions (two rows between two without any) and two
  tokens. Three partitions against two tokens are what it takes for a goroutine to
  start while another one runs and a third ends; the empty partitions are the ones whose
  goroutine races with the end of the others.
* Fairness: one weak fairness condition on the union of all goroutines and of a caller
  that goes on calling Next. The Go scheduler does more (each runnable goroutine runs);
  the properties need no more than that something runnable runs.
* Deadlock is not checked: the iteration ends, and the goroutines of an iterator
  that is closed early do block.

### IndexRegistry, MCIndexRegistry, IndexRegistryProofs

The registry and the statements on it. Clients run CREATE INDEX, DROP INDEX, SHOW
INDEXES, a query, or DeleteIndex without force; AddIndex and a queued DeleteIndex
start goroutines. A step is what happens between two acquisitions of a lock. `r.mut`
is a writer-preferring RWMutex, so read locks are counted and waiting writers keep
new readers out; `r.rcmut` is kept across steps only by DeleteIndex. The driver is
external here: Create, Save (which may fail), LoadAll and Delete appear as the code
uses them.

* `registry` has three casts. CREATE INDEX (Save may fail), DROP INDEX and SHOW INDEXES
  run at once on two databases and two ids, so that statements meet and miss each
  other's index; or a DROP, a DeleteIndex without force and two queries share one index
  that is loaded from disk: the second query keeps the index in use when the first lets
  go; or two DeleteIndex without force want the index that one query uses. The locks are
  counted, so a third reader adds nothing new.
* The registry can hang, in five ways that `Wedged` names: a lock inversion, a read
  lock taken twice around a waiting writer, a read lock left behind by the early
  return for an empty registry, a count that nobody gives back, and a deletion whose place
  in deleteIndexQueue another one took (DeleteIndex looks at the status and sets it under
  the read lock only, so both find the index ready). `StatementsReturn` says that these
  statements, in these numbers, have no other way to hang. Fairness: weak fairness of the
  union of the clients that are in a statement and the goroutines they started.
* Writes of the Go maps under a read lock (`statuses` in DeleteIndex, everything a loader
  registers) are data races; the model takes the order in which they happen and not the
  runtime's abort when it notices them.
* Two connections share a registry where the embedding program's session builder
  gives them one; `DefaultSessionBuilder` makes a registry for each session, and
  there only the goroutine of an asynchronous CREATE INDEX runs beside the
  statements of the connection.

### Handler, MCHandler, HandlerProofs

The server: sockets are accepted and matched with connections, sessions are made,
ComQuery starts the goroutine that reads rows and the one that watches the socket,
Engine.Query adds the process, QueryProcess ends it, KILL QUERY and KILL CONNECTION
act on other connections, LOCK TABLES holds locks. Vitess is external: it calls
NewConnection, ComQuery one command at a time, and ConnectionClosed.

* `handler_commands` every kind of command, failing rows and hang-ups, results
  of up to two rows in batches of two, and OkResults. `handler_kill` queries and
  KILL CONNECTION with the socket being watched, timeouts, and a session
  builder that may fail.
* Two connections are one that acts and one that is acted upon, two commands are
  enough for a KILL and its victim; the connections are symmetric in
  `handler_commands`, where no liveness is checked. With batches of two a
  result is empty, part of a batch or a whole one, after which nothing is left for the
  last callback. Deadlock is not checked: clients may stop sending.
* Fairness in `handler_kill`: weak fairness of the goroutine of each connection and
  of the one that reads rows. Nothing is assumed of clients or of the goroutine that
  watches the socket. `KilledIsClosed` excepts the state in which a failed session
  builder has left the session manager's mutex locked.
* UnlockTables drops the record of a connection's locks whether or not every table could
  be found and unlocked; the history variable `stuck` has the locks that were lost that
  way. `NothingLeftBehind` says that a closed connection leaves no other lock, and
  `LocksRecorded`, a part of the invariant that is proved, that every other lock is on
  record. `SocketMayFail` lets the goroutine that watches the socket fail to find or to
  read its state, which ends the command with that error. KILL CONNECTION drops
  the session and closes the connection in two steps.

### PilosaDriver, Mapping, MCPilosaDriver, PilosaDriverProofs

One index in the process and on disk. Create makes the directory, the configuration and
the processing file; Save runs a goroutine for each partition under a token channel,
each importing bits into pilosa and committing the mapping batch by batch; Delete
cancels a running Save and removes files and fields one by one, in any order; the
process may crash between any two of these steps, and LoadAll works from what is left.
Every write and removal of a file may fail (`CreateFails`, `SaveFails`, `RemoveFails`):
the call answers an error and what it has done stays on disk. A file that could not be
written whole counts as written or as not there, and a LoadAll that answers an error, which
leaves the disk as it is and offers nothing, is not a step.
`Mapping` is the bolt database of a partition as a value. The pilosa server and bolt
are external: an import and a commit succeed as a whole or fail.

* `pilosa` two partitions of up to three rows (repeated values, NULLs, a partition with
  nothing but NULL, an empty one), batches of two, two threads, two indexes created one
  after the other under the same name over different contents, one crash and one failure
  of table, import, commit or file. There are as many threads as partitions, so the run
  does not show a goroutine waiting for a token; the theorems are for any number. A second
  index is what finds leftovers of the first. With batches of two the last batch is full,
  partial or empty.
* Fairness: weak fairness of the caller inside Save and Delete, of LoadAll at the start,
  and of each partition goroutine. Crashes, cancellations and failures are never
  required.

### IndexLookup, AssignIndexes, MCAssignIndexes

What a lookup answers and how lookups merge, for pilosa and for the two kinds of
in-memory index; how the analyzer finds lookups for the filters of a plan, one column
or several at a time, and pushes them and the filters into the tables.
`PushdownKeepsAnswer` compares the rows with those of the plan that pushes nothing.

* `indexes` chains of filters of up to three predicates, grown one step at a time
  with AND, OR and NOT, over one table with every combination of two values and NULL and
  one with few rows, under nine registries. `Disagree` names the cases in which the
  code loses rows; a lookup that fails is an error of the query and allowed.

### Plans, Queries, Analyzer, MCAnalyzer

`Plans` has the nodes and expressions of a plan, their schemas and the rows a resolved
plan stands for. `Queries` has the SELECT statement as a syntax tree, the plan that the
parser makes of it, and independently its answer, computed by names over whole
relations. `Analyzer` has the rules, one step each, in their batches; TransformUp threads
the variables that a rule's closure assigns. Letter case, column types and the rules
that only attach databases, the catalog or progress counters are left out; so is OR.
fixSortDependencies writes into the slice of the node that it replaces
(`sql/analyzer/resolve_orderby.go:103`), which nothing reads any more, and a session's
sql_select_limit makes one statement of another (`sql/parse/parse.go:447`): the models have
neither.

* `analyzer` some 1,200 statements over two tables and a view: every clause alone and
  most pairs of clauses, with names that are qualified, aliased, ambiguous or missing,
  analyzed for parallelism 1 and 2, on a database with several partitions, duplicates and
  rows without a partner, and on one with NULL and an empty table. `AnswerKept` and
  `Accepted` name the statements for which the code is known to go wrong. `Settles`
  stands for the limit of a thousand passes with a limit of five.

### RowIters, JoinIter, MCRowIters

`RowIters` has an iterator for every node of a query, as a value with the iterators it
holds; a step is a call of the topmost Next or Close with all the calls below it. Opening
or closing a table or partition may fail at any call (`Faults`), a row may be unreadable,
the context may be cancelled. The iterator that Generate makes of an array closes without
an error (`sql/generator.go:54`), so its Close has no error path here. An unreadable row
stands for a row with an equal among the others and for one without (`Readings`):
whichever it is, the rows returned begin the answer, and at io.EOF they are all of it, so
that a row is only passed over where the answer does not need it. COUNT(DISTINCT) does not
count a value that it fails to evaluate, and goes on. The aggregation buffers with Update,
Merge and Eval are here too. `JoinIter` has the iterator of inner, left and right joins in
unknown, memory and multipass mode with memory running out at any row. What SQL calls the
join is a set of rows (`JoinRows`) with the order of the primary side (`Precedes`);
`JoinIsCorrect` says that Next has returned the first rows of it, in that order, and all
of them at io.EOF. The proof about it is in `MemoryManagerProofs`.

* `rows` explores the two side by side in one instance; the variables of the other
  rest. Plans are two unary nodes over a table, a union, a join or a generator, and some
  deeper ones, on tables with empty partitions, NULLs and an unreadable row. Joins are
  checked under every condition over up to two primary and three secondary rows: memory
  can run out before, between and after the rows that match, and the second primary row
  meets what the first left behind.
* `JoinEnds` assumes weak fairness of the iterator: somebody calls Next. The code goes
  wrong in two cases, a secondary side without rows, and a row whose Add fails after the
  check: `JoinIsCorrect` leaves out both (`Sound`), `JoinEnds` the first.

### MemoryTable, MemoryTableProofs

The partitions of an in-memory table are Go slices: arrays with a length. An
iterator keeps array and length of the moment it was opened, an editor writes into
the same array; Delete and Update look for a row by its values in the random order
of a Go map. A statement is one step per row. `before` is the table as it was when the
statement began, as a function from places (a partition and an index) to rows;
`StatementResult` compares what the statement leaves behind with it. Rows of a value are
counted as sets of places, so that the proofs can speak of one place at a time.

* `table` two statements of any kind, failing at any row. A statement is recorded as
  undisturbed when it begins if its rows cannot get in their own way (`Undisturbed`:
  at most one row of each partition to delete, no equal rows in two partitions to
  update, no INSERT ... SELECT from two partitions); then it does what it should.
  Whatever the statement, rows that it did not select are safe and its count is
  honest.
* Two partitions and three rows contain every way in which a row can move past, in
  front of, or away from the iterator. The plan is sequential: the statements run
  without an Exchange.

### AlterTable, MCAlterTable, AlterTableProofs

The schema and the rows under ADD, DROP, RENAME and MODIFY COLUMN. A value is the
id of the column it was stored for, so `RowsMatchSchema` says that every value is
where the schema will look for it. Names that differ in case are different to the
table and the same to the statements. `Places` is where the loop of AddColumn writes the
new column: at one place, at none (a slot of the new schema stays nil) or at several (the
loop runs past its end). `Others` is the schema that DropColumn fills from the front with
the columns of other names.

* `alter` any two statements between insertions of up to two rows, on two initial
  columns: this reaches the first, a middle and the last position, and the empty
  schema. The history variable `done` records which statements there were and
  whether one was odd (another spelling of a column, a name that is taken, a column
  moved after itself, the last column dropped).

### MemoryManager, MCMemoryManager, MemoryManagerProofs

Positions of caches, Free, the check before each entry, and the life of the
iterators that use the caches. Entries are counted, up to two for each iterator
against a limit of one, so that every iterator can be refused and the others'
late stores can exceed the limit.

* `memory` any three of a DISTINCT, an ORDER BY, a GROUP BY, a join and an LRU cache
  (the constraint `MCThree`: three are enough for a DISTINCT to strike a cache whose own
  dispose then strikes a third). A DISTINCT that was read to its end disposes again when it
  is closed, at a position that may be another query's by then: `TrackedUntilDisposed` says
  that a cache in use is only lost at such a position (`Struck`). `LeftBehind` says what
  stays in the manager for good: the caches of GROUP BYs, which never dispose, and of joins
  whose primary side failed to open after the cache was made, and nothing else. A join in
  unknownMode looks twice and ignores that the second look finds no memory.
* `MemoryManagerProofs` also has the proof about the nested loop join, whose mode the
  available memory decides.

### Types, Charsets, Expressions, Builtins, MCValues

Pure code, as operators. `Types` has construction, Convert, Compare, Promote, SQL and
printing of every type; `Charsets` the tables and lookups of character sets and
collations; `Expressions` Eval, Type and IsNullable of the operators, the rewriting of
trees and the value a subquery keeps; `Builtins` the functions. An operation that panics
or fails in Go has a value for it (`Panic`, `Err`). Integers wrap at their width. Floats
have few digits, three for a FLOAT and four for a DOUBLE, and conversions between integers,
FLOAT and DOUBLE round to them, so that an integer that no float holds is as near as 17.
What becomes of a float that no integer of the width holds is up to the processor: the
variable `machine` is one of what amd64, arm64 and others make of it. NaN and the two
infinities are values. A JSON document is read into floats and written again.

* `values` every column definition with values at and past the bounds of its type, every
  operator over every pair of kinds of operand with a second operator above it, and
  every function with a second call on its result. Integers have 2 to 6 bits and lengths
  and limits shrink with them, so that every bound is met by several values from either
  side. Floats are in quarters and instants in hours: fractions that round up and down are
  there, MINUTE and SECOND are not. A time.Duration holds 512 hours (`MaxDuration`), which
  intervals of days and weeks exceed.
* The properties relate operations to each other rather than to a copy of themselves:
  what is stored converts to itself, what is printed parses to the type it came from,
  exactly one of <, = and > holds, SUBSTRING takes what INSTR finds, a week has one more
  than the weeks of its year before it as its number. NOT IN, which has code of its own,
  is compared with IN, and IN with =. That is why texts are sequences of bytes here: the
  round trips through base64, JSON and the places where characters are cut are about them.

## What is proved

With TLAPS, for every value of the constants that satisfies the named assumptions of the
modules. The assumptions say which sets are finite, that bounds are numbers, that a value
for "nothing" is none of the others, and what the outside brings: the loaded indexes have
different keys (`StoredAssumption`: a directory each), the partitions of a table hold
sequences of values (`ContentAssumption`). There is no bound on clients, connections,
partitions, rows, tokens, iterators, columns, crashes or memory in a theorem; the bounds
on the length of a behaviour (`MaxOps`, `MaxPid`, `MaxAlters`, ...) are any numbers.

| Theorem | States | Rests on |
|---|---|---|
| `ExchangeProofs!ParallelismBounded`, `ReleaseIsNonBlocking` | the invariants of the same meaning | the tokens in the channel, the one in the hands of iterPartitions and the running goroutines add up to at most the capacity |
| `RowsExactlyOnce`, `TruncationNeverSilent` | `RowsOnceInOrder`; io.EOF on a truncated result leaves the error in the channel | what was delivered, what is in the hands of a goroutine and what is yet to be read make up the partition; which program counters are possible once the rows channel is closed |
| `ExchangeIsRowIter` | the refinement `IsRowIter` of `PartitionedRows` | both invariants; each step is one of the abstract steps or a stutter |
| `IndexRegistryProofs!CountsCoverUses` | `RefCountCoversUse` | `RegistryInv`: who holds and awaits which lock at which place of a statement, what it has retained, which deletions are queued |
| `ReadyIndexesHaveFiles` | `ReadyHasFiles`, if `NoLazyCreation` | `FilesInv`: an index object is added once, a database is not loaded again while an index of it is dropped, an index is unregistered before its files go |
| `OrderListsRegistered` | `NoDanglingOrder`, if `OneCreator` | `Ordered`: an index that has passed validateIndexToAdd is registered by nobody else |
| `HandlerProofs!ClosedConnectionsLeaveNothing`, `SuccessfulCommandsAreComplete` | `NothingLeftBehind` (a lock stays only if its Unlock failed), `SuccessIsComplete` | `HandlerInv`: which process belongs to which command, that rows taken, queued in the batch and sent add up, and what each stage of ConnectionClosed has already removed, whoever else may add it back |
| `IndexesOutliveConnections` | the action property `IndexOutlivesConnection` | that only queries are cancelled when a connection ends |
| `PilosaDriverProofs!DeleteIsThorough` | `DeletedLeavesNothing` | goroutines end before Delete removes files, and what exists on disk in each phase |
| `OfferedIndexesAnswer` | `OfferedAnswers` | `DriverInv`: for each goroutine, the rows that its mapping and its field already hold, the rows in its batch and those it has still to read; the marks that LoadAll will find after a crash |
| `MemoryManagerProofs!TrackedUntilDisposedCorrect`, `LeftBehindCorrect` | the invariants of the same names, for any iterators | `ManagerInv`: an entry is at the position its iterator was given, positions are not shared, an entry stays until its iterator removes it or a DISTINCT has struck its position; a struck iterator strikes only there in its turn |
| `MemoryBoundCorrect` | `MemoryBound`, for iterators of all kinds | the memory in use and the iterators that have looked and not stored yet together stay below the limit plus the iterators |
| `JoinsCorrect` | `JoinIsCorrect`, for sides of any size | `JoinInv`: the rows returned are exactly the rows of the join that the comparisons so far have passed, foundMatch is whether one of them matched, the cache holds the first rows of the secondary side in their order, and in multipass mode a pass is yet to come for a primary row just begun |
| `AlterTableProofs!SchemaStaysIntact` | `SchemaIntact` | `PlainSchema`: after plain statements there is a column in every slot, at least one, and no two with the same id or with names equal but for case |
| `RowsMatch` | `RowsMatchSchema` | the same, and rows that are never shorter than the schema |
| `PlacesKept` | the action property `ColumnsKeepPlaces` | the same: what is taken out or put in is found at exactly one place |
| `MemoryTableProofs!OnlySelected` | `OnlySelectedRows`, for every statement | how each editor changes the number of rows of a value: an insertion by one, a deletion by one, an update by a row of another value |
| `StatementsCorrect` | `StatementResult` | `TableInv`: for each kind of statement the places of `before` that have been read; what is unread is as it was (UPDATE), the old places stay (INSERT ... SELECT), and in the partition that is read either nothing was deleted yet, or neither the slice nor the array behind it holds another row to delete (DELETE) |

`TypeCorrect` of each of these modules is proved too. `ListLemmas` has the facts about
sequences and sets of numbers that the proofs share: what RemoveAt and InsertAt do to the
elements, that a sequence made of a set lists it once, that a set of numbers has a least
one.

None of the properties is inductive as it stands; the strengthenings are definitions at
the end of the component's module (for the in-memory table, of its proof module), and each
was checked by TLC on the instance of its run before it was proved. `JoinsCorrect` assumes
of the constants that `MaxLeft` and `MaxRight`, the bounds on the sides, are numbers; the
rows that are asked for and the count of passes may be bounded by anything. Two theorems
about the registry have a hypothesis on the initial state, and need it:

* `NoLazyCreation`: the loaders have run before, or nobody creates indexes. Without it TLC
  finds a query that loads the indexes of a table after CREATE INDEX has saved one and
  DROP INDEX has unregistered it, and before its files are gone: the loader registers it
  again, and the files go.
* `OneCreator`: with two clients that create the same index both pass validateIndexToAdd,
  which gives the lock back before AddIndex takes it again, and indexOrder has the id twice.

Only model-checked:

* liveness under fairness: `DrainedAndDone`, `StatementsReturn`, `KilledIsClosed`,
  `CallsReturn`, `JoinEnds`; the provers have neither fairness nor ENABLED;
* everything about Plans, Queries, Analyzer, RowIters, AssignIndexes, IndexLookup,
  Types, Expressions and Builtins: the modules define recursive operators or are reached
  together with some, and what a recursive operator computes for every plan, type or
  expression needs an induction over data, which is out of the provers' reach. These are
  the invariants `StoredValue`, `TypeIsSound`, `Declared`, `PredicatesAgree`,
  `SubqueryStable`, `FunctionLaws`, `CalendarLaws`, `PushdownKeepsAnswer`, `AnswerIsPlan`,
  `NothingLeftOpen`, `MergeIsUpdate`, `AnswerKept`, `Accepted` and `Settles`.

## What the models show

The code's own comments are contradicted in three places that a property has to name:

* `sql/index.go:620` says that the channel of DeleteIndex "will send a message when the
  index can be deleted from disk"; DeleteIndex takes rcmut and then mut (`:657`) while the
  lookups take them in the other order, and both wait for ever (`LockInversion` in
  `Wedged`); and a second deletion of the same index takes the place of the first in
  deleteIndexQueue (`:678`), which then never sends (`Overwritten`).
* `sql/index.go:585` says that nobody can register two indexes with the same expression
  or id while one is being created; the check and the registration are two critical
  sections.
* `sql/core.go:239` says that Delete is called once for each row to process; the editor
  moves the rows under the iterator, which skips the neighbour of a deleted one
  (`memory/table.go:321`).

Other cases that the properties leave out by a named condition:

* Exchange: when the last goroutine fails, Next may take the closed rows channel
  before the error and report io.EOF (`sql/plan/exchange.go:261`); a goroutine that calls
  `quit()` after Close stays blocked (`:274`).
* Index registry: an index can be deleted under a query that chose it earlier
  (`sql/index.go:680`); an index whose Save failed is ready for a moment
  (`sql/plan/create_index.go:208`); CREATE INDEX of an existing id overwrites the files
  before it is refused, and a CREATE that meets a DROP of its name loses its own; loaders
  may run twice (`:309`); DeleteIndex takes the first index with the id in any database; a
  queued deletion leaves its entry in indexOrder; a count retained for a missing index is
  never released (`:386`).
* Handler: sockets of two connections may be swapped (`server/handler.go:79`); a
  failing query stays in the process list until its connection ends (`:276`); CloseConn
  cancels no context (`server/context.go:155`); the reading goroutine may block for
  ever (`:199`); a failing session builder leaves a mutex locked
  (`server/context.go:113`); a lock whose Unlock fails, or whose table is gone, is held
  for ever and forgotten (`sql/catalog.go:231`).
* Pilosa: a crash between the two writes of Create, or inside RemoveAll, leaves an index
  that LoadAll offers, and so does an error there; a cancelled Save answers nil, and so
  does one whose partition failed while others were still to come; an error of the
  key-value iterator is taken for its end (`driver.go:323`); the error of the last commit
  is lost; with no threads Save hangs; the progress log panics when the rows end at a
  multiple of the batch (`sql/plan/create_index.go:476`); a partition without values fails
  every lookup.
* Index assignment: `5 < a` is looked up as `a < 5`; BETWEEN x AND x finds nothing and
  BETWEEN over several columns misses corners; an unsigned literal is another key;
  NOT (x OR NULL) differs; one table filtered twice in a plan shares its lookups.
* Analyzer: a table that occurs twice in a plan resolves to the last occurrence and
  shares filters; UNION DISTINCT with a sorted side keeps duplicates; UNION of plain
  columns of two tables is rejected (`prune_columns.go:58`); `u.*` over a natural join
  loses the common columns; a SubqueryAlias remembers a schema from before pruning
  (`sql/plan/subqueryalias.go:29`); GROUP BY an aggregation is accepted; HAVING and ORDER BY
  an aggregation may be rejected; an index is found for an expression list it only
  contains (`sql/index.go:550`).
* Iterators: joins drop the iterators of their right side unclosed
  (`sql/plan/cross_join.go:120`); a Generate that cannot open its child leaves a span;
  FIRST, LAST and AVG do not merge (`aggregation/avg.go:111`); an empty secondary side
  makes a join repeat a row or spin (`sql/plan/join.go:399`); a row is lost when Add fails
  (`:449`).
* Tables: DELETE may fail half way (`memory/table.go:331`); UPDATE of equal rows and
  INSERT ... SELECT from the same table meet their own changes (`:346`, `:300`); DROP,
  RENAME and MODIFY COLUMN leave the rows as they were or add a value (`:420`, `:446`);
  another spelling of a column breaks the schema (`:382`, `:416`).
* Memory: DISTINCT disposes of its cache twice and may remove another query's
  (`sql/plan/distinct.go:105`); GROUP BY never does (`sql/plan/group_by.go:292`), nor does a
  join whose primary side cannot be opened (`sql/plan/join.go:272`); a rows
  cache that fails keeps its rows (`sql/cache.go:72`).
* Types: unsigned values above the largest int64 wrap in a signed type, and a float above
  it becomes what the processor makes of it (`sql/numbertype.go:189`); an integer that a
  float64 does not hold changes in a JSON column (`sql/json.go:37`); a negative
  MEDIUMINT is sent as an unsigned number; a NULL TIME or YEAR cannot be sent; the
  fraction of a TIME loses its leading zeros; SHOW CREATE TABLE prints a SET of several
  members as one.
* Expressions and functions: FALSE OR NULL is FALSE; x IN (NULL) is FALSE and x NOT IN
  (NULL) TRUE; GREATEST and LEAST answer integers as a float64 holds them
  (`function/greatest_least.go:72`); an INTERVAL of more than 292 years of days or hours
  wraps (`sql/expression/interval.go:255`); an interval may lead below the first date
  (`sql/datetimetype.go:308`); integer division by zero, two ENUM
  or SET operands, a date with INTERVAL NULL and an array with NULL in CONCAT panic, as
  does SUBSTRING with a length whose sum with the start wraps; month arithmetic that
  lands on December is a year late; some functions answer NULL though they declare they
  cannot, or text with a numeric type; NULLIF answers the type of NULL instead of NULL;
  LPAD and RPAD cut characters in two; YEARWEEK(NULL) fails; a scalar subquery that holds
  an array is a list the second time.

## Plan

1. Exchange with proofs, and its refinement of PartitionedRows. Done.
2. IndexRegistry, Handler with proofs. Done.
3. JoinIter, MemoryTable, AlterTable, MemoryManager with proofs. Done.
4. PilosaDriver, Mapping with proofs, lookups. Done.
5. Row iterators and aggregations, analyzer and its rules, assignment of indexes. Done
   for queries; OR in the analyzer's language, GENERATE and the conversion of dates are
   left.
6. Types, expressions, functions. Done.
7. Progress of the process list, the registry of views, session variables and warnings,
   the readers of CREATE INDEX and LOCK TABLES, authentication.

The project keeps to a dozen runs, each with one question, and to forty checked
properties; what item 7 adds shares the runs of the components it belongs to.

## Not modelled

Formatting and logging, the network protocol, the SQL grammar (an external parser),
`information_schema`, the SHOW statements that only read, catalog lookups, session
variables, warnings, authentication, and the wrappers of the operating system: they keep
no state that two steps could disagree about, or only read it. The hand-written readers
of `sql/parse/util.go` consume text character by character. Tables, drivers and session
builders of the embedding program are external and appear as the code here calls them.
Concurrent statements on one in-memory table race on a Go map; the outcome is not
defined and not modelled.
