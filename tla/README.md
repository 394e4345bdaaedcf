# Verification of the Tsuga logs connector

The repository is a Databricks Lakeflow community connector: it copies the logs
of a Tsuga account into a Delta table, run after run. This directory holds TLA+
models of it, the TLC configurations that check them on small instances, and
TLAPS proofs of the results that matter most.

Paths below are relative to `src/src/databricks/labs/community_connector/`.

## 1. Inventory

| Part | Where | State it keeps | Operations | What is hard |
|---|---|---|---|---|
| Connector | `sources/tsuga_logs/tsuga_logs.py` | the end of its range, fixed when it is built | `read_table`, `_get_start_seconds`, `_fetch_windows` | an offset must tell a resume within a run from the start of a new one; late arrivals |
| Windowed read | `sources/tsuga_logs/incremental_read.py` | locals of one batch | `collect_windowed_records` | the cap of a batch: truncation, the exact fit, fingerprints of the boundary second |
| Client: bisection | `sources/tsuga_logs/client.py:292-377` | the call stack | `fetch_window`, `_fetch_range_recursive` | answers capped at a page, an index that grows between requests |
| Client: HTTP | `sources/tsuga_logs/client.py:185-273` | a lock, the earliest time of the next request, the attempts of each call | `_search`, `_apply_request_rate_limit` | threads that share one client, retries, time-outs |
| Stream reader | `sparkpds/lakeflow_datasource.py:101-150` | none; the engine keeps the offsets | `initialOffset`, `read`, `readBetweenOffsets` | a replay reads again from the start offset and ignores the end offset |
| Batch reader, partitioned reader, virtual tables | `sparkpds/lakeflow_datasource.py:153-382` | whether partitions are supported | `partitions`, `read`, `schema` | a failure to plan partitions is swallowed |
| Agent dispatcher and reader | `sparkpds/ingestion_agent_datasource.py` | operation, connector or the error of building it | `schema`, `reader`, `read` | which errors become a row and which are raised |
| Pipeline | `pipeline/ingestion_pipeline.py`, `libs/spec_parser.py` | the declared views, tables and flows | `ingest` | look-ups by source table only; names that must be unique |
| Registration | `sparkpds/registry.py` | Spark's registry | `register` | fall-back from the generated module to the package |
| Value parser | `libs/utils.py` | none | `parse_value` | nulls, nested types |
| Simulated source | `libs/simulated_source/` | tables, tombstones | paging, upsert, delete | page numbers over a changing table |
| Search simulator | `source_simulator/specs/tsuga_logs/` | a recorded corpus | `search_logs` | none: tests only |
| Interfaces | `interface/` | none | abstract methods | none |
| Merged source | `sources/tsuga_logs/_generated_tsuga_logs_python_source.py` | | | generated from the modules above |

How they interact. A pipeline update calls `ingest`, which declares a view over
`lakeflow_connect` and a flow into the destination table. Spark builds a
`LakeflowSource` and with it the connector, and calls the stream reader until an
offset comes back unchanged; each call ends in `read_table`, which cuts its range
into windows and hands rounds of them to a client and its threads. Spark logs
the offset of a batch, writes its rows through `apply_changes` keyed by
`raw_json`, and commits. When an update fails, the next one has a new connector,
with a later end of range, and replays the batch that was logged and not
committed.

What makes each part correct:

- connector and stream reader: no event that becomes searchable in time is lost,
  whatever fails; a replay loses nothing that was planned; a run ends, and ends
  only when it is caught up; the cursor never moves back;
- bisection: a fetch that returns has exhausted its window, but for a second that
  fills a request where cutting it short is allowed; it ends;
- HTTP client: requests are spaced, an error is final only after every attempt,
  no thread waits for ever;
- pipeline: every object of the specification gets exactly the flow it asks for;
- readers: an answer comes from the path the option names, whichever reader
  serves the flow; a batch that is read again misses no change;
- virtual tables: the metadata of every table asked for, once; a walk of the
  namespaces, a request at a time, finds what was there throughout;
- agent: an answer is whole, and an error reaches the caller in the form the kind
  of the operation promises; the health check tells the truth;
- registration: what can serve does, and a failed call disturbs nothing;
- simulated source: following `next_page` returns every record there was at the
  start, although records are added meanwhile; a deletion leaves a trace that a
  later reader finds.

## 2. Plan

Order of work, the behaviour that loses data first:

1. `TsugaOffsets`, `TsugaSync`: the connector under the streaming engine. Done.
2. `WindowScan`, `RangeFetch`: what fetching a window promises, and the
   bisection that implements it. Done.
3. `SearchClient`: threads, pacing and retries. Done.
4. Proofs about the three of them (section 6). Done, for the sync with a cap as
   well.
5. `IngestionPipeline`: the pipeline and the spec parser, `ingest` as a sequence
   of declarations, and the proof that they fulfil the specification. Done.
6. `SimulatedSource`: paging, upserts, deletions and tombstones. Done, for the
   tables a client can list.
7. `TableFlows`: the simple, the partitioned and the batch reader between that
   source and a destination. Done, with proofs.
8. `ValueParser`, `Connector`, `AgentOperations`: the agent's dispatcher, its
   operations, the catalogue, and the boundary between errors that become a row
   and errors that are raised. Done, with proofs.
9. `Discovery`, `Registration`, `SourceSession`: the virtual tables and the walk
   of the namespaces, the registration of a source, and the session that
   composes them with the agent. Done, with proofs.
10. `TsugaOptions`: the parsing of the connector's options, with the proof that
    what it accepts is what the other models assume. Done.
11. Further proofs: the invariants of `TableFlows`, of the capped sync, the causes
    for which the client and the pipeline give up. Done.
12. Left to prove, if anything: how far a capped sync recovers after a run that
    failed between two batches (the property as stated is finding
    `sync_failed_run`).

## 3. Modules

| Module | What it is |
|---|---|
| `TsugaOffsets` | the pure functions of the connector: start of a read, windows, filter, resume offset |
| `TsugaSync` | the connector, the stream reader and the engine around them; extends `TsugaOffsets` |
| `TsugaSyncInv` | the inductive invariants of the sync, without and with a cap |
| `WindowScan` | abstract specification of fetching one window |
| `RangeFetch` | the bisection, with a refinement mapping to `WindowScan` |
| `SearchClient` | the HTTP client and the threads of a round |
| `IngestionPipeline` | `ingest`, from the specification to the declared data sets |
| `SimulatedSource` | one table of the simulated source |
| `TableFlows` | the flows of that table: readers, engine, destination; extends `SimulatedSource` |
| `ValueParser` | `parse_value`: the outcome for each class of value and type |
| `Connector` | a source connector as the framework may rely on it, over a source that changes |
| `Discovery` | the virtual tables, and the client that walks the namespaces with them; extends `Connector` |
| `AgentOperations` | the agent's dispatcher, reader and operations; extends `Connector`, `ValueParser` |
| `Registration` | `register`, over what is deployed and what Python has imported |
| `SourceSession` | composes the three: a session registers a source and asks it |
| `TsugaOptions` | the parsing of the connector's options, with its theorem |
| `MC*` | instances for TLC: events, their seconds, threads, specifications, keys, requests |
| `*Proofs` | theorems and proofs |

### TsugaSync

An event is the canonical JSON of a log, which is the preimage of its
fingerprint and the key of the destination: equal logs are one event. Time is in
whole seconds. `Rank` is the order of the sort key (milliseconds, fingerprint).

| Variable | Code |
|---|---|
| `initEnd` | `_init_end_exclusive_seconds` |
| `committed`, `logged` | the engine's commit log and offset log |
| `startSeconds`, `nextStart`, `windows`, `collected` | the locals of `collect_windowed_records` |
| `reached`, `fetched` | how far each thread has come in its window, and with what |
| `result` | the offset `read_table` returned |
| `now`, `arrival` | the clock, and when each event became searchable |
| `since`, `planned`, `failures` | history, for the properties and the bounds |

`StartRun` builds a connector; `ReadNothing` is the early return of `read_table`;
`BeginRead`, `FetchSlice`, `NextRound`, `Truncate` and `FinishRead` are
`collect_windowed_records`, `read_table`'s translation of its result included;
`LogOffset`, `WriteRows`, `Commit`, `StopPaginating` and `ReplayBatch` are the
engine, as the interface documents it (`interface/lakeflow_connect.py:87-93`);
`RunFails` is the death of the update or a request that fails for good, in any
phase. Two steps of the code are one action where nothing can come between them.

`FetchSlice` fetches the next seconds of one window at one moment and other
windows at others, which is what `WindowScan` promises of `fetch_window`, without
saturated seconds: those make the batch fail (`RunFails`), or are lost by the
user's choice (`allow_truncated_seconds`), which `RangeFetch` is about.

### RangeFetch and WindowScan

`todo` is the call stack of the recursion from its top. The range on top is
searched; a short answer is taken (`Leaf`), a full one is split (`Split`), and a
full second is taken as it is (`TruncateSecond`) or fails (`SecondSaturated`).
Any request may raise for good, or its answer (`SearchRaises`); whatever raises
ends the whole fetch, which then returns nothing.
`Arrive` makes an event searchable between any two requests. The mapping to
`WindowScan` forgets the stack and keeps the second it has reached: a `Split` is
a stutter, a `Leaf` a slice.

### SearchClient

One action per step of a thread between two accesses to shared state. Time is
counted down so that the state space stays finite: `wait` is
`_next_request_monotonic` minus the clock, `sleep[w]` the rest of a `time.sleep`.
A sleeping thread may oversleep. A round ends when every thread is done, and
the next round has a new client.

### IngestionPipeline

`spec` is the list of objects the user gives, each with the source, the
destination and the configuration; an entry of the configuration is absent,
null, well formed or malformed, as far as a getter tells these apart. `answers`
is what the connector knows of each source. `views`, `targets` and `flows` are
what has been declared, `position` the object in hand. `ParseSpec`, `GetTableMetadata`
and `IngestTable` are the steps of `ingest`; `TableRaises` ends it half way, for
a malformed entry or because a name is taken (`Redefines`) or a flow has no key
or no sequence column (`Incomplete`), which the pipeline framework refuses.
Every getter of the parser finds the first object with the source name, as the
code does (`ObjectOf`). `SpecIsFulfilled` nevertheless holds of a run of
`ingest` that returns: two objects of one source would share a view.

### SimulatedSource and TableFlows

`records` gives the time at which each key was last written, `tombstones` the
deletions. `PostRecord` and `DeleteRecord` are the handlers of the API with the
store's methods; `PageRecords` and `NextPage` are its answers. The names of the
four tables stand for what differs between them: products has no cursor, only
orders takes deletions.

Each flow has a `phase`. `Latest` asks a reader for the end of the next batch
(the simple reader must read the rows to know it), `LogOffset` puts it into the
offset log, `PlanStream` and `ReadStream` read the partitions, `Write` and
`Commit` are the engine's. After `Fail` a logged batch is read again: by
`ReadBetweenOffsets`, which looks only at the start, or from the partitions.
`PlanBatch` and `ReadPage` are the batch reader, whose connector follows
`next_page`. `Change` writes to the source between any two of these steps.

The connector over this source is external to `src/` and modelled from its
interface: `read_table` answers with one page of rows after the offset, and the
time of the last of them is the next offset. `replica` is the destination of
`apply_changes` (the change with the latest sequence of each key, deletions
included) or of `apply_changes_from_snapshot`; `copies` is an append table.

### ValueParser

A value is known by what the parsers tell apart (a numeral, a date, a blank, an
infinity, a list, an object), a type by its parser. The result is the outcome:
`parsed`, a `ValueError`, or an error of another class, which `parse_value` does
not wrap: `Decimal` raises an `ArithmeticError`, `int` of an infinity an
`OverflowError`. An explicit null passes whatever the type, so a column that
takes no null is only guarded against an absent key (`libs/utils.py:41-46`).
`ParseLevel` takes the parser of the level below as its argument, because a
recursive operator would be out of the prover's reach.

### Connector, Discovery, AgentOperations, Registration, SourceSession

`Connector` is the environment: which mixins a connector implements
(`hierarchical`, `partitions`), the namespaces and tables of its source
(`spaces`, `held`), whether the source answers (`reachable`), whether
`list_tables` asks it at all (`asksSource`; Tsuga's does not), and what
`agent_operations` would return (`offered`). The source changes between any two
calls, up to `MaxChanges` times.

`Discovery` is a batch read: `Open` (`LakeflowSource.__init__`, or the wrapper of
`registry.py`, which lacks the check of reserved names), `ResolveSchema`, `Plan`
(`partitions`), one `Read*` action for each branch of `LakeflowBatchReader.read`,
`Collect`. The metadata of each table named is a call, and a step, of its own.
The client of `WalkAsks` and `WalkTakes` walks the tree as the interface
describes it (`interface/supports_namespaces.py:34-42`): it asks for the children
and the tables of every namespace it is told of, and repeats a request that
fails. `steady` and `seen` remember which tables were there throughout and which
at any time.

`AgentOperations` is one request of the agent: `Construct`
(`IngestionAgentDispatcher.__init__`, with the connector or the error of building
it), `Schema` or a schema the client brings (`BringSchema`), `StartRead` (what
`read` decides before `pull`), `PullAtOnce` for the built-in operations,
`PullRow`, `PullEnds` and `PullRaises` for the ones that stream, `Emit` for each
row through `parse_value`. A metadata operation's rows wait in `pulled` for the
last of them (`list(rows)`); a data operation's go straight out. A row on its way
in is its columns and the status and code of its `_meta`; a row that goes out
(`emitted`) is what `parse_value` leaves of it under the schema in hand
(`Parsed`): whether it has any data, and the status and code, if the schema keeps
them (`Keeps`). It loses them under a schema a client brings without a `_meta`.
An operation is a record of the key it is mapped under, its own name, kind,
columns and required parameters; the source's own ones come from `offered`, with
a key that need not be the name and a `_meta` column of their own if they like.
It is found by its key (`Under`), and the reader looks at its name
(`RequiresConnector`, `InitErrorRow`).

`Registration` is `register`: the generated module, the package it falls back
to, and what Python keeps of a module it has imported. `Deploy` changes what is
not imported yet.

`SourceSession` lets a session register its source and then read it, or an agent
run its operations, while the source changes. Its `Init` gives each client the
sources that make a difference to it: the walker any tree and a source that
registers; another reader any deployment and a catalogue of which every
namespace holds every table; the agent a flat catalogue, since the dispatcher is
handed a connector by its caller.

## 4. Runs

| Run | Shows | Instance |
|---|---|---|
| `sync_uncapped` | late arrivals, replays, open seconds and progress without a cap | 3 events, 2 of them in one second, clock to 3, one run may fail in any phase |
| `sync_capped` | the same with a cap of 2 events: truncation and resume | 4 events, clock to 3, no failure |
| `range` | the bisection over every window within 6 seconds, with requests that fail | 5 events, 3 in one second, 2 per request |
| `client_threads` | pacing, retries and the lock | 2 threads, 2 calls each, 2 rounds, 3 attempts |
| `pipeline` | every object gets its own flows, or `ingest` raises for a cause | every list of at most 2 objects over 2 sources, and every metadata answer |
| `flows` | all readers: nothing missed, nothing invented, convergence | 3 keys, 2 partitions, pages of 1 row, 2 changes after the seed, 1 failure |
| `session` | registration falls back; metadata once; the walk finds all; an agent's answer is whole, parses, and is true | 3 namespaces in a tree of depth 2, 1 table in each, 2 changes of the source (`MaxChanges`), 1 deployment (`MaxDeployments`), 2 rows (`MaxRows`), 15 reads, 22 agent requests, 4 offers, 4 schemas a client brings |
| `sync_full_second` | violation: a second larger than the cap is paged for ever | |
| `sync_exact_fit` | violation: an exactly used cap ends the run early | |
| `sync_failed_run` | violation: a run after a truncated checkpoint does not rewind | |
| `sync_replay` | violation: the replay of a first batch loses its oldest events | lookback of 2 seconds, overlap of 1 |
| `flows_deletes` | violation: a delete flow through the partitioned reader deletes live rows | orders with partitions |

Bounds and why they are enough. A late event needs one run that passes its
second and one that rewinds; a replay needs one failure between the offset log
and the commit; a truncated second needs two events of one second and a cap
that falls between them. The clock of 3 with windows of 1 second and rounds of
2 or 3 windows leaves room for a run with several rounds, a second run and a
third. `MaxFailures` bounds how many runs fail, `MaxNow` where the clock stops;
nothing is indexed in the last second, so that a run still follows every arrival
and liveness is not an artefact of the bound. The bisection needs a second that
saturates, one that does not, and a window wide enough for three levels. Two
threads suffice for the lock; three attempts give a first, a middle and a last.

`sync_capped` has a round of windows (3 seconds) longer than the overlap
(2 seconds), and at most two events in one second under a cap of 2. The
violation runs show why: outside of it the cap loses progress.

Two objects are enough for the pipeline: a look-up or a name concerns at most
two. In `flows`, `MaxTime` leaves two writes after the seed: one row that moves
during a read and one that takes its place, or a deletion and a new row of the
same key; three keys under pages of one make up to three pages, so that a
record is added between the requests for two of them and moves rows to other
pages; the two partitions differ in size. `flows` covers every table through
every reader but the deletes of a partitioned one, which is `flows_deletes`.

In `session` the tree has a namespace under a namespace, so that one can appear
behind the walk, or disappear with what is under it, between the request for its
parent and the one for itself; two changes let the source go silent and answer
again, or a namespace go and come back. Two rows are the least that can be half
yielded; the columns of `MCSourceSession` include one that takes no null, and the
rows one that misses it. Three of the source's operations are unlike what the
dispatcher expects: one has a `_meta` that keeps the status alone, one a `_meta`
that takes no error row, one a key that is not its name. The schemas a client
brings keep both parts of `_meta`, one, or none.

In `sync_replay` the lookback exceeds the overlap, as it does by default: with
equal ones the next batch of the run would rewind far enough to read what the
replay left out, and the property (`ReplayDeliversThePlan`) asks only for events
no later run reads again.

Deadlock is checked in every run but `session`, which stops when the walk is over
and the source has made its changes.

## 5. Fairness

- `TsugaSync`: weak fairness of the clock, of starting a run, of the connector
  and of the engine: pipelines are scheduled again and again, and a run that
  does not fail goes on (each request is answered or fails for good, see
  `SearchClient`). Nothing is assumed of arrivals or failures.
- `RangeFetch`: weak fairness of the fetch; arrivals may stop or go on.
- `SearchClient`: weak fairness of each thread and of time. The lock is only
  weakly fair: the number of calls is finite, so no thread can take it for ever.
- `TableFlows`: weak fairness of each flow, which the pipeline runs again and
  again and independently of the others; nothing is assumed of the source or of
  failures. The source comes to rest at `MaxTime`, and `Converges` is about what
  follows.
- `SourceSession`: none. Its properties are safety properties; a walk ends only
  if the source stops changing and failing, which nothing guarantees.

## 6. Proofs

The proofs hold for all constants that satisfy the assumptions of the modules
(`OptionsAssumption`, `EventAssumption`, `BoundsAssumption`, `RangeAssumption`,
`ClientAssumption`, `PipelineAssumption`, `SourceAssumption`, `FlowsAssumption`, `ConnectorAssumption`,
`DiscoveryAssumption`, `AgentAssumption`, `RegistrationAssumption`): these are the
ranges the parsers of the options enforce (`AcceptedOptionsAreInRange` of
`TsugaOptions` proves that), finiteness of the sets of events, keys, tables and
namespaces, the order of the sort key, partitions that cover the keys and share
none, room for the seed of the source under the bound of its clock, and of a
source's own operations that there are finitely many, each with a key of its own
and a kind that `AgentOperation` admits.

- `TsugaSyncProofs`, without a cap (`MaxRecords = 0`), whatever run fails where:
  `LateArrivalsSurvive`, `ReplayIsComplete`, `CursorMovesForward`,
  `StopsCaughtUp`. None of the invariants is inductive. The strengthening is
  `IInv` (`TsugaSyncInv`): it says which events a batch cannot miss (`Known`:
  searchable before the second the connector was built in, or planned by the run
  that is replayed) and that every stage of a batch covers them, from the
  windows to the rows, the result and the table; the rest ties the offsets to
  the clock and the pending batch.
- `TsugaSyncProofs`, with any cap or none: `TypeCorrect`, `NoRowFromTheFuture`,
  `StopsAtTheEndOrTheCap`, whatever fails; `LateArrivalsSurviveTheCap` as long as
  no run has failed; `SkipsOnlyWritten` as long as none failed, or where none may
  fail with a batch that is logged and not committed (`NoReplays`). The
  invariant is `CleanInv`. `BatchInv` is its core: the windows of a round and
  the rounds before it have read all that was known, except what the
  fingerprints of the start offset skip; a batch that is cut keeps the first
  records of the sort order, so all that was known before the second of its last
  record (`FirstRecordsAreFirst`, `ResumeOffsetFacts`), and names another offset
  than it was given, since its last record is no fingerprint of that one.
  `SeenInv` follows the fingerprints from the kept records to the table.
  `LateInv` says up to where the table is swept: up to the committed cursor
  within a run, which resumes there, and up to the overlap before it at the start
  of a run, which rewinds. Between runs the committed offset has no fingerprint,
  because a truncated batch never ends a run; that is why the two meet.
  The two hypotheses are needed: finding `sync_failed_run` loses a late arrival
  after a failure, and a replay with a cap can commit the
  fingerprints of rows it did not write (section 7).
- `RangeFetchProofs`: `FetchTypes`, `BisectionTiles`, `FetchIsComplete` and
  `BisectionIsAScan`, the step simulation of `WindowScan`. The strengthening adds to the tiling that everything known left
  of the reached second has been got, up to saturated seconds.
- `SearchClientProofs`: `ClientIsPaced`, `ClientTypes`, `FailsExhausted`. The
  invariant of the first is mutual exclusion of the pacing section together with
  "the time to wait and the time since the last permit add up to the interval";
  that of the others (`ClientInv`) adds to the types that a thread in backoff has
  an attempt left and one that failed has none or met a final error. The retry
  delays are powers of two, of which the provers know nothing: `PowersOfTwo`
  shows that they are naturals by counting the subsets of an interval.
- `IngestionPipelineProofs`: `PipelineFulfilsSpec`, `PipelineTypeCorrect` and
  `RaisesOnlyOverItsObjects`, for every specification and every metadata answer. `SpecIsFulfilled` speaks of the end of `ingest` only;
  the invariant says what holds on the way: what has been declared is what the
  objects before `position` declare, their data sets are pairwise disjoint, and so each
  of them is the first object of its source, which is the one the getters find.
  For the causes of an error the same invariant shows that a name that is taken
  belongs to an earlier object which wants it too (`SharedCollides`,
  `RedefinedCollides`), and that a flow without a key or a sequence column comes
  from an object flawed by itself (`IncompleteIsFlawed`).
- `TableFlowsProofs`: `FlowsTypeCorrect`, `AppendsOnce`, `SnapshotsAreComplete`
  without a hypothesis; `PassedIsDelivered` and `ShowsOnlyRealChanges` for every
  table and reader but the deletes of a partitioned one (`NoPartitionedDeletes`),
  where finding `flows_deletes` refutes the second. The inductive invariant is
  `FlowsInv`. For each flow it follows the rows between the committed offset and
  the planned end (`AheadInv`: in a partition still to read, in hand, or in the
  destination), which later changes may only move beyond that end; and it says
  why a batch of one page can be read again from its start alone (`PageInv`: no
  more rows than that page lie before its end, since a write only takes rows
  out of it). `AppendInv` says that an append flow's rows are those it has
  committed or is about to. `SnapshotInv` says of each record the snapshot has to
  have that it is in it or on a page still to come: sorted by key and with
  nothing deleted, a record only moves to later pages.
- `AgentProofs`: `AnswersWhole`, `RaisesOnlyForACause` and `HealthTrue`, for any
  operations of a source, any columns they declare, any rows they yield and any
  schema a client brings. The invariant `AgentInv` follows a request through its
  stages: how the rows pulled, emitted and yielded add up, and that a failed
  answer is one error row, still pulled or already parsed (`WholeInv`), which
  schema the dispatcher made and which rows it is sure to take (`SchemaInv`), what
  the health check reports (`HealthInv`), and that the history `contact` holds
  what the source is now (`Listens`). It rests on lemmas about `parse_value`:
  under the relaxed schema an error row parses, unless the operation declares a
  `_meta` whose type does not take it (`ErrorRowFits`), and so does every row of a
  built-in operation (`MetaRowFits`, `TextRowFits`); and the schema made for
  columns without a `_meta` keeps the status and the code (`DispatcherKeeps`).
- `SourceSessionProofs`: `MetadataOnce`, `WalkFinds`, `RegistersOrKeeps` and
  `SessionTypes`, for any tree of any depth. `WalkFindsAll` speaks of the end of
  the walk; the invariant `WalkInv` says where a table not found yet still is
  (`Covered`): a request for its namespace, or for the children of a namespace
  above it, is still to come. An answer that removes such a request names the next
  namespace on the way (`NamespacesAnswered`), because a table that is there
  throughout keeps every namespace above it alive (`TreeInv`).
- `TsugaOptions`: `AcceptedOptionsAreInRange`.

Every invariant a passing run checks is stated by a theorem. Only model-checked:
liveness (`EventuallyDelivered`, `RunEnds`, `FetchEnds`, `RoundsEnd`, `Converges`,
the fairness of `WindowScan`), which is beyond the prover; `StopMeansCaughtUp` with
a cap, which holds of the instance of `sync_capped` and not in general (finding
`sync_exact_fit`; `StopsAtTheEndOrTheCap` is what holds in general).

## 7. Findings

`PROJECT.json` lists them with the lines they contradict. In short: a second
with more events than `max_records_per_batch` is paged for ever; an exactly used
cap can end a run early; a run after a truncated checkpoint does not rewind; the
replay of a first batch can lose its oldest events; the delete flow of a table
with a partitioned reader reads the table's records, and so deletes live rows.

Further places where the code and its documents disagree, met while modelling.
The models follow the code in each of them, and no run is about them:

- The pacing lives in the client, and each round of windows builds a client
  (`sources/tsuga_logs/tsuga_logs.py:127`): the first request of a round may follow
  the last one of the round before at once. The connector's `README.md:122`
  promises one request per second per pipeline.
- `interface/README.md` says that flat connectors ignore the `namespace` option;
  `sparkpds/lakeflow_datasource.py:300-308` raises a `ValueError`.
- The early check of reserved table names (`lakeflow_datasource.py:323-332`) is
  missing from the wrapper that `register` uses for a class
  (`sparkpds/registry.py:103-106`): there a misspelt virtual table reaches the
  connector (`Open` in `Discovery`).
- `interface/supports_namespaces.py:59-60` speaks of one call "per leaf", `:36-40`
  of every namespace. The walk asks for every one, as it must.
- `sparkpds/ingestion_agent_datasource.py:454-456` says that errors of a metadata
  operation become one error row; a row that does not parse raises instead, since
  `parse_value` runs outside of the `try` (`:592-593`, `RaisesForACause`). A
  source's operation that declares a `_meta` of another type makes even the error
  rows unparsable (`TakesErrors`). And under a schema a client brings without a
  `_meta`, an error row comes out as a row of nulls without status or code, since
  parsing drops what the schema lacks (`:577-579`, `:592-593`,
  `libs/utils.py:40-47`; `Keeps` in `AnswersAreWhole` and `HealthIsTrue`).
- `list_operations` lists an operation by its own name (`:417`) while the
  dispatcher finds it by the key of the source's mapping (`:637-643`, `:669`), and
  nothing checks that they agree; each dispatcher asks the source again, too
  (`:632`). So an operation listed need not be the one dispatched under that name,
  and no property says so. An operation under the key of a built-in that has
  another name is also treated by its name (`_requires_connector`, `:80-87`).
- `_build_view_name` promises "a unique view name"
  (`pipeline/ingestion_pipeline.py:28`); the names it joins may contain the
  separator, so two objects may ask for one view. The pipeline framework refuses
  the second (`FailsForACause` counts it as a cause).
- A null entry of a table configuration becomes the text `None`
  (`libs/spec_parser.py:78`), which the getters take for a value: a key column, a
  sequence column, an invalid SCD type. `IngestionPipeline` follows the code, and
  `SpecIsFulfilled` exempts null keys.
- The package `sparkpds` documents that the `operation` option dispatches to the
  agent; `LakeflowSource` does not look at it, so the caller builds the dispatcher.
- The built-in `validate_connection` only calls `list_tables`, which for Tsuga is a
  static list (`tsuga_logs.py:59-60`): "ok" then says nothing about the connection
  (hence `asksSource` in `HealthIsTrue`).
- A replay with a cap may cut its batch elsewhere than the batch that was logged,
  when an event arrived late in between. The logged offset is committed all the
  same, and its fingerprints then skip events that were never written:
  `SeenIsWritten` fails after one failure in the phase `write`, and the event is
  lost for good. This is where `lakeflow_datasource.py:144-147` relies on a read
  from the start offset alone (hypothesis `NoReplays` of `SkipsOnlyWritten`).
- An invalid regular expression in `search` is reported as `internal_error`, not
  `bad_request`; an `agent_operations` that raises is silently no operations, while
  one that returns something else than operations makes every request raise.

## 8. Not modelled

Texts, schemas and field extraction of a log (no property depends on them), the
parsing of headers and answers (abstracted to its outcome), the converted values
of `parse_value` (only whether it converts), the stripping of reserved option
names for the agent's connector, and the options a connector is built with.

- The search simulator (`source_simulator/`) answers tests from a recorded
  corpus: it keeps no state that a behaviour of the connector depends on.
- The merged source is generated from the connector, the readers and the value
  parser; what it is merged from is modelled.
- The interfaces are abstract: `Connector` models how the framework uses them.

Abstractions a reader should know of. No two writes of the simulated source
share a time (its clock counts microseconds); with equal times an exclusive
`since` could miss a row. A batch that was written is not written a second time,
as a Delta sink guarantees by its batch number. The pipeline's replacement of
non-word characters in names is reduced to the joining of the names, and a
configuration holds no key of the framework's own options. Filters, query
parameters, injected errors and the hidden table of the simulated source are
left out. The rows of a real table in `Discovery` are empty: `TableFlows` is about
them. A type nests at most two levels under a row in `ValueParser`. Of the codes
of `ErrorCode`, `auth_failed` stands for those only a source raises.
