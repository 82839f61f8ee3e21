# LocalHold: a TLA+ verification project

LocalHold is a memory server for agents. A process accepts MCP calls over stdio
or HTTP, writes memories to SQLite or PostgreSQL, and computes embeddings for
them in the background through an OpenAI-compatible provider. Several processes
may share one database. This directory models the concurrent parts of that
program in TLA+, model-checks them with TLC on small instances and proves their
central properties with TLAPS for every instance.

Paths below are relative to the repository's code directory unless they start
with `docs/`.

## 1. The system and its parts

| Part | Code | Modules |
| --- | --- | --- |
| Background tasks: admission of embed work, join set, shutdown with deadlines | `background_tasks.rs` | `BackgroundTasks` |
| Embedding orchestrator: store-then-embed, chunks, coalescing, durable claims | `embedding/orchestrator/`, `embedding/batch.rs` | `EmbedPipeline`, `EmbeddingIndex` |
| Provider stack and recovery worker: limit, circuit breaker, retries, health probe, drain | `embedding/resilient.rs`, `limited.rs`, `main.rs` | `ProviderRecovery` |
| HTTP sessions with a cap and a reaper | `http_transport.rs` | `HttpSessions` |
| Memories on SQLite, the editor, consolidation | `store/crud.rs`, `store/admin.rs`, `engine.rs` | `MemoryRecords` |
| Governed contexts on SQLite, and the requests of the MCP server that use them | `store/context_store.rs`, `store/admin.rs`, `server/mod.rs` | `Contexts`, `GovernedWrites` |
| PostgreSQL at READ COMMITTED | `store/postgres.rs`, `store/context_store.rs` | `PgLocks`, `PgMemories`, `PgContexts` |
| The terminal browser | `ui/app.rs`, `ui/mod.rs` | `OperatorUi` |
| The database as a file: lease, upgrade, backup, restore | `store/backup.rs`, `store/sqlite_lease.rs`, `store/sqlite.rs` | `SqliteFiles` |
| Migration from SQLite to PostgreSQL | `store/migration.rs` | `Migration` |

A write passes through the server and the engine, is *admitted* by the
background tasks, is committed by the store without a vector, and leaves an
embed task behind. The task calls the provider and hands the vector to the
store, which accepts it only if the content revision and the vector space are
still the ones the vector was made for. A bulk re-embed (an administrator, or
the recovery worker) leases unembedded rows under a claim token and feeds them to
the same tasks. Shutdown closes the gate, waits for admissions, joins the tasks
until a deadline, releases the claims of those that are left and aborts them.

What the modules leave to each other: `BackgroundTasks` knows nothing of what a
task does; `EmbedPipeline` takes its gate as one step and the provider as a call
that may succeed or fail; `ProviderRecovery` opens up that call and the worker
that reacts to it, and leaves out revisions and shutdown. `MemoryRecords`,
`Contexts` and `EmbedPipeline` are three projections of the same SQLite tables:
the record, its memberships, its embedding columns. `PgMemories` and `PgContexts`
open up, statement by statement, the transactions those take as one step.

`MC...` modules hold symmetry sets and constants for TLC, `...Proofs` modules the
theorems. In every module, an operator whose comment begins "A fault" is a wrong
variant of the definition that follows it. It is there to show that a property
can fail; `Next` does not use it.

## 2. Modules

### BackgroundTasks

Variables carry the names of the fields of `BackgroundTasks`. `op[o]` is the
position of operation `o` inside `begin_embed_admission`, its own body, and the
drop of its `EmbedAdmission`; `stop` is the position of `shutdown_with_cleanup`.
Each load, store, `fetch_add`, `swap` and `notify_waiters` is one action, so every
interleaving of the atomics is explored, sequentially consistently. Spawning
checks its gate and inserts under the join set's lock, hence in one action that
also reaps.

### EmbedPipeline and EmbeddingIndex

`row`, `vec` and `profile` are the database: the embedding columns of a memory,
its vector, the `embedding_profile` singleton. A `batch[<<p, s>>]` is an operation
or a task of process `p`: an operation is admitted, commits its write or its
claim, takes chunks, prepares each item (in-flight key, active claim), spawns the
chunk as a task, or, refused by a timed-out shutdown, runs it inline or releases
its claims. A task calls the provider (`ExecuteChunk`: any subset of the chunk may
succeed) and applies the results item by item. Every store call is one
`BEGIN IMMEDIATE` transaction on SQLite and is one action. A call issued by a task
that is aborted still runs (`with_conn` uses `spawn_blocking`): it moves to
`detached`.

`proc[p].stage` is where `shutdown_with_cleanup` is. The counter of admissions, the
gate for spawns, the request to reopen, the join set and the snapshot of active
claims are each read or written in a step of its own, in the code's order:
`AdmissionsDrain` or `AdmissionsTimeOut` (which shuts the gate for spawns) and
`RequestReset`; `TakeTasks`; `CleanupBegins` with one `CleanupCall` per claim;
`ShutdownReopens`; `ShutdownReturns`. An operation may end, spawn or be admitted
between any two of them, so a task may start after the join set was taken.
`released` records the claims a cleanup has handed back.

Text, principals, audits and the time of a claim are abstracted: contents are
model values, any claimable subset may be claimed (scope and age decide in the
code), a lease may lapse and a deadline may pass at any moment.

`EmbeddingIndex` has three variables and no machinery: texts, vectors and the
vector space, where a memory is only ever indexed by its present text in the
present space. `ImplementsIndex` states that `EmbedPipeline` refines it under the
mapping "a live row's content, the vector table, the profile row".

`BulkSpec` leaves out re-embedding one memory by id; `Spec` includes it. The
properties about vectors hold of `BulkSpec` and fail of `Spec` (section 5).

### ProviderRecovery

A task of a memory goes through the stack as a write or a drain does: a permit of
the limit, the circuit, the attempts, the store. `available`, `probe` and `permit`
are the breaker's flag, its probe task and the permit stored in
`recovery_notify`; `worker` is `spawn_recovery_reembed` and the loop of
`drain_unembedded`. The provider goes down at most `MaxOutages` times. A call is
`tainted` if the provider was down at any moment since it was issued: it may then
fail after the recovery. `Rejectable` are the memories whose contents the provider
may refuse for good.

### HttpSessions

`sessions` is the map inside the MCP library (external, used through
`create_session`, `close_session` and its stream calls); `activity` and
`createLock` are the fields of `CappedSessionManager`. A handler is a position
and a session: each await on the library and each critical section of the
activity lock is a step, so a reaper or a second handler may come in between.
`reaper` walks through `reap_stale`: collect, re-check, close, remove. A record
is stale once the idle timeout has passed since it was last touched; time may
pass at any moment. A client may disappear (`Abandon`) at any moment. Creation may
be cancelled at its awaits; identifiers are random and not reused, and a client
learns one only from the answer.

### MemoryRecords

`row[i]` is a row of `memories`: owner, policy, text, the other columns as one
value, memberships, expiry, `updated_at`, `record_revision`, supersession, vector.
`tombs` are the authorization tombstones of deleted memories. A store call is one
`BEGIN IMMEDIATE` transaction and one action. What a caller keeps between two calls
is a variable: `editor` (the record an optimistic editor opened), `bulk` (the list a
bulk request will write), `plan` (the snapshots of a consolidation and the merges it
has still to make). The wall clock is an input of each update and may stand still
or go backwards, which is why `NextUpdated` exists in the code and in the model.

### Contexts and GovernedWrites

`Contexts` is the catalogue (`ctx`, `enabled`, `required`, `default`) and the
memberships of memories (`mem`), one action per SQLite transaction: registration,
reparenting, lifecycle, grants, aliases, kinds, policy defaults, membership
writes, legacy scope administration, and the removal of an unused private
context. A memory's `scope` is the legacy scope cache the code keeps beside the
ordered memberships `ctxs`. Keys are model values; `Similar` stands for the fuzzy
matcher.

`GovernedWrites` adds requests of the MCP server made of several store calls:
`remember`, `remember_many` and `handoff` (one action set, a batch of one to
`MaxItems` items), `revise` with a legacy scope or with contexts, and
`context_create`. `req[r]` is where a request is, the memberships it picked and the
private contexts it made. Between any two calls another request, an administrator
or the operator may change the catalogue. A request that fails goes through
`rollback`, which takes back the contexts it made unless somebody uses them.

### PgLocks, PgMemories, PgContexts

`PgLocks` (external: PostgreSQL) has the lock modes, their conflicts and deadlocks
as minimal knots of the waits-for relation. A transaction of `PgMemories` or
`PgContexts` is a sequence of statements; each takes its locks one after the
other, then reads what is committed and writes into `tx[t]`, and the last one
commits. A transaction may abort at any statement, as the deadlock detector or a
lost connection would have it. A predicate of an `UPDATE` is evaluated after its
row lock is granted.

`PgMemories` has embedding, update, optimistic save, deletion, merge, bulk update,
reindex and verification. A bulk update (`bulk_update_ids_audited_impl`) locks and
writes the memories of its listing one after the other, newest first, and leaves
out those that are gone; `born` is the order of creation. In `PgContexts` the
change of a kind is one statement that waits for nobody (`SetKind`).

### OperatorUi

The event loop of `hold ui` takes a key or a task's result at a time. `list`,
`side`, `detail`, `edit` and `manager` are the panes, with their generation numbers;
`reads`, `catalogs` and `writes` are tasks in flight, which finish in any order and
meanwhile see the store that other clients change. Where the loop itself awaits
the store (`busy`), no key is taken.

### SqliteFiles and Migration

A file is what SQLite can make of it, its schema version and the number of its
contents. A command is a process that walks through the steps of `hold serve`
(open, upgrade with its pre-upgrade copy), `backup`, `restore` (recovery copy,
replacement, validation, both rollbacks), `embeddings reindex` or a reader, under
the shared or the exclusive lease. A process may die, and a step may fail, between
any two steps. `promised` is a history variable: files whose contents a command
replaced or reported as backed up. `Migration` adds the export in one read
transaction and the import into a PostgreSQL target that a server may already be
using. The eighteen tables are three groups, copied in the code's order.

## 3. Runs

| Run | Question | Instance |
| --- | --- | --- |
| `background_gate` | are counter, wake-up, gate and join set right against any number of shutdowns; does shutdown get past waiting without its deadline | 3 operations, 1 task |
| `pipeline_vectors` | can a stale or foreign vector be stored; is the abstract index implemented | 2 processes of 2 slots, 1 memory, 2 texts, 2 spaces, 1 claim, 1 fault |
| `pipeline_work` | are guards leaked or claims orphaned; can two bulk re-embeds embed one revision | 2 processes of 2 slots, 1 memory, 2 claims, 1 shutdown |
| `pipeline_single` | is re-embedding by id safe: **refuted** | 2 processes, 1 update |
| `recovery` | are calls bounded and leases given back; do drains end; is the backlog of an outage embedded | 2 memories, 1 permit, 1 retry, 1 outage |
| `http_sessions` | cap, tracking and stream counts under racing handlers and reaper; is every abandoned session reaped | 2 sessions, 2 handlers, cap 1 |
| `memory_records` | no lost edit, no supersession cycle, no deletion without its tombstone | 2 memories, 2 principals, 1 editor, 2 consolidations |
| `governed_writes` | exact scope caches, no dangling reference, roll-back, preserved memberships | 3 contexts, 2 memories, 2 requests, 2 issued in all |
| `pg_memories` | do interleaved statements keep flags, revisions and supersession right, and implement the abstract index | 2 transactions at a time, 3 in all, 2 memories |
| `pg_contexts` | does what a transaction checked still hold at its commit | 2 transactions, 3 contexts, 1 memory, any changes of the kind |
| `operator_ui` | are the marks of waiting exact; does a save replace what was shown; is a draft ever lost | 1 memory, 1 context, 3 refreshes, saves or foreign changes |
| `sqlite_files` | is a promised copy ever lost; is a migration whole | 3 commands of 2 processes, 3 contents, 1 crash or failure |

Bounds. Three operations are the fewest in which one backs out, one drops and
one is being admitted at once; tasks do not interact, so one is enough. In the
pipeline two processes and two slots each let an operation, its task and a
competing process interleave; one content update gives a stale and a current
revision, two vector spaces an old and a new one, and `MaxFaults` bounds
crashes, failed store calls (with or without a hidden commit), lapsed leases and
reindexes together. `MaxRevision`, `MaxTokens`, `MaxStops` bound updates, claims
and shutdowns. A cap of one session with two handlers is enough for one to
create, call, stream or close against the other and the reaper, and for a
session to follow one that was closed; identifiers run out after two sessions,
which ends creation, not the rest. In `ProviderRecovery` one outage lets calls
straddle its beginning and its end. Two memories are enough for consolidations
that supersede in opposite directions, three contexts for a reparenting that
closes a cycle through a third. `MaxIssued`, `MaxOps`, `MaxStarts`, `MaxWrites`,
`MaxOwn` and `MaxEffort` bound how many requests, transactions, commands, writes and
keys there are in all; each is at least two, the fewest that can race.
`MaxInFlight` bounds the reads in flight when the operator asks for a refresh;
reads still overlap, because saves and arriving catalogues start listings. With
`MaxInFlight = 1`, where refreshes overlap too, the properties also hold (4.2 million
states); so they do for four transactions of `PgMemories` instead of three (5.4
million).
The proofs of section 4 drop every one of these bounds for the properties they
cover. Deadlock is not checked where the bounded system may come to rest.

Fairness. `background_gate` assumes that handlers run to completion (tokio
polls every ready task and no handler waits for shutdown) and that shutdown takes
its own steps. It assumes nothing of the deadline and nothing of task
completion: a provider may hang. `http_sessions` assumes that handlers finish the
critical section they are about to enter, that the stream of a client that has
gone is dropped (the connection is torn down), that the reaper, a loop over a
timer, keeps running and that time passes. It assumes nothing of clients.
`recovery` assumes that timers fire and calls return, for every call carries a
timeout, and that tokio's semaphore serves its waiters in turn (strong fairness of
taking a permit). It assumes nothing of writers, and a recovery of the provider
only as a premise of the properties. The other runs check safety and assume none.

## 4. Proofs

Eight modules hold theorems; all are proved by TLAPS for every value of the
constants that satisfies the named assumptions. Of the 40 properties that the
passing runs check, 25 are theorems.

| Module | Theorems |
| --- | --- |
| `BackgroundTasksProofs` | `CounterIsExact`, `WakeUpIsNeverLost`, `GateIsSound`, `TakenSetIsComplete` |
| `EmbedPipelineProofs` | `VectorsAreCurrent`, `CapturedWorkIsFaithful`, `PipelineTypes`, `PipelineImplementsIndex`, `GuardsAreExact`, `EveryClaimIsCarried` |
| `EmbedExclusionProofs` | `RevisionsEmbedOnce` |
| `ProviderRecoveryProofs` | `RecoveryTypes`, `CallsAreBounded`, `EveryLeaseIsCarried` |
| `HttpSessionsProofs` | `CapacityIsHeld`, `SessionsAreTracked`, `StreamsAreCounted`, `SessionTypes` |
| `MemoryRecordsProofs` | `RecordTypes`, `UpdatedIsAVersion`, `SupersessionEnds`, `EditsLoseNothing`, `MergesKeepFacts`, `TombstonesStay` |
| `GovernedWritesProofs` | `TypeCorrect`, `ScopesAreExact`, `NothingDangles`, `HierarchyStaysAcyclic`, `RequestsCleanUp`, `RevisionsPreserve` |
| `SqliteFilesProofs` | `NothingIsLost`, `MigrationIsWhole`, `NothingIsLostMigrating` |

**Background tasks.** `IInv` is the four safety properties with `TimedOutNotDrained`
(past its deadline a shutdown has not seen the counter at zero). The gate property
is not inductive alone: the step that reads the counter needs the counter to be
exact, which rests on lemmas about the cardinality of the set of counted
operations. Assumption: `OpsFinite`.

**Pipeline: vectors.** Of `BulkSpec`, for any sets of memories, texts, spaces,
processes and slots: every stored vector was made from the present text in the
present space, and the pipeline implements `EmbeddingIndex`. `VectorsCurrent` alone
is not inductive: a result on its way must be known to be right if its revision is
still current. `WorkFaithful` says so of every item in a batch or in a detached
call; `IInv` is the two with the types of every batch, call and process. The proof
first shows of each store transaction that it keeps vectors current and captured
work faithful (`DbInv`, `Keeps`), then of each action that it is such a transaction
and captures only faithful work. Assumptions: positive chunk sizes, natural bounds,
and `AbsencesAreDistinct`.

**Pipeline: guards and claims.** `Shapes` says what a batch at a given place carries
(a task only embeds and applies, an operation that embeds inline has no claim, only
claimed work is given back). With it `GuardSets`, the guard sets split into one fact per
direction, is inductive and gives `GuardsExact`. `CInv` adds that rows and batches
only know tokens that were issued (`TokensKnown`), that a claimed row is unembedded
(`RowClaims`), and, while there was no fault, that every claim is held by a batch
(`ClaimsHeld`) and that the snapshot of a shutdown's cleanup covers
what its tasks hold (`SnapshotCovers`). That last conjunct is what the abort of a
timed-out shutdown needs: a task that dies after the snapshot was taken must have
its claim in it.

**Pipeline: exclusion.** `NoDoubleInference` spans two processes and needs most: the
work of a claim is in one place only (`Tidy`), and `EInv`: no lease has lapsed, the
row of unfinished claimed work still carries its token (`Exclusive`), two batches
with tokens carry different revisions (`Apart`), the snapshot of a cleanup holds only
claims of its own process (`SnapshotOwn`), and a detached call only a claim that no
batch has (`DetachedApart`). `Exclusive` and `Apart` except the work whose claim a
cleanup has handed back. The theorem holds for any number of shutdowns. The exception
is real: see section 5.

**Provider recovery.** `CircuitOpen`: the probe calls only while the circuit is open,
and then at least one permit is free, because the circuit opens only as a call ends
and no call starts while it is open. This is why the probe may call past the limit.

**HTTP sessions.** The cap needs that the lock is held from the check to the
insertion (`LockHeld`) and that whoever passed the check still has room
(`RoomLeft`); the counts need that an identifier belongs to its creator alone until
it is handed out (`NewIdsPrivate`, `IdsIssued`) and that a record is removed only
after its session has been closed (`ClosedFirst`). Identifiers and handlers are
finite sets.

**Memory records.** The frame of every action is `Evolves`: a row is inserted once,
moves to a later version while it lives (`Later`: revision and `updated_at` grow, and
an equal revision means equal contents) and is deleted once. `EditorsSee` and
`PlansSee` say of every snapshot an editor or a consolidation keeps that the row is
that version or a later one; `TombsOfGone` says that a tombstone belongs to a deleted
memory. From these the comparison of revisions in an optimistic save, and of both
revisions in a merge, gives `NoLostUpdate`, `MergeKeepsTheFact` and
`SupersessionWellFounded`.

**Governed writes.** `Good` joins the scope cache, the references and the hierarchy:
none is inductive alone, since a scope cache is only right while its first
membership exists, and a new parent must exist for the hierarchy to stay
well-founded. Acyclicity is stated without paths (every nonempty set of contexts has
a member whose parent is outside of it), and `Ancestors` as the least upward closed
set, so that `set_context_parent` is proved by applying the old hierarchy to the part
of a set that lies above the new parent. What a sequence of memberships keeps when
one of them is replaced (`Picked`, `Repointed`) rests on lemmas about the ranks of
positions, proved by taking a least counterexample (`LeastNatural`).
`RequestShape` says of each request that what it made is
among what it chose, or is its candidate, and that failing leads through the
roll-back; from it follows `RequestsCleanUp`. `ReadsCurrent` says of a legacy revise
that what it read is the memory as it is, as long as the memory still has the
revision it read; the optimistic update then gives `RevisionsPreserve`.

**Files and migration.** `NothingIsLost` needs the leases (`Leases`: an exclusive one
excludes all others, and every step runs under the lease its place requires), that
the names of the copies a command makes are its own and unused (`Names`), and that
what a step is about to replace has been copied and has not changed since (`Saved`).
The migration adds `Numbered` (every file holds contents already written),
`Exported` (the export is a prefix of the groups of one state) and `Received` (from
the recount to the commit the target is locked and empty, and its sequence ends
where the imported audit ids do).

Only model-checked:

* all liveness properties (`NotifiedBehindClosedGate`, `DrainReturns`,
  `OutageBacklogIsEmbedded`, `AbandonedAreReaped`): they need fairness and `ENABLED`,
  which the prover does not reason about;
* `PgMemories`, `PgContexts` and `OperatorUi`: their properties span transactions of
  several statements, so an inductive invariant has to describe every transaction at
  every statement, with the locks it holds. This has not been attempted. The SQLite
  counterparts of most of them are theorems (`SupersessionEnds`, `EditsLoseNothing`,
  `PipelineImplementsIndex`, `NothingDangles`, `HierarchyStaysAcyclic`).

## 5. What the checks found

`pipeline_single` is a run that ends in a violation. The other disagreements can be
reproduced with `tlc -config <file> <module>` and the configurations named below,
which are not among the runs.

* **Re-embedding one memory by id** reads content and revision in two statements
  (`store/crud.rs:2478` and `2484`); an update in between stores the vector of the old
  text under the new revision, although `docs/embedding-providers.md:126-128` says that
  "a stale vector cannot replace a current one" (`pipeline_single`).
* **A timed-out shutdown may leave the gate closed for good**
  (`BackgroundTasks_recovery.cfg`, `RecoversOnceDrained`). The request to reopen it is
  stored (`background_tasks.rs:146`) after the deadline was seen; only a drop that
  takes the counter from one to zero consumes it (258-262). If the last drop comes in
  between, or the last decrement is that of an admission backing out (94-99), nobody
  does. The test at 349-352 expects that "background tasks should recover once
  timed-out admissions drain".
* **A timed-out shutdown hands back claims whose tasks are still running.** The
  admissions have drained, the join set is taken, and the deadline passes while a
  task embeds. The cleanup releases the task's claim (`embedding/orchestrator/mod.rs:459`)
  before the join set is dropped and the task aborted, so another process can claim
  and embed the same revision. TLC finds it with one shutdown, in a trace of 25 states
  that violates `NoDoubleInference` without its exception. If the last
  admission reopens the process after the join set was taken, a task spawned before the
  snapshot loses its claim too and is not even aborted. A second shutdown can do the
  same to operations that the reopening of the first let in. The exception is stated per claim: `HandedBack`. Nothing is stored
  twice, the revision check still holds, and `docs/embedding-providers.md:125-128` grants
  that "duplicate inference is possible", though it names other causes.
* **The reaper's last check and the closing of the session are two steps**
  (`http_transport.rs:175`); a stream that opens in between is cut off, although the
  documentation says that "active SSE streams remain protected"
  (`HttpSessions_streams.cfg`, `ActiveStreamsProtected`).
* **A drain whose health check fails does not open the circuit** (`main.rs:759`).
  Nobody probes a closed circuit, so the end of that outage is never announced and
  the backlog waits for a restart or the next outage (`ProviderRecovery_backlog.cfg`,
  `EverythingEmbedded`). The same happens to a memory that the drain skips because a
  task that has already failed on the open circuit is still in flight, and to the
  rest of the backlog when all rows of a claim are in flight.
* **A memory that the provider rejects for good** is released without a mark,
  claimed and queued again: the drain loop does not end
  (`ProviderRecovery_rejected.cfg`, `EveryDrainReturns`).

Read while modelling, and not stated as a property:

* `docs/operations.md` says that a pre-upgrade copy is reused "only while neither the
  database nor its WAL is newer than that copy"; the code compares logical
  fingerprints.
* The same document says of a restore that "interruption, lock failure, or
  insufficient disk rolls the destination back instead of leaving a partial
  database". A destination SQLite cannot read is removed before it is replaced. A
  crash there leaves no database (its copy is kept: `NothingLost`), and the next start
  creates an empty one.
* "Current LocalHold binaries hold shared OS leases for their connection lifetime":
  the probe of a reindex (`store/sqlite.rs:751`), the export of a migration
  (`store/migration.rs:1133`) and `embeddings status` (`embedding/status.rs:424`) open
  the database without one. The models do the same.
* In the browser, a catalogue that arrives while a deletion is pending starts a
  listing (`ui/app.rs:891`) which may show the deleted row again, although the test at
  2426 says that "starting a mutation must invalidate in-flight reads". A save started
  during a refresh drops the refresh, and with an empty query nothing asks again.
  The patch of a context fills the facets that were not edited from the record the
  manager loaded, which may be old. After a failed load of memberships the edit form
  shows none, and a save can replace them with none (`SavesWhatWasShown` excuses
  parts that were not shown).
* On PostgreSQL, a bulk update locks memories from the newest to the oldest
  (`store/postgres.rs:2058`) and a merge in the order of identifiers (2127): the two can
  deadlock (TLC: 11 states). So can deletions, and embeddings with updates. One of
  the two transactions is aborted and its caller sees an error; the other properties
  hold across it. `RecordWritersNeverDeadlock` states which writers agree on an order.
* On PostgreSQL, nothing keeps a kind enabled once a transaction has found it so
  (`store/context_store.rs:2080`, `2952`; `store/postgres.rs:5166`): `FOR KEY SHARE` on the
  kind (2126) does not conflict with the update that disables it. A context or a
  membership may be committed after its kind was disabled. `ChecksHoldAtCommit`
  excepts this check. The outcome is that of the two transactions in the
  other order, since disabling a kind reads neither contexts nor memberships.

What holds and is not obvious: the probe calls the provider past the concurrency
limit, yet calls stay within it; the drop that reopens the gate during the cleanup of
the same shutdown lets operations in, and guards and claims stay exact.

## 6. Not modelled

* The reranker: its breaker has the form of the provider's without retries or
  notification, the neural model is out of scope.
* Search and ranking: pure computations over floating point scores.
* The engine's validation, HTTP routing and bearer authentication, configuration,
  doctor and status: no state that several actors share.
* On PostgreSQL, `reassign_scope` of several memories at once, which locks them from
  the oldest to the newest (`store/postgres.rs:2198`), the bulk deletion (2006-2033), which
  locks in the order of its list, and `record_memory_use` (1309), which names no order:
  further sources of the deadlocks of section 5.
* Audit rows, search impressions and use counters: written in the transactions that
  are modelled, read by nothing that is.
* `restore_session` of the session manager, which the MCP library calls only when a
  session store is configured, and none is.
* Schema objects and the conversion of single columns; permissions, symbolic links
  and sidecar files; identities, hints and relations of contexts.
* Wording, logging, formatting, the MCP wire protocol, SQL text and query plans, the
  rendering of the browser; `tools/` (a source-code linter used in CI).
* Memory orderings weaker than sequential consistency.
