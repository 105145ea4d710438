# Verification of llm-agent-memory-postgres

TLA+ models of the Postgres store for agent memories (`postgres/`): the
transactional write paths with their event log and outbox, the relay that
publishes the outbox, and the schema migration. TLC checks small instances; TLAPS
proves every safety property the runs check, and both refinements, for every
instance. Liveness is model-checked.

## The system

| Component | State | Operations | Hard behaviour | Correct when |
|---|---|---|---|---|
| Outbox relay (`relay.go`, `worker_id.go`) | outbox rows: status, attempt count, owner, lease deadline, last error | `ClaimBatch`, `RunOnce`, `Ack`, `Release` | several workers on one table, leases on the database clock, crashes, lost replies | at-least-once delivery, one live lease per row, only the owner decides, every row is resolved |
| Fan-out publisher (`fanout_publisher.go`) | none | `Publish` | partial failure | an error of any child fails the message |
| Operator API (`store.go`) | same rows | `RequeueFailed`, `ListFailed` | races with relays | only dead letters come back |
| Record writes (`store.go`) | record, event, outbox, idempotency rows | `WriteRecord` | concurrent callers of one key, retries after lost replies | one record per key, one answer per key |
| Record mutations (`store.go`) | same | `PatchRecord`, `DeleteRecord`, `PinRecord`, `DisableRecord` | load without lock, then conditional UPDATE | no lost update, history explains the row, deletes last |
| Durable operations (`durable_ops.go`) | same, plus dedupe index | `Promote`, `ResolveDedupe`, `MarkAccess` | first-writer race, multi-row collision path, unversioned counter, bulk row locks | one winner, verdicts stay true, no lost access, no deadlock but between accesses, one Promote told it made the change |
| Event / idempotency / outbox stores (`store.go`) | same | `AppendEvent`, `SaveIdempotency`, `LoadIdempotency` (in `Store`), `EnqueueOutbox` (in `Relay` only: nothing in `Store` reads the outbox) | single statements beside the transactions, on the same unique keys | transactions stay whole |
| Reads (`store.go`, `durable_ops.go`) | none | `GetRecord`, `ListSessionWorking`, … | the latest event is chosen by version, collapses carry the winner's | listings name the record's own version |
| Migration (`schema.go`, `config.go`, `cmd/memory-migrate`) | catalog, schema version rows | `New`, `Migrate` | processes of several releases at once, partial groups, version skew, DDL locks | recorded means applied, no version skipped, every call returns |
| Worker id text, JSON helpers, test publishers | none | | | see "Not modelled" |

The write paths insert an outbox row in the transaction that changes the record;
the relay reads only that table. `Store` and `Relay` are therefore two modules,
and `Pipeline` puts them on one database.

## Modules

- `AtLeastOnce` — what the relay promises: rows that are absent, open, sent or
  failed, and the children that have received them.
- `Relay` — outbox table, workers, clock. `RelayProofs` — the theorems.
- `Records` — the rows, the calls and what a call makes of a record.
- `Ledger` — what the write paths promise: each call changes the tables in one step.
- `Store` — tables, clients and their transactions, statement by statement. Its
  theorems build on each other: `StoreProofs` (types, claims, outbox), `CommitProofs`
  (what open transactions have written), `LedgerProofs` (the refinement),
  `HistoryProofs` (keys, versions, events) and `WaitProofs` (deadlocks).
- `Migration` — catalog, version rows and the calls of `Migrate`. `MigrationProofs` —
  the theorems.
- `Pipeline` — `Store` and `Relay` composed, and a consumer. `PipelineProofs` — the
  theorems, which use those of `Store` and `Relay`.
- `MCRelay`, `MCStore`, `MCMigration`, `MCPipeline` — constants for TLC.

### Relay

A worker's `pc` follows `RunOnce`: `idle` → `begun` (transaction open, `NOW()`
fixed) → `selected` (rows locked by `FOR UPDATE SKIP LOCKED`) → `publish` →
`acking` → `publish` … → `idle`; `down` after a crash, for good, because a
restarted process draws a new worker id (`NewRandomWorkerID`).

- `lease_expires_at` is kept as `ttl`, the time left until it. `lag[w]` counts the
  ticks since `NOW()` of the worker's open statement or transaction, so the
  comparison with `NOW()` is `ttl < -lag` (claim) and `ttl > -lag` (ack). A lease
  granted by a slow transaction starts at `LeaseMillis - lag`.
- `LeaseMillis` keeps the truncation of `LeaseTTL.Milliseconds()`, and `OrDefault`
  the defaults of `NewRelay`.
- `ClaimSelect` is the ordered, limited SELECT; `GrantLeases` the UPDATE and COMMIT.
  COMMIT may succeed without the worker learning it (`ClaimCommitLost`); any
  statement may fail (`ClaimAbort`, `AckError`) or lose its reply (`AckReplyLost`).
- `PublishChild` is one child's `Publish`; a child may handle the message and
  report an error. `delivered` records what arrived.
- An ack waits while a claim holds the row, then judges the row as it is with the
  `NOW()` of its own start.
- `Release` may run beside the worker's loop, as in a shutdown sequence.
- Rows are numbered by `created_at`; they may become visible in any order.

One worker runs one `RunOnce` at a time, as the package's callers do.

### Store

Each client runs one call at a time, statement by statement, in READ COMMITTED.
`tx[c]` holds what the transaction has written; it becomes visible in one step
(`Apply`) or is dropped (`Abort`: error, cancelled context or crash). A written
row, an inserted unique key and the locked index row block other transactions
until then; plain SELECTs never wait. A blocked `UPDATE` judges the newest
committed row when it gets the lock (`VersionMatches`). Consecutive statements
that cannot wait and that nobody else sees are one step: the event and outbox
INSERTs belong to the INSERT or UPDATE before them, whose row lock keeps other
transactions away from their keys; `AppendEvent` may have taken them before
(`InsertDuplicate`, `UpdateDuplicate`).

- `Load` covers `loadRecordForUpdate` and the `apply` closure that follows it;
  `Written` keeps apart the columns each `UPDATE` names, so a stale copy of
  `hit_count` goes into the event payload and not into the row.
- `MarkAccess` is one UPDATE over many rows. The rows it will visit are those of its
  snapshot (`Matching`), it takes their locks one at a time in the order of the
  request's `ids`, which stands for the scan order of the plan, and it reads each
  row's newest version when it has the lock (`AccessRow`).
- `WaitsFor` names the transactions the next statement waits for. Postgres looks
  for circles and aborts a transaction on one (`DeadlockAbort`).
- `AppendEvent` and `SaveIdempotency` are single statements with arguments from
  `Appends` and `Saves`; they wait while a transaction holds the key they need.
- `Readable`, `Listed` and `Latest` are `GetRecord`, the filter of
  `ListSessionWorking` and its subquery. Among events of one version `created_at`
  decides, which the model leaves open.
- Content stands for the four fields `PatchRecord` treats alike. Timestamps, tags,
  scopes and payload encodings are left out. One tenant is modelled: every
  statement filters by tenant, so a foreign record is absent. Requests with a
  non-positive expected version end like any other version mismatch.
- A `WriteRecord` request carries the record the caller passes (`q.rec`): pinned,
  disabled, deleted, with a source event or with a `HitCount` of its own, as
  `WriteRecord` stores it. Only the version is set (`FirstVersion`). `WritesAssumption`
  asks that it is a record, so its `HitCount` is a count, zero or more.
- The hash of a promote request is the joined text of `durable_ops.go:63`. `Joined` is
  any function from memory id, source event and version to hashes: it need not be
  injective, because ids may contain the separator, and a `WriteRecord` may bring the
  same text.
- An entry holds `Created: true`, which `WriteRecord`'s replay and `LoadIdempotency`
  return as it is; `Promote`'s replay answers `false` (`CreatedOnReplay`).
- `Seed` maps the ids of records written earlier, under other idempotency keys, to those
  records at version 1; their created events are there as well.
- `replies` (the call, its hash, the record, version and `Created` of each idempotent
  answer), `verdicts` and `accessed` are history variables for the properties.

`Ledger` has the same five tables and one action per kind of call: `Write`,
`Mutate`, `Win` and `Lose` (the two ends of `ResolveDedupe`), `Access`, `Note` and
`Save`. `Store` implements it with its tables as they are committed: a COMMIT is
a whole call on the tables of that moment, everything else stutters. `Ledger` is
weaker than a sequential run in two places, because the code is: an event's copy of a
record may miss accesses counted since the load, and a collapse may describe the
winner as it was before a mutation that committed meanwhile.

### Migration

A call of `Migrate` looks for the version table, reads `MAX(version)`, and runs
the groups above it, each statement a step. A transactional group keeps its
objects, its constraint and its version row in `tx[m]` until COMMIT; a direct
group (a form the code supports and no group uses yet; group 4 of a later release
stands for it) commits each statement by itself. `objects` are the names in the catalog: a
`CREATE INDEX CONCURRENTLY` that fails and leaves an invalid index under its name is
`ExecuteDirect` followed by `Abort`, and the next run passes over it as `IF NOT EXISTS`
does. Whether an index is valid is not modelled, so `RecordedIsApplied` says of a direct
group only that the names exist.

- Statements that lock and behave alike stand for each other: one table for the
  tables of group 1 nothing else touches, one index per table and kind.
- A DDL statement waits for a conflicting table lock (`LockOf`, `Conflict`).
  `IF NOT EXISTS` does not see a peer's uncommitted object: the statement waits
  (`CreateWaits`) and then collides or goes on.
- Two reruns of group 1 hold SHARE on the trace table through
  `CREATE INDEX IF NOT EXISTS` when `COMMENT` wants a conflicting lock: they
  deadlock, and Postgres aborts one.
- `kinds` is the set of CHECK constraints on `kind`; `KindsAfter` follows
  `CREATE TABLE IF NOT EXISTS` and the DO block of group 3.
- A prefix is described by the classes of its characters. Table names are used
  unquoted, so Postgres folds them (`SpelledAsStored`), and the lookup in
  `information_schema` compares the name as spelled (`TableFound`).
- `behind` remembers that the database was too far ahead when the call started.

### Pipeline

An outbox row is named by the number of the call that writes it: `created_at` is
`NOW()` of the transaction, its start. The row and its payload appear in the step
that commits the transaction (`OutboxRow`). One relay process runs at a time, the
next one takes over after a crash (`Replica`). That is an assumption about the deployment
which nothing in the code enforces (`SKIP LOCKED` and worker ids are made for several);
`CausalOrder` needs it, and `Relay` is checked without it. The consumer keeps the newest
version of each record (`Known`).

Left out of the composition: `ResolveDedupe`, whose collision writes two outbox rows with
equal `created_at`; `AppendEvent`, `SaveIdempotency` and `LoadIdempotency` (`Appends` and
`Saves` are empty); and a caller's own `EnqueueOutbox`.

## Runs

| Run | Instance | Shows |
|---|---|---|
| `relay_fanout` | 1 row, 2 children, 2 workers, lease 2 ticks (2999 µs truncated), lag ≤ 1, 2 attempts, 3 disturbances | exclusive leases, ownership, true counts and statistics, delivery before completion, dead letters, refinement of `AtLeastOnce` |
| `relay_liveness` | 2 rows, batch size 1, 1 disturbance, fairness | every row is resolved |
| `relay_retry_budget` | 1 row, 1 attempt | violation, see findings |
| `store_idempotency` | 3 clients, 4 calls, two keys, two hashes, generated ids, `Promote` under the same key and with a hash a writer also brings, `AppendEvent` and `SaveIdempotency` | one record per key, one hash, record and version in all answers for a key, one `Promote` told it made the change, refinement of `Ledger` |
| `store_calls` | 3 clients, 4 calls, 3 duplicates, one written during the run, pinned and with `HitCount` 2, the others before; update, delete, disable, `Promote` of one of them with right and stale versions, `MarkAccess` on two | no lost update or access, deletes last, replayable history, one winner, true verdicts, complete outbox, session listings that name an event of the record's own version, refinement of `Ledger` |
| `store_liveness` | 2 clients, 4 calls, 2 keys with crossed winners, accesses to two rows in both orders, fairness | only accesses deadlock, every call returns |
| `store_third_duplicate` | 3 duplicates, 3 calls | violation, see findings |
| `store_dedupe_retry` | one candidate, 2 calls | violation, see findings |
| `store_latest_event` | two duplicates and a pin, 3 calls | violation, see findings |
| `migrate_rolling` | 3 processes of releases 1, 3 and 4, databases at versions 0, 2, 7 and 9, a safe and an unsafe prefix, 3 calls, fairness | recorded is applied, no gap, no kind lost, skew check, every call returns |
| `migrate_mixed_case` | 1 process, a prefix with an upper-case letter | violation, see findings |
| `pipeline` | 2 clients, 3 calls on one record, 2 relay processes in turn, 1 disturbance, 2 attempts | nothing uncommitted is published, the consumer converges, calls in sequence are claimed in order |

Bounds. `MaxFaults` limits disturbances; two are enough for a lost lease and a
second event that meets it (late ack, release, requeue), three for both workers
to be disturbed and a requeue besides. `MaxLag` = 1 lets a transaction's `NOW()`
differ from the clock and from another transaction's; in `pipeline` it is 0, there the
question is the order of rows, not the clock. `MaxLag` stays below the lease length:
a claim that takes longer than the lease is a lost lease that costs no
disturbance and would let attempts grow without bound. `relay_fanout` has one row;
the theorems cover several in one hand. `MaxOps` = 4 calls cover two racing calls, one
after a conflict or a lost reply, and one that observes; 3 in `pipeline`, where two
changes and a retry are enough to be published in either order. `MaxCalls` = 3 lets each
release migrate once or one process try again. The installed versions are a fresh
database, one that lacks group 3 (and 4), one tolerably ahead of release 3 but not of
release 1, and one too far ahead of both; 9 = 4 + `AcceptableSkewVersions` is the last
that release 4 tolerates. Clients and workers are symmetric; symmetry is off in the
runs of a fair specification. `store_calls` makes the changes that differ in what they touch;
unpin and enable run through the same statements with the flag turned round, and a pin
is made in `store_latest_event` and `pipeline`.

Deadlock checking is off for `Store`, `Migration` and `Pipeline`: callers may stop
calling. It is on for `Relay`: workers poll for ever.

Fairness. `Relay!FairSpec`: the clock runs, and a worker that is up keeps taking
its next step (the gateway calls `RunOnce` in a loop). Rows are resolved because
disturbances are finitely many and fewer than the workers, so one keeps polling
with leases it does not lose; without that assumption the relay may publish and
lose the lease for ever. `LeaseTTL` must be at least a millisecond: below, the
truncated lease has run out when it is granted. `Store!FairSpec` and
`Migration!FairSpec`: a call whose next statement can run runs it, and the database
looks for deadlocks (`deadlock_timeout`). Nothing is assumed of callers, operators,
other errors or crashes.

## Findings

1. **Retry budget** (`relay_retry_budget`). `MaxAttempts` is compared only when a
   publish fails and its ack succeeds. A crash, `Release` or lost lease at the
   last attempt leaves a row that is claimed beyond the budget, without end if
   publishing is what kills the worker.
2. **Third duplicate** (`store_third_duplicate`). A collapse does not change the
   winner's version, so the next collapse event repeats
   `UNIQUE (memory_id, version, event_type)`: the call fails and the duplicate stays.
3. **Dedupe retry** (`store_dedupe_retry`). `ResolveDedupe` called again for the
   registered winner collapses it onto itself and deletes it.
4. **Mixed-case prefix** (`migrate_mixed_case`). `isSafeIdent` admits upper case, the
   tables are created in lower case, and the version table is looked up as spelled:
   the version always reads 0, every group runs again and the skew check never fires.
5. **Latest event** (`store_latest_event`). The comments call `LatestEventID` the event
   most recently appended; the query takes the one with the highest version. A collapse
   that read the winner before a pin and is appended after it has the lower version, so
   the listing goes on naming the pin. What the query does keep is
   `SessionListsCurrent`: the event it names is of the record's own version.

Also seen, without a run: `Promote` accepts any kind although its comment speaks of
a working record (`durable_ops.go:53`), and its load takes no lock although the
comment says so (`durable_ops.go:105`); the version predicate of the UPDATE protects
it, as `VersionChain` shows. `LoadIdempotency` and the lookups ignore `expires_at`.
`WriteRecord`'s replay answers `Created: true`, the stored response, where `Promote`'s
answers `false`; no doc or test says what the former should be. The hash of a promote request joins ids
with `:` (`durable_ops.go:63`), which ids may contain: `("a", "b:c", 1)` and
`("a:b", "c", 1)` are one request to the lookup, so under one key the second record's
`Promote` is answered with the first record where the comment (`:61-62`) speaks of a
conflict. `Joined` admits such hashes, and the theorems hold with them.

## Proofs

`RelayProofs` proves, from `RelayAssumption` alone (finite set of numbered rows, a
NULL that is no worker, integer configuration; the numbers of workers, children,
ticks and disturbances are arbitrary): `TypeOK`, `SentDelivered`, `LeaseColumns`,
`AttemptFresh`, `FailedExhausted`, `PublishedIsSent`, `OwnerDecides`,
`LeaseNotStolen` and that `Relay` implements `AtLeastOnce`.

The checked invariants are not inductive. `Inv` adds:

- `LockInv`: a locked row is in the hands of exactly the claim that selected it,
  its count is the column plus one, it is open, and a lease on it has run out.
  `AttemptFresh` and `LeaseNotStolen` rest on it: nobody else writes the row
  between the SELECT and the UPDATE of a claim.
- `PublishInv`: as long as no child of the current `Publish` has failed, the
  children already called have the message. `SentDelivered` rests on it.
- `TodoInv`: workers hold rows that exist; the refinement needs it.

One lemma per action shows that it preserves each conjunct; `NextInv` puts them
together. The action properties and the refinement follow from `Inv` step by step:
only an owner's ack changes a row's abstract phase towards `sent` or `failed`.

`StoreProofs` proves, from `RecordsAssumption` (the calls have the arguments their
methods take, and what is missing is no value), `WritesAssumption` (what a caller passes
to `WriteRecord` is a record) and `StoreAssumption`, for any clients, records, keys and calls: `TypeOK`, `WinnerStable` and, when no caller
appends events of its own (`Appends = {}`), `OutboxComplete`. Its `Inv` adds:

- `CallInv`: which call can be at which statement and what it holds there. The row
  of an UPDATE exists although the load locked nothing, because rows never go away;
  the index row of `LockIndex` is committed, so a winner is read.
- `LeftInv`: rows an access has yet to visit exist.
- `ClaimInv`: a transaction that has claimed a dedupe key found it free and is the
  only one that has. `WinnerStable` rests on it: at COMMIT the key is still free.

`OutboxComplete` has an invariant of its own, `PairedInv`: every open transaction has
an outbox row for exactly the events it has inserted, so a rollback loses both and
COMMIT applies both. `AppendEvent` writes no outbox row; the assumption leaves it out.

The other theorems about `Store` rest on the same three assumptions and, where said, on
what callers append.

`CommitProofs` proves `HitsCounted`, `DeletedStays` and `VerdictsHold`. They are about
what COMMIT does to rows that have moved on since the transaction read them, and no
property of the tables alone is inductive. `WorkInv` says what each open transaction
has written, compared with the committed tables of the moment:

- `WrittenOK`: nothing before the first write; then the row is what the call makes of
  the *committed* row (`Created`, `Changed`, `Visited`). What was loaded without a lock
  is the row or an older version of it (`Loaded`), which the UPDATE's predicate tells
  apart; a copy may miss accesses (`CopyOf`), since `MarkAccess` does not change the
  version. The winner of a collapse is as some event described it (`Past`).
- `KeysOK`, `EventsOK`: keys it has inserted are free in the committed tables.
- `Apart`: two transactions share no row, key or event key.
- `RowOK`: a committed row has counted its accesses on top of the counter in its created
  event, and is described by an event. `HitsCounted` is the first half.

A step of one transaction is shown to leave what another has done true
(`OthersKeep`) under one condition on the tables, `KeptFor`; a COMMIT meets it because
rows only move on (`MovesOn`), entries and winners stay, and the transactions are apart.

`LedgerProofs` proves `ImplementsLedger`: a COMMIT is `Write`, `Mutate`, `Win`, `Lose`
or `Access` of `Ledger` on the tables of that moment, which is what `WorkInv` says of a
transaction in `commit`; every other step of a call stutters.

`HistoryProofs` works on steps of `Ledger` instead of statements (`TableStep`,
`KeyStep`), with one small invariant per property:

- `OneCreatePerKey`: the key of every creation is taken (`CreatedInv`). Assumes that
  callers append no `created` event under a key.
- `RepliesAgree`: every answer for a key that callers do not save under has the hash, the
  record and the version of the entry stored there, and the record has at least that
  version (`ReplyInv`). The property leaves out the saved keys itself, and nothing is
  assumed of hashes: an answer is for the hash that was presented, and which requests
  share one is another question (see "Also seen"). `Created` is not among what agrees.
- `PromotedOnce`: a `Promote` that is told it made the change has inserted its key where
  there was no entry, and a key that is taken stays taken (`PromotedInv`). It holds for
  saved keys too, because a replay never says so.
- `VersionChain`: `ChainInv`, the same with what holds of records that do not exist.
  `HistoryExplains`: `ExplainInv`, each event follows from the one before it and the
  newest describes the row. Both assume that callers append nothing but collapses:
  `AppendEvent` checks neither version nor snapshot, so an appended change is a gap, a
  repetition or an unexplained snapshot by itself.
- `SessionListsCurrent`: no event is ahead of its record (`AheadInv`). Assumes that
  callers append nothing, as an appended collapse may carry any version.

The runs that check a property meet its assumption (only `store_idempotency` appends).

`WaitProofs` proves `OnlyAccessesDeadlock`. Whoever is waited for has written a row, has
locked a row of the dedupe index or is about to commit (`WaitsForHolders`). On a circle
everyone waits, so no one is about to commit, and a call that waits in `insert`, `update`
or `lockindex` has neither written nor locked anything (`LocksInv`, `WorkInv`); what is
left is `access`. `RowsLocked` is empty because `loadRecordForUpdate` takes no lock;
with the lock its name speaks of, the argument and the property fail.

`MigrationProofs` proves, from `MigrationAssumption`, for any migrators, releases,
installed versions and direct groups: `TypeOK`, `VersionsContiguous`,
`RecordedIsApplied`, `OkMeansComplete`, `KindsNeverNarrow`, and `AheadRejected`. `Inv`
adds what a call has behind it: every version below its group is recorded and the objects
of the statements before the current one are in the catalog or in its own transaction
(`CallOK`); an object being created is new and has one creator (`PendingInv`); a
constraint on kinds comes with its table (`KindsInv`); and a recorded version has its
objects and, for 3, the wide constraint (`RecordedInv`). `AheadRejected` needs one
assumption: accepted prefixes are spelled as Postgres stores them. It is true of
`isSafeIdent` only without upper case; `migrate_mixed_case` shows that without it the
property fails (finding 4).

`PipelineProofs` proves `PublishedIsCommitted`, `ConsumerConverges` and `CausalOrder`
for any number of calls, relay processes, children and disturbances, from
`RecordsAssumption`, `WritesAssumption` and `PipelineAssumption`. `RunsStore` and `RunsRelay` show that the
composition is a behaviour of either part (a row that a COMMIT enqueues is absent and has
the number of its call, `CallsNumbered`), so that the parts' theorems hold of it:

- `PublishedIsCommitted` and `ConsumerConverges` rest on `Contents`: committed events and
  rows that are there correspond. A COMMIT adds one event to both or none to either,
  because its key is new (`WorkInv`) and the outbox was complete. When all rows are sent
  they were delivered (`SentDelivered`), so the consumer has all events; the newest of a
  record has the record's version (`VersionChain`) and says what the row says
  (`HistoryExplains`).
- `CausalOrder` rests on `OrderInv`: what a transaction saw has a lower number and is
  there (`Starts`), relays that come later have not begun (`OneRelay`), what was never
  claimed is pending (`Waiting`). It is therefore due, unlocked, whenever a claim takes
  the transaction's row, and the batch, ordered by `created_at`, has it as well
  (`ClaimInOrder`).

Only model-checked: `Resolved`, `Terminates` and `Returns`; fairness and `ENABLED` are
out of the prover's reach. The five violations are TLC's counterexamples.

## Plan

1. Fewer calls left out of `Pipeline`: `ResolveDedupe`'s two rows with one `created_at`
   would need rows that are ranked by more than the number of the call.
2. The steps towards liveness that need no fairness: a claimed row whose worker keeps
   its lease leaves `processing` by its own steps only; a call waits only for calls that
   can go on.

## Not modelled

- JSON encoding and decoding (`models.go`, the payload columns): messages and
  snapshots are values; every reader decodes what the same struct encoded.
- The text of a worker id (`worker_id.go`): only that a restarted process has a new one.
- `LeaseAwareTestPublisher` and `MemoryPublisher`: test fakes.
- Opening the pool and reading the environment in `memory-migrate`.
- `GetRecordIncludingHidden` and `ListFailed`: one SELECT whose rows are returned as
  they are.
- Identifiers longer than Postgres's 63 bytes, `decision_trace` rows (nothing here
  writes them) and the clock skew between `time.Now()` of callers: the columns it fills
  decide nothing.
