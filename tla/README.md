# Formal models of pg-prime

TLA+ modules, TLC runs and TLAPS proofs for the parts of this repository whose
correctness rests on concurrency, failures and restarts: the job queue, the
events log, the outbox, the scheduler, the migration runner, and the
transactions of the core library on its pool. Paths are relative to
`packages/`.

## 1. Inventory

| Component | State it keeps | Operations | What is hard |
|---|---|---|---|
| **mq: tables and statements** (`pg-prime-mq/src/sql`) | `messages`, `queues`, `groups`, `deps`, `dedup` | insert (send, flow, spawn), promote, claim, finish, move, heartbeat, expire, cancel, retry, remove, purge, limits | statements of many processes interleave; each has to leave four tables consistent |
| **mq: worker** (`pg-prime-mq/src/queue/worker.ts`, `settle.ts`) | map of running handlers, flags of each run, timers | claim round, `runOne`, heartbeat, expiry scan, `close` | every `await` is a point where the row changes; connections fail with the outcome unknown; crashes |
| **mq: client handle, maintenance** (`queue/handle.ts`, `sql/maintain.ts`) | gates in `queues` | `cancel`, `retry`, `remove`, `purge`, `drop`, limits, retention, reconcile | races with the owner; rows others refer to |
| **events** (`pg-prime-events/src/log`) | `entries`, `subscriptions` (cursor over transaction ids, lease, attempts), `parked` | publish, lease, read, settle, park, `ctx.commit`, reset, discard, retention | commits out of id order; readers without a lease any more; which entry a failure belongs to |
| **outbox** (`pg-prime-outbox/src`) | `relays`, `partitions` (token, epoch), `records`, `blocked` | write, heartbeat, acquire, release, deliver in waves, settle, park, replay, discard | rebalancing with deliveries in flight; order per key |
| **cron** (`pg-prime-cron/src`) | `schedules` (`next_at`, `running`), `runs` | claim by compare-and-set, trigger, run, heartbeat, cancel, expire, upsert, pause, enable | duplicate or forgotten ticks, overlap, crash between claim and run |
| **kit: migration runner** (`pg-prime-kit/src/runner`, `history`, `data`) | history rows, `data_progress`, advisory lock | reconcile, supersede, apply in segments or bare, batches, resume | a crash between a statement and its record; an index build that outlives its client |
| **sessions and transactions** (`pg-prime/src/session`, `driver`) | a connection of the pool, its queue of statements, scopes | begin, commit, retry, savepoint, `rollbackWith`, session, release | a COMMIT with a lost answer; what the next borrower of a connection finds |
| **schema, compiler, codecs, query builder** (`pg-prime/src`) | none that is shared | build SQL, encode, decode | not concurrent |
| **kit diff, pull, emit, lint, CLI; context, nestjs, testing, create** | none | text and schema transformations | not concurrent |

Processes of one package share nothing but the tables of PostgreSQL. mq's
workers call the statements of `sql/`; flows connect messages of several queues
through `deps`. mq, events, outbox and cron open their transactions through
`pg-prime`'s sessions, of which they use what `Session` promises: a transaction
commits what its callback wrote or nothing, and only a lost COMMIT is open.
Wake-ups (NOTIFY) only shorten waits: no correctness rests on them.

What makes each correct:

- *mq tables*: a token fences every owner; counters equal what they count; a
  parent's `pending_deps` equals its unresolved children and a blocked parent
  has something to wait for; limits are respected; a cancelled message is not
  put back to work.
- *mq worker*: a lease protects its message against everybody else; a run never
  abandons a message that is still active; a message is finished in the end;
  `close` ends. A rate window never exceeds its rate.
- *events*: nothing committed is skipped; `ctx.commit` commits once per entry;
  only an entry that failed alone is parked; everything is settled in the end.
- *outbox*: at a receiver that fences by epoch a key arrives in order; nothing
  is marked delivered that was not; every record gets there; a relay that joins
  gets its share.
- *cron*: runs do not overlap, each tick is recorded once, limits are exact,
  runs end.
- *migration runner*: what is recorded as applied is there; a file that may be
  withdrawn left nothing; a batch skips no row; what is settled is not run
  again; deploys get there.
- *sessions*: the caller is told what happened; at most one attempt commits;
  nobody finds another's transaction; no connection leaks.

## 2. Modules

| Module | What it is | Proofs |
|---|---|---|
| `MqMessages` | the four tables of mq, one action per statement or short transaction | `MqMessagesProofs` |
| `MqWorker` | worker processes on those tables (EXTENDS `MqMessages`) | `MqWorkerProofs` |
| `MqRate` | the rate window of one queue, with a clock | `MqRateProofs` |
| `EventStream` | what a subscription promises, without cursors or leases | |
| `EventsLog` | transactions, a subscription, its readers; implements `EventStream` | `EventsLogProofs` |
| `OutboxRelay` | writers, relays, partitions, a fencing sink, the administrator | `OutboxProofs` |
| `CronSchedule` | one schedule, its runs, instances, operators | `CronProofs` |
| `MigrationRunner` | runners, the history, the database, a developer | `MigrationProofs` |
| `Session` | callers, a pool of connections, PostgreSQL | `SessionProofs` |
| `MC*` | small instances for TLC | |

In all of them **a statement of PostgreSQL is one atomic step**. All rows it
changes stay locked until it ends, and at READ COMMITTED PostgreSQL evaluates
its conditions again on the locked version, so what matters is the order in
which statements get their rows. Transactions that the code runs as a unit, and
that lock what they decide on before they write, are one step as well.
Between any two statements of a process anything else may happen. Ghost
variables (`settled`, `applied`, `alone`, `accepted`, `touched`, `serial`,
`res`, `visited`) record what the properties need and no action reads them,
except that `serial` also numbers tokens.

**MqMessages.** `messages[m]` is a row: its state (also `"none"` before the
insert and `"gone"` after a delete), token, whether its lease has `lapsed`,
attempts and flags. `deps[c]` is the status of the row `(parent of c, c)`.
Tokens are the numbers 1, 2, ... of the claims of a message (`serial`), which
stands for fresh UUIDs; manual claims that pass their own `token` are assumed
to pass a fresh one. Columns that never change after the insert are constants.
`Finish` is `finishSql` with all its CTEs plus the cascade of `finishMessage`;
its guards are the five of `Guard`. Any client may settle with any token it was
ever given. Deliberate over-approximations: a claim may take fewer messages
than are free (priorities, `order_key`, SKIP LOCKED, the scan cap, group rates
and worker-level group defaults only restrict which), a retry is immediate or
delayed (the backoff is data), whether an attempt is the last because of
`shouldRetry` or `NonRetryableError` is a choice, and so is whether a claim
exhausts the rate window (`spent`). `MqRate` models that window in detail.

**MqWorker.** A run is one call of `runOne`, with the phase it waits in:
`granted` (the claim committed, its answer on the way), `running`, `tx` (a
completion waits in the handler's transaction), `sent` (a statement waits for
the server), `yes`/`no` (its answer is on the way), `asleep` (the back-off of
`settleSafely`), `recheck` and `after` (reads of the row). `held` is the map of
entries keyed by message id, `wire` holds statements whose client has gone,
`scan` the list an expiry scan works off, `beats` the heartbeat's answers. A
connection error may come before or after the server executed the statement.
`Locked` keeps other statements off rows an open transaction has changed.

**MqRate.** Claimers fix `now()` in `Begin` and get the row lock later, so they
run with times out of order.

**EventsLog.** A publisher's transaction gets an id, inserts, and ends in any
order; `entries` also holds rows of running and aborted transactions, `Visible`
those a read sees. A cursor is a position (xid, id) with, per transaction that
ran when a read stepped over it, the last id delivered from it (`cursor.ts`).
`Read` returns what `sql.ts` returns, with the snapshot of its moment; `Skip`,
`Mark`, `Park`, the handler's outcome and `Settle` are the awaits of `attempt`
and `serve` in `subscription.ts`. A handler's transaction with `ctx.commit` is
one step, at its end, since the statement locks the subscription's row until
then; its answer may be lost. Every write of a reader is guarded by its lease's
token (`Mine`), as in the code.

**EventStream** has four steps: a transaction appends all its entries, entries
are settled and consumed in the order of their transaction, retention forgets
consumed ones, an administrator rewinds. `ImplementsStream` maps `consumed` to
the visible entries behind the stored cursor and `settled` to the ghosts.

**OutboxRelay.** A record is `open` in its writer's transaction, `pending`,
`delivered`, `parked` or `gone`. `part` are the partitions with epoch and
owner, `rel` a relay's loop and the leases it believes in, `srv[r][p]` one call
of `serve`: the rest of its batch, the wave, what the sink has taken. The sink
keeps the highest epoch it saw per partition, which is what the package's
documentation asks of a receiver; calls of a relay that died stay in `late` and
may arrive at any time. The share of a relay is counted from the relays it saw
alive (`fairShare`).

**CronSchedule.** `s` is the schedule's row, `run` the rows of runs. An
instance reads the due row (`due`), plans in memory (`plan`) and claims with a
compare-and-set on `next_at`. `hand` are the handlers at work with the reason
they were aborted for, which go on for a while. Ticks are those of `everyMs`
with `startAt` 0, that is the multiples of the period.

**MigrationRunner.** A file is a sequence of statements in segments that
create, drop or build objects, or one batched update. `disk` is the directory,
`history` the rows, `db` what is in the database (an object may be `invalid`),
`data` the watermark, `visited` the rows a batch updated. A slow build commits
its catalog entry first; when its client dies, its backend goes on with the
session lock (`Orphan`), and ends the build or leaves it invalid. `Refused`
are errors of the server: a name that exists, one that is fatal, one that is
retried. `Edit` rewrites, deletes or restores a file between deploys.

**Session.** `conn[c]` is a connection: who holds it, the queue of statements
written to it, whether it is usable, and its backend (`status`, who opened the
transaction, the writes per savepoint). `call[k]` is the memory of one
`db.transaction` or `db.session`. Callbacks are arbitrary programs over the
innermost handle, and need not await their statements. `res` is what the caller
was told of each attempt.

## 3. Runs

`CHECK_DEADLOCK FALSE` everywhere: ids, claims and faults are bounded, so each
instance really stops when everything is finished and the bounds are used up.

| Run | Question | Distinct states |
|---|---|---|
| `MqMessages_families` | two families: a parent with a `fail` and a `wait` child whose rows are purged, and a chain of three generations that cascades, the youngest spawned, on a limited queue and group: `pending_deps`, deps rows, release of the parent, limits, cancels | 155 000 |
| `MqWorker_owners` | two workers and one message with any three of a deferral, a fault, a stall and an admin call: tokens, leases, lost leases, abandoned messages | 1 490 000 |
| `MqWorker_live` | a worker whose handler spawns, waits for its child and completes in its transaction, on a limited queue and group, with any two of a wait, a fault and an admin call: counters, everything is finished in the end, `close` ends | 169 000 |
| `MqRate_window` | the rate window under concurrency | 872 000 |
| `EventsLog_safe` | two readers, one entry at a time, a fault anywhere, retention: nothing skipped, exactly once, parking, implements `EventStream` | 910 000 |
| `EventsLog_live` | one reader of batches with resets and a fault: nothing skipped, everything settled in the end | 89 000 |
| `OutboxRelay_order` | two relays, two records of one key, one partition, two faults and an admin call: order per key, nothing lost | 1 587 000 |
| `OutboxRelay_live` | two relays and two partitions, one closes for good, a fault: delivery, share of a joiner | 138 000 |
| `CronSchedule_ticks` | two instances, three definitions, a fault and an operator's call | 183 000 |
| `MigrationRunner_deploys` | two runners, four files with three versions of one, two crashes, an error, an edit | 676 000 |
| `MigrationRunner_fresh` | a fresh database with a checkpoint and a crash (expects the violation) | |
| `Session_calls` | a transaction with a retry and a savepoint and a session with its own transaction on one connection, with a fault and a rejection | 1 260 000 |

`MCMqMessages` has the steps of `Next` on two families that share no message and
no queue; the first step sends one of them, and the rest of the behaviour is
about that one, so that the run has the sum of their states and not the product.
The flow is not paused, and in the chain a pause of the queue and one of the
group do not overlap: a pause only forbids claims. The other MC modules only
define values of constants.

The bounds and why they suffice.

- *mq*: three messages make a parent with two children that resolve in either
  order, and a chain with a middle. Two claims of a message (`MaxClaims`) make
  a stale token; in the chain one claim each is enough, as counters and limits
  do not look at tokens. Two workers make a stale owner; one worker is its own
  rival after a lapse. One fault is enough to lose an answer or a process at
  any phase, and one stall to lapse a lease under a live owner; each can hit at
  every point of the interleaving. `MaxAll` bounds deferrals, faults, stalls and
  calls together: three of them in `MqWorker_owners`, two in `MqWorker_live`, in
  any combination and order. `MqWorker_live` allows three claims: an attempt, one
  after a wait or a lapse, one after a retry by an administrator.
  `MaxInt = 4` of `MqRate` stands for the largest int4, and its clock runs over
  two windows of the longest rate.
- *events*: two transactions can commit in the wrong order, three entries make
  one with two entries and one between; one of them is of a type that is not
  asked for. One fault lapses a lease under a live reader, kills one, or loses
  an answer. Attempts are charged to one entry, so `MaxAttempts = 1` shows both
  sides of the limit.
- *outbox*: two records of a key make an order. Order and accounting are per
  partition, so `OutboxRelay_order` has one. Two faults make a call that a dead
  relay left behind meet a relay whose lease has lapsed. No relay closes there;
  closing is in `OutboxRelay_live` and in the proofs. Sharing needs two partitions
  (`OutboxRelay_live`), with a record without a key as keys do not matter
  there. `MaxChurn` bounds how often a relay that holds too much may release
  between two heartbeats: it releases one partition per round, and two
  partitions need one.
- *cron*: a clock of 0..3 has ticks that are missed together, and those before
  and after a change. `MaxLag = 0`: section 5 says what a lag does.
- *kit*: a file in one transaction, its rewrite with segments and its rewrite
  without a transaction; an index that a crash leaves invalid; a batch of two
  rows. Two crashes hit a file and its resume.
- *sessions*: one connection makes callers meet the same backend. Two attempts
  make a retry.

Workers, claimers, readers and relays are symmetric in runs of invariants and
action properties; runs with liveness use no symmetry.

Every property has a mutant in `PROJECT.json`: a variant of a definition that a
plausible bug would make of it, under which the run finds the property violated.
The variants stand in the modules before the definitions, marked `Mutant`.

### Fairness

- *mq* (`FairSpec` of `MqWorker`): handlers return and statements are answered
  (or their connection fails), the clock advances, the loop of a worker that is
  up comes round to promotion, the expiry scan and the rows it returned (`SF`
  for the scan, because a process may crash between), and granted rows are
  started. Claims are strongly fair per message: an old message comes to the
  head of its queue, since `order_key` of re-queued messages grows, and slots
  keep coming free. A supervisor restarts a process that died. Nothing is
  assumed about cancels, faults, stalls or deferrals, which are bounded.
- *events*: readers keep asking for the lease, serve and beat, and a lease
  nobody extends lapses. Publishers owe nothing: a transaction may stay open
  for ever.
- *outbox*: relays start, beat, rebalance and serve; leases and sightings
  nobody renews lapse; delays pass. Nothing about close, faults, administrators.
- *cron*: the loop of an instance comes round, handlers and their finishes end,
  leases nobody renews lapse. The clock owes nothing, as no property needs it.
- *kit*: somebody starts a deploy again, a run goes on, the orphaned backend
  ends. `AcquireLock` is strongly fair: a waiting runner polls, and the lock is
  free between deploys.
- *sessions*: PostgreSQL answers or the connection is dead, the
  application goes on, and a caller that can have a connection gets one. Weak
  fairness is enough: statements, savepoints and nested transactions are bounded.

### The disagreement a run shows

`MigrationRunner_fresh` expects a violation. On a fresh database the runner
records the files before the newest checkpoint as superseded, one commit each,
and only then applies the checkpoint (`pg-prime-kit/src/runner/run.ts:647-656`).
If it dies in between, the next run finds a history that is not empty, takes
the database for an existing one, supersedes the checkpoint too, and ends
`up_to_date` with none of the objects.

## 4. Proofs

TLAPS checks these for every value of the constants that the named assumptions
allow; TLC evaluates the assumptions in every run.

- `TypeCorrect` (`MqMessages`): the tables keep their types. One lemma per
  action, from lemmas on the helpers (`Heard`, `Finished`, `Uncount`, ...).
- `Fencing`, `GroupCounters`, `QueueCounters` (`MqMessages`): a token belongs
  to an active message and is the last one; the counters equal the
  cardinalities of the active sets. They are proved as one conjunction,
  `Accounting`, inductive relative to the types. An action does one of three
  things to the active set: keeps it with its tokens, groups and counting
  (`Kept`), takes a set of active messages out of it (`Leaves`) or adds a set of
  ready ones (the claims). One lemma for each shape shows that `Accounting` is
  kept; the proof for an action only shows its shape. The counting step is
  cardinality of unions and differences of finite sets.
- `PendingMatchesHolds`, `DepsAgreeHolds`, `BlockedWaitsHolds` and
  `ParentRunsAfterChildrenHolds` (`MqMessages`), from `Family`: the three
  invariants and `Linked` (a deps row is one of a message that was inserted and
  has a parent) are inductive together. `DepsAgree` is what lets a message
  settle: while it is active its row is not yet resolved, so a settle counts it
  down once. A parent that stays blocked after a failure has no `fail` child
  among those that failed, since the cascade would have reached it
  (`CascadeClimbs`). The lemmas before that are about trees: `Ancestors` is a
  recursive function, so its unfolding is proved first (`AncestorsUnfold`, by
  `Above`, a definition of the same sets without recursion), and facts about all
  messages follow from `ForestAssumption` (parents make no cycle, since a parent
  is inserted before its children or with them) by the set of messages for which
  they fail, which would hold the parent of each of its members (`NoLowest`).
- `ClaimsWithinLimitsHolds` (`MqMessages`): claims are the only steps that raise a
  counter (`Shrinks` holds of the others), and a claim reads the limit and the
  counter it raises in one statement. `CancelNotDroppedHolds`: one step per action.
- `TablesImplemented`, `WorkersFenced`, `LostIsFinalHolds`, `ActiveHasRunHolds`
  and `LeaseProtectsHolds` (`MqWorker`). Every step of a worker is a step of
  `MqMessages` or leaves its variables alone, so `WorkerSpec => Spec` and what is
  proved of the tables holds for workers (`WorkersKeepFamilies` says it of families). For that, the tokens of runs and of
  statements on their way must be tokens that were handed out (`Issued`). The
  invariant `WorkerInv` adds what the answers a run heard tell it (`RunsKnow`):
  after a yes its message is no longer its own; after a no, if the message still
  is its own, it was flagged or its children resolved, and the run goes on to a
  statement that takes that into account. A token never comes back once a
  message has left its claim, so a run that lost its message stays without it,
  and a run ends only when it has lost it: that is `LostIsFinal` and
  `ActiveHasRun`.
- `RatePerWindowHolds` and `LimitNotShortenedHolds` (`MqRate`), from `Window`:
  `rate_count` is what was claimed since `rate_start`, nothing was claimed in a
  later window, and windows follow one another. Two claims that read the clock
  in one order and get the row in the other are the case it is for.
- `NoOverlapHolds` (`CronSchedule`): while every definition says `skip`, no two
  handlers work on open runs. The inductive invariant `Slots` says that the
  row's `running` is the number of open runs, whoever moved it last, and that
  there is at most one. A step keeps the open runs and the counter (`Keeps`),
  opens one run that found the counter 0 (`Opens`) or closes some and
  subtracts their number (`Closes`). What `NoOverlap` counts are open runs, so
  there is at most one.
- `LimitClaimedHolds` and `EveryTickRecordedHolds` (`CronSchedule`), assuming
  `MaxLag = 0`: upsert reads the clock in the statement that decides on it. The
  code reads it before (section 5), so the assumption is needed, and it is the
  value of the runs. The invariant `Grid`: `next_at` is on the grid of the
  definition; every tick that has a run is past and lies behind `next_at`; a row
  an instance has read is the schedule's still, or the schedule has moved past
  it; the number of claimed ticks is within the limit. So the guard of a claim (`next_at` as it
  was read) lets one instance through for each tick.
- `NothingIsLost` (`OutboxRelay`): a record is marked delivered only after the
  sink took it. The inductive strengthening: what a serve takes for delivered
  (`ok`) was taken in the call it waited for, and every wave starts with
  nothing taken. It needs no lease to be in force: a relay that lost its
  partition also marks only what was taken.
- `KeyOrderHolds` (`OutboxRelay`), from `Ordered`. Leases do not exclude two
  relays that serve one partition, so the argument is by epochs. No two relays
  hold one epoch (`Epochs`), and a key has one parked record at most, with its
  row in `blocked` (`Table`). A read takes of each key its first record that is
  not done, so what came before a record under way is delivered or discarded,
  and stays so (`Prior`). A serve of the current epoch has pending records only;
  what an older serve or a call of a dead relay carries may have been delivered
  since, but then by a higher epoch, which the sink has seen (`Refused`). What is
  discarded under way is the case that remains, and `KeyOrder` names it
  (section 5).
- `WatermarkHolds` and `SettledHolds` (`MigrationRunner`), from one inductive
  invariant, `Invariant`. Its part `Progressed` says that every watermark there
  is, stored or in the memory of a run, is behind a prefix of updated rows; it
  is kept without the lock. `Exclusive` says that whoever is past
  `AcquireLock` holds the lock and that nothing it has left to write is
  settled; since nobody else writes, it stays so until the run writes it.
- `WithdrawnHolds` (`MigrationRunner`), from `Traced`, for arbitrary contents of
  the files. A file that may have committed something (`touched`) has a row that
  is applied or marked; a run inside a file of several transactions has marked
  its row before the first of them (`Guarded`), and one inside a file without a
  transaction has a row that is not `single`. A `single` row keeps its mark until it
  is applied, whatever content the file is given in between. The number of
  statements before a segment is a fold, so that it is a number at all
  (`FlattenSeq` of segments) is shown by the least segment for which it is not.
- `AppliedHolds` (`MigrationRunner`), from `InPlaceHolds`, where the contents
  keep to `Fitting`: a file that is rewritten keeps its statements and is only
  framed otherwise; what is made is dropped by nothing but the file that builds
  it in its last statement (`DROP INDEX IF EXISTS`, then
  `CREATE INDEX CONCURRENTLY`); builds and batches are outside of transactions,
  and a batch is alone in its file. Without these the property is false: section 5
  has the files that break it. That the contents of `MigrationRunner_deploys`
  keep to `Fitting` is `DeploysFit` of `MCMigrationRunner`, which TLC evaluates
  on every run of that module. The
  invariant `InPlace` says that the first `applied` statements of every row
  stand in the database (`Truthful`), that so do those a run counts as done,
  committed segments and the statement it has just run included (`InStep`), and
  that what a run has seen of the files it has left is still so (`Abreast`). A
  statement then has two effects to show: what it makes is valid, and it loses
  nothing that stands, but for a drop before a build; there the row counts fewer
  than all statements while anything is marked uncertain. An orphaned build ends
  while no run relies on the database.
- `NothingSkippedHolds`, `ExactlyOnceHolds`, `ParkedAfterAttemptsHolds` and
  `StreamImplemented` (`EventsLog`), from the invariant of `CursorsHold`.
  The first part of `EventsLogProofs` is the algebra of `cursor.ts`: what `Ahead` and `Past`
  have to do with each other, what stepping over an entry (`Served`) and over
  the end of a read does, when a cursor is `Sound` for the transactions that
  are open, and that soundness survives every way in which a transaction opens,
  inserts and ends. The invariant `Cursors` says that the stored cursor, those
  of a reader at each phase of a serve (`Readings`) and the one a reset has read
  (`Seeding`) are sound and past handled entries only, and that the holder of
  the lease goes on from the stored cursor. A reader whose lease lapsed keeps
  cursors with no such relation; its writes find another token and change
  nothing, which is where the fence is used. The refinement is proved step by
  step under the mapping of `ImplementsStream`: every action is one of the four
  steps of `EventStream` or a stutter. It is the safety part; that the stream
  moves is TLC's.
- `OwnConnectionHolds`, `AtMostOneCommitHolds` and `OutcomeToldHolds`
  (`Session`), assuming `~Late`: no handle is used after its callback returned.
  The assumption is needed (section 5), and it is the value of the runs. An
  action changes one call, the connection it holds and what that caller wrote,
  so the lemmas are about values: the memory `m` of a call, its connection `b`,
  what it was told `r` and the database `d`. At work (`AtWork`) the scopes of
  the memory mirror the savepoint levels of the backend, up to the writes still
  on their way (`Outstanding`, `Backend`); at rest (`AtRest`) there is nothing
  to mirror. `History` relates what was told to what is in the database
  (`Truth`), says what may still be told of the current attempt (`Pending`) and
  that no second attempt has committed (`Once`). A lost answer of COMMIT is the
  case all three are for: the attempt may or may not be in the database, so it
  may only be told as `unknown` and never retried.

All bounds (`MaxClaims`, `MaxTime`, `MaxFaults`, ...) are constants of any value
in these proofs, and no symmetry or finiteness is used but that of the sets
whose members are counted.

Only model-checked: all liveness, which is out of this prover's reach. Every
invariant and every action property of the passing runs is stated by a theorem.

## 5. What the models showed beside the properties

Met while modelling, outside what the properties state; each can be reproduced
by the change named.

- *mq*: a worker that re-claims a message its own handler still works on
  replaces its entry and loses count of a slot (`queue/worker.ts:237, 247`); an
  expiry scan can fail from its stale list a message that was retried meanwhile
  and has attempts left (`queue/settle.ts:162`); starting a process whose
  definition has no rate lifts a pause of `ctx.rateLimit` (`sql/admin.ts:26`);
  retention of a failed `wait` child leaves its parent blocked with nothing to
  retry (`sql/maintain.ts:31`); with a concurrency and no rate `rate_count` is
  never reset (`sql/claim.ts:57`). Whether a claim counts itself is decided by
  the definition of the consumer (`worker.ts:260`), so `ClaimsWithinLimits` is
  stated for counted claims.
- *cron*: `upsert` computes `next_at` from a clock read before (`cron.ts:136`).
  With `MaxLag = 1` a tick claimed in between is claimed again or the limit is
  passed by one; `MaxLag = 0` is the assumption of the other properties.
- *kit*: a file `[drop i; build i; drop a; build a]` without a transaction (two
  groups of `diff/ddl.ts:1931`) that dies in its third or fourth statement restarts at the top (`resumeFrom`; `runner/run.ts:325`
  holds that safe because the statements are idempotent) and drops `i` again.
  `markStatementApplied` then clears the mark but keeps the greater count, so a
  second death is resumed behind the build of `i`, and the file is recorded as
  applied with `i` missing: two faults and `AppliedIsInPlace` is violated. A
  file without a transaction that failed and is rewritten with other statements
  is resumed by the count of the old ones. `Fitting` (section 4) excludes both.
  `runBare` retries a batch from the watermark the file had before
  the statement, so rows may be updated twice; the watermark never passes a row
  that was not. A segmented file is retried whole, committed segments included.
- *outbox*: a record that an administrator discards while a call of a dead relay
  carries it can reach the sink after a later record of its key: a relay of an
  older epoch whose lease lapsed reads past the discarded one and delivers the
  later one, and then the late call, of a higher epoch, is accepted. So the
  fence the documentation asks of a receiver does not order discarded records,
  and `KeyOrder` excepts them. With one fault this does not happen.
- *sessions*: with `Late = TRUE` code that outlives its callback can still use
  its handle until `once` ends, between COMMIT and release, and `OutcomeTold`
  and `OwnConnection` are violated (`handles.ts:567`). A COMMIT that PostgreSQL
  answers with ROLLBACK, because the callback swallowed an error, is reported
  as a commit; `OutcomeTold` looks at the command tag for that.
  `session.transaction` reports an ordinary error when the answer of its COMMIT
  is lost. A savepoint that is released keeps its `statement_timeout`, of which
  the parent handle knows nothing. Concurrent savepoints of one depth share
  their name.

## 6. Not modelled, and why

- *mq*: `dedup`, `drop`, the reconcile (it needs the snapshots of two
  statements), `bind`, `progress`, `result`, `watch`, hooks, payloads; row locks
  held across statements, other than a completion in a handler's transaction;
  the waker and `localRate`, which only delay a claim.
- *events*: `tail`, reset to a position, changes of the types of topics and
  subscriptions, browsing and lag; several subscriptions share nothing but
  entries, so one stands for each.
- *outbox*: the sweep, which deletes rows no statement looks at any more;
  unordered topics.
- *cron*: cron patterns and time zones (ticks are a grid), the queue target,
  retention, reconcile, remove and prune, a handler's retries within a run.
- *kit*: `--dry-run`, `--to`, the fingerprint gate, repeatables, detection of
  poolers, the lease row (information only), replica lag, stalls; and the
  transformations of schemas to SQL (diff, catalog, emit, pull, lint), which
  are the larger part of the package: pure functions over unbounded inputs,
  with no state to interleave.
- *sessions*: timeouts and settings, streams, advisory locks, COPY, LISTEN,
  concurrent savepoints, abort signals.
- *pg-prime's schema, codecs, compiler and query builder; context, nestjs,
  testing, create*: types and text, without shared state.

## 7. Where it can go from here

Of what is not modelled, `dedup`, `drop` and the reconcile of mq come first.
