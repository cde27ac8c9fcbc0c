# A verification project for BlackFyre

BlackFyre is a multi-tenant compliance platform: users start *scans* of their
cloud accounts, a worker runs agents over them, findings and compliance scores
come out, *remediations* are approved and executed, and two hash-chained ledgers
(the audit log and the evidence chain) record what happened. This directory
models the parts of it in which several actors change the same state (scans and
their queue, both ledgers, remediations, the evidence vault, sessions, billing,
the tenant-bound connection pool, monitoring schedules): TLA+ modules, TLC configurations that check them on small instances, and proofs for
every size that the TLA+ proof system checks.

All source paths below are relative to `src/platform/packages/api/src/` unless
they start with `src/`. `PROJECT.json` has the machine-readable side of this
page: which lines each definition stands for (`map`), what each run checks, a
mutation of the code that breaks each property (`mutants`), the disagreements
between code and docs (`findings`), and the list of hazards the properties are
for.

Contents: [1 Inventory](#1-inventory) · [2 Modules](#2-the-modules-and-the-code) ·
[3 Runs](#3-what-the-runs-check) · [4 Fairness](#4-fairness) ·
[5 Proofs](#5-what-is-proved) · [6 Findings](#6-where-code-and-documents-disagree) ·
[7 Left out](#7-what-is-not-modelled-and-why) · [8 Plan](#8-plan)

## 1 Inventory

### Components, their state and their operations

| Component | State | Operations | What makes it correct |
|---|---|---|---|
| Scan lifecycle (`services/scan-service.ts`, `routes/scans.ts`, `routes/onprem.ts`) | table `scans`: status `queued / running / completed / completed_partial / failed / cancelled`, progress | POST (quota, limit, INSERT, SendMessage, billing), cancel, PATCH, `markRunning`, `markCompleted`, `markFailed`, `updateProgress` | a job never runs ahead of its row; an acknowledged job has a finished scan; limits hold |
| Scan worker (`workers/scan-worker.ts`, `agents/swarm-orchestrator.ts`) | the records an invocation holds | `processScanJob`: mark running, run the swarm, mark completed, snapshot, alerts; catch: mark failed | a run that fails, throws or dies leaves no scan in between |
| Job queues (`queue/sqs-client.ts`, `workers/poll-runner.ts`, `src/platform/infra/queues.ts`) | four SQS queues with dead-letter queues | send, receive, delete, visibility timeout, redrive after 3 receives | every job settles |
| Usage metering (`services/usage-meter-service.ts`) | `usage_meters.count` per tenant, metric and month | `enforceQuota` (read), `increment` (upsert) | bills what was sent, stays near the quota |
| Evidence ledger (`services/ledger/evidence-chain.ts`) | table `evidence_chain`, UNIQUE (tenant, seq) | `appendToChain` with optimistic retry, `verifyChain`, certificate | dense, linear, one entry per call; an untouched ledger verifies, a damaged one does not |
| Audit chain (`services/audit-chain-service.ts`, `plugins/audit-log.ts`) | `audit_logs`, and the head in `audit_chain_state` | `logChained` (one transaction), `verifyChain`, export | linear, one entry per audited request; an untouched chain verifies |
| Remediation approvals (`services/remediation-service.ts`) | table `remediations`: status, tier, approver, times | create, approve, execute, complete, fail, rollback | nothing runs unapproved unless its tier is auto |
| Compliance scores (`services/compliance-service.ts`) | `compliance_scores`, one set per snapshot | `snapshotScores`; the rest reads | one set per scan |
| Evidence vault (`services/evidence-service.ts`, `services/evidence-s3.ts`, `workers/evidence-worker.ts`) | WORM objects in S3, `evidence` rows with a key and a digest | POST (INSERT, SendMessage), upload, UPDATE, retry, verify | a row names an object that exists, never an older one than before; queued evidence is stored or dead-lettered |
| Sessions (`routes/auth.ts`) | `refresh_tokens` in families, reset links and attempt counters in Redis | login, refresh with rotation and reuse detection, forgot and reset password | an ended family stays ended (it does not, section 6), a link works once, a lock has a deadline |
| Rate limiting (`plugins/redis.ts`, `lib/in-memory-redis.ts`) | fixed-window counters | INCR, EXPIRE | a counter ends with its window |
| Billing (`routes/payments-stripe.ts`, `routes/payments.ts`, `services/payment-service.ts`) | the tenant's plan, subscription status, access, revenue; event markers in Redis | webhooks: dedupe, check the amount, provision, dun, cancel | an event is applied at most once, and only paid plans are unlocked |
| Tenant isolation (`plugins/auth.ts`, `app.ts`, `db/connection.ts`) | ten pooled connections, each with a role and a bound tenant | reserve, bind, SET ROLE, query, reset, release | a query sees its tenant's rows; every connection comes back |
| Monitoring and drift (`workers/monitor-worker.ts`, `services/drift-service.ts`, `routes/drift.ts`) | `monitoring_schedules`, drift events | start, stop, due check, advance, drift and health checks | a due schedule is served |
| Findings (`services/finding-service.ts`, `finding-dedup.ts`) | `findings`, UNIQUE (tenant, dedup hash) | upsert per agent finding, resolve | one row per finding however often a job is delivered |
| Alerts, incidents, CERT-In clocks | rules, incidents, in-memory clocks | evaluate, dispatch, report | one alert per event |
| Others | see `components` in `PROJECT.json` | | |

### How they interact

1. `POST /api/scans` checks the monthly quota, lets `ScanService.create` count
   the tenant's active scans, insert the row as `queued` and send one SQS
   message, and bills the scan. These are five awaits and no transaction. The
   on-prem routes (`POST /api/scans/ad`, `/snmp`) call `create` without quota
   and billing, and insert and send for themselves when it is rejected.
2. SQS delivers the message to a worker: in production a Lambda subscribed to
   the queue (`src/platform/infra/queues.ts:41`), locally the poller in
   `workers/poll-runner.ts`. `processScanJob` moves the row to `running`, runs
   the agents, moves it to `completed` or `completed_partial`, snapshots the
   scores and evaluates alert rules. A throw moves it to `failed`, and is
   not rethrown. When the handler returns the message is deleted; when it throws,
   crashes or times out the message comes back, and after three receives it goes
   to the dead-letter queue.
3. Users cancel and administrators PATCH the same row meanwhile. No write of
   any of them is conditional on the status it finds.
4. Every mutating request is recorded by an `onResponse` hook in the audit chain,
   after the response is sent.
5. `appendToChain` has no production caller yet
   (`services/ledger/evidence-chain.ts:38-64`); it is modelled as the service
   promises to behave, called by any number of concurrent appenders.
6. Remediation requests touch only their own table.
7. `POST /api/evidence` inserts a row without an object and sends a job with the
   content; the evidence worker stores the object under a fresh key and then
   writes key and digest into the row.
8. Every authenticated request reserves one connection of the pool for its whole
   life, binds its tenant to it and drops to the role `app_user`. Some of its
   queries use `app.db` instead, which draws on the *same* pool.
9. Logins, refreshes and resets, and the payment providers' webhooks, change
   their rows in single statements without transactions and use Redis for what
   has to be decided once: attempts, reset links, event markers.
10. `POST /api/monitoring/start` arms a schedule and sends one monitor job; the
   monitor worker looks for due schedules when a job reaches it.

### What is hard about it

Check-then-write everywhere (the limit, the quota, cancel, all remediation
operations); at-least-once delivery to a handler that is not idempotent;
invocations that die between two writes, or live on when their job is handed to
another; the reply to a COMMIT that gets lost;
optimistic retry with a bounded number of attempts; a row lock that has to
survive rollbacks; two clocks; markers that are set before the work they stand
for; a connection whose session state outlives the request; requests that hold
one connection while they wait for another. The list with lines is `hazards` in
`PROJECT.json`; each entry names the properties that would show it, or says why
none does yet.

## 2 The modules and the code

```
  ScanContract  <--refines--  ScanLifecycle --EXTENDS--> SqsQueue
  AppendOnlyLog <--refines--  EvidenceChain
  AppendOnlyLog <--refines--  AuditChain
                              Remediation
                              EvidenceVault --EXTENDS--> SqsQueue
                              Monitoring    --EXTENDS--> SqsQueue
                              Sessions      --EXTENDS--> KeyStore
  BillingContract <--refines- Billing       --EXTENDS--> KeyStore
                              TenantPool
  MC<name>         the instance of a module for TLC
  <name>_proofs    the theorems of a module (all but Monitoring have one)
```

### SqsQueue

One queue; `msg[j]` says where the message of job `j` is (`unsent`, `visible`,
`inflight`, `acked`, `dead`) and how often it was received. SQS itself is not in
the repository, so the module says only what `queues.ts` configures and the
workers rely on. Three idealisations:

- order is not modelled, since a standard queue promises none;
- time is not: the visibility of a message in flight may lapse at any moment,
  over a dead invocation or under a living one. A Lambda's timeout equals the visibility
  timeout (`queues.ts:23` and `:43`), but the poller takes up to five messages, works
  them one after the other and limits none (`workers/poll-runner.ts:74-154`), and
  SQS is at-least-once in any case (ADR-0002, line 45). A second delivery is
  received like the first one and counts;
- a message never expires by its retention time.

### ScanLifecycle

| State | Code |
|---|---|
| `status[s]` | `scans.status`; `"none"` before the INSERT |
| `used` | `usage_meters.count` of the metric `scans` in the current month |
| `req[r]` | a request in flight: the statement it is about to execute, its scan, and its route |
| `wk[w]` | one queue record in the hands of an invocation: the statement it is about to execute, its scan, and the faults its swarm met |
| `snapshots[s]` | how often score rows were inserted for the scan |
| `patched` | history: the rows a PATCH has overwritten |
| `overrun` | history: the scans whose job turned visible while an invocation held it (`Expire`) |

There is one action per await of the code, since every await lets every other
request and invocation in: `EnforceQuota`, `CountActive`, `InsertScan`,
`Enqueue`, `Bill` for POST; `CancelRead`, `CancelWrite`; `Patch`; `Start`,
`MarkRunning`, `RunSwarm`, `MarkCompleted`, `SnapshotScores`, `EvaluateAlerts`,
`MarkFailed`, `Ack` for the worker. `RequestEnds` is every way a request can
end: the reply, a 400, a failed query or send, the death of the instance.
`OnPremPost` starts an on-prem request, which calls `create` without quota and
billing; `FallBack` is its catch around `create`, which goes on to insert and
send for itself. Both exist when `OnPrem` is TRUE; a request's `route` tells the
three ways apart.
`Throw` is an exception inside the try block, `Crash` the death or timeout of an
invocation, `Release` a failure of `markFailed` or of the deletion itself.
A request that fails to insert or send simply ends: the code undoes nothing.

An invocation takes up to a batch of records, handles them one after the other
and acknowledges them together. Here each record is a worker of its own. Whatever
a batch can do, independent workers can do as well, so a property that holds
here holds of batches. `RunSwarm` is one step: what an agent reads and writes
belongs to other tables, and what it does to the scan is the fault it raises.
A failed agent shows in `agentResults`; an integration whose credential does not
resolve is skipped and does not.

`ScanContract` is the abstract specification: rows are accepted before their
jobs exist, workers move the status only while the job is live, a job is
acknowledged only over a terminal status (or a patched row), and a settled job's
row is touched by users alone. `Overrun` is the one way out of the last two
clauses: once the job has turned visible under an invocation, one that is overtaken may
write the status after the other has acknowledged the job, and make it not terminal
before the acknowledgement. What is left of an overrun scan still says that its row
precedes its job and that no worker cancels. The contract does not protect a cancelled
scan from the worker of a live job: the code does not either. `KeepsContract` states that every step of
`ScanLifecycle` is a step of it, with `visible` and `inflight` mapped to `live`.

### EvidenceChain

`rows` is the table, `call[c]` an execution of `appendToChain`: its attempt, the
signing key of its process, the tail it read, the time it took. `ReadTail` is
the SELECT of the last row and the clock reading that follows it, `Insert` the
INSERT and COMMIT, `Conflict` the 23505 that the unique index raises, `Fail`
everything else. After a conflict the next attempt reads tail *and* clock again;
when the attempts are used up the call is refused. `Insert` can end in `failed`
with its row in place: the reply to the COMMIT was lost. `LoseRow` removes a row
behind the service's back; the history variable `lost` remembers what was lost
and what followed it at the time.

`verifyChain` is the operator `Breaks(entries, key)` over the rows of a range of
dates. Digests are taken to be injective, so the digest of a record is the
record. All instances read one clock (their skew is outside the model), and
instances started before and after a key rotation sign the same chain.

### AuditChain

`logChained` is one transaction: `Begin` fixes `now()` and with it the default of
`created_at`; `LockHead` is the upsert that takes the head's row lock and
reads it, followed by the reading of the API's clock; `InsertEntry` and
`AdvanceHead` (UPDATE and COMMIT) follow; `Rollback` ends a transaction anywhere.
Only committed rows are in `logs`. `LockHolders` has the lock's meaning: at most
one transaction is past `LockHead`. `Orders` are the orders in which
`verifyChain`'s `ORDER BY created_at` may return the rows, `Verifies` is its
walk. Database and API share one clock, which is the case most favourable to
the code; `PunctualChainVerifies` says what is left of `verifyChain` where the two
readings agree. Rows that other code inserts without chain metadata are skipped by
`verifyChain` and left out.

`AppendOnlyLog` is the abstract specification of both ledgers: a log that grows
at its end by one record at a time, each call's at most once, until a row is
lost.

### Remediation

Each operation is `getById`, a check, and an UPDATE by id: `Read` remembers that
the check passed, `Write` writes whatever the row is by then, `Abandon` is a
request that dies in between.

### EvidenceVault

`posted[r]` is how far POST has got, `objects[r]` how many objects S3 holds for
the record, `key[r]` the `s3_object_key` of its row (0 for NULL), `wk[w]` a queue
record in the hands of an invocation. Keys are random in the code; here object
`n` of a record is the `n`-th that was stored for it, which gives them the order
in which they came to be. `overrun` remembers the records whose job turned visible
under an invocation. `Upload` and `Update` are the two awaits of the
handler; `Throw` is an exception or a failed deletion (the worker rethrows, so
the whole batch comes back, finished records included), `Crash` the end of the
invocation. The bucket is under Object Lock: nothing removes an object.

### KeyStore

A Redis key: its value and whether it has a time to live. Each command is
atomic, no two are. `Sessions` and `Billing` assume the real store; the in-memory
stand-in has the same commands and loses everything with its process.

### Sessions

One user. `state[k]` and `family[k]` are the row of refresh token `k`, `req[q]` a
request in flight and the token or link it is about. One action per call:
`Attempt` (INCR), `SetDeadline` (EXPIRE), `Check`, `Issue`, `ClearCounter` (DEL) of
a login; `RefreshRead`, `Rotate`, `Reissue`, or `RevokeFamily` when the token read
was revoked, of a refresh; `Forgot`, `Consume` (DEL of the link's key),
`SetPassword`, `Logout` (deletion of all tokens) of a reset. `End` is every way a
request may stop in between, `TimeOut` the lapse of a key. `closed` records every
family that a reuse or a reset has ended, also one with a refresh in flight, which has read
its token as live and inserts the next one after the end (section 6).

### Billing

One tenant. `event[e]` is what a provider has to say, `handler[h]` a webhook
request. `Mark` and `Dedupe` are the SET NX and its failure, `Resolve` finds the
plan and the amount (reading the tenant's present plan when a renewal names
none), `Provision`, `MarkPastDue` and `Cancel` are the UPDATEs, `Fail` a failure at
any point. The routes of both providers have this shape and are one module;
an amount of money is the plan whose price it is.

`BillingContract` is the abstract specification: an event is claimed, then takes
effect at one instant or is given up, and the effect is what its content says -
a plan is unlocked for its price only, dunning suspends, a deletion falls back to
the free plan. An amount may go unread for a checkout, whose amount is looked up, and
for a renewal that carries none; such an event is put on record (`unchecked`). A
captured payment without an amount, and any event with the wrong one, unlocks
nothing. `Phase` maps the state: an event is `claimed` while a handler is past
`Mark` with it, `done` once its handling ended, `lost` when its marker is set
and nobody is on it. A renewal may write the plan it read a moment ago, so the
contract lets it name any plan the tenant has come by properly (`Backed`).

### TenantPool

`conn[c]` is a pooled connection: who holds it, the role and the tenant of its
session. `req[r]` is a request of `authenticate`: `Reserve`, `BindTenant`, `SetRole`
(or `BindFails`), `ReadPlan`, then queries on `request.db` (`TenantQuery`) and on
`app.db` (`AskPool`, `PoolQuery`), and the hooks: `TakeConnection` clears
`request.rlsConn` before the first await, `Release` resets and returns the
connection, `ReleaseUnreset` returns it when the reset failed. `RESET ALL` takes
back the bound tenant but not the role, which PostgreSQL excludes from it; the
model keeps the role. `Visible` says which tenants' rows a connection shows.

### Monitoring

`sched` is the tenant-wide row (paused or enabled, due or not), `start[j]` the POST
that sends job `j`, `wk[w]` the worker with its up to three attempts within one
delivery. A scheduled scan cannot be created: `ScanService.create` gets
`"monitor-worker"` for `triggered_by`, a uuid column (`db/schema.ts:216`), so
`Fails` covers every creation that is not turned away by the scan limit.
`Elapse` is the end of a cadence. With `Prompt` it waits until no job is on its
way (`OnItsWay`): the cadence is five minutes at least, and a job that a worker is free
for takes less.

## 3 What the runs check

| Run | Instance | Checks |
|---|---|---|
| `scan_safety` | 2 scans, 2 requests, 2 workers, limit 1, quota 1, 1 receive | `JobHasRow`, `LimitOvershootIsBounded`, `QuotaOvershootIsBounded`, `BilledScansWereSent` |
| `scan_live` | 1 scan, 1 request, on-prem ones included, 2 workers, 2 receives, 1 patched scan, fairness | `TypeOK`, `AckedScanIsFinished`, `SnapshotsAreDeliveries`, `KeepsContract`, `JobsSettle`, `RunningEnds` |
| `evidence_chain` | 3 calls, 2 attempts, signed or unsigned, 3 clock readings, 2 lost rows | `PositionsAreDense`, `OneEntryPerCall`, `ExhaustedMeansContention`, `UndamagedLedgerVerifies`, `InnerLossShows`, `KeepsLog` |
| `audit_chain` | 3 calls, 3 clock readings | `ChainIsLinear`, `OneEntryPerCall`, `PunctualChainVerifies`, `KeepsLog` |
| `audit_verify` | as `audit_chain` | violates `UntouchedChainVerifies` (section 6) |
| `remediation` | 2 rows of any tier, 3 requests | `ApprovalGate`, `OutcomeFollowsExecution`, `ReopeningIsBounded` |
| `evidence_vault` | 2 records, 2 workers, 3 receives, fairness | `RowNamesItsObject`, `ObjectsAreDeliveries`, `KeysMoveForward`, `EvidenceIsStored` |
| `sessions` | 3 requests, 3 tokens, 1 reset link, limit 2 | `CounterHasDeadline`, `ResetIsSingleUse` |
| `sessions_reuse` | 2 requests, 2 tokens | violates `ClosedStaysClosed` (section 6) |
| `billing` | 2 events of any content, 2 handlers, 2 deliveries each, 2 plans | `LostOnlyIfInterrupted`, `PlanIsPaid`, `KeepsEventContract` |
| `tenant_pool` | 3 requests, 2 tenants, 2 connections, fairness | `QueriesSeeOwnTenant`, `NoneStranded`, `RequestsEnd` |
| `monitoring_due` | 1 start, 1 worker, no failures, `Prompt`, fairness | violates `DueScheduleServed` (section 6) |

What they show:

- **Scans.** However requests, worker steps, throws, crashes, visibility expiry
  and redrive interleave: a job always has its row; requests that check together
  queue fewer scans beyond the limit, and bill fewer beyond the quota, than there are
  requests; what is billed was sent; a scan has at most as many score sets as its job had deliveries, those to two
  invocations at a time included; and every step is one `ScanContract` allows. A job
  is never acknowledged over a queued or running scan, unless it turned visible
  under an invocation: then the quicker of two may acknowledge it, and the slower mark
  the scan running once more. Under fairness every sent job is acknowledged or
  dead-lettered, and a scan stays `running` for ever only if its job was
  dead-lettered, a PATCH put it there, or the slower of two invocations died after
  the quicker had acknowledged. That a dead-lettered job leaves its scan
  running is what the code does: nothing consumes the dead-letter queue.
- **Evidence.** The unique index and the retry give a dense chain without forks,
  a caller is refused only if as many rivals as it had attempts got in, every
  range of dates of an undamaged ledger verifies up to the entries that other
  keys signed, and a row lost between two others shows as long as a row on each
  side of the gap, written before the loss, is still there. A lost first or last
  row does not show: `verifyChain` compares neighbours only and does not compare
  the first row's `prev_hash` with the genesis hash, so the comment at
  `services/ledger/evidence-chain.ts:431` ("a deleted/inserted row shows up as a
  continuity break") is true of inner rows.
- **Audit.** The lock serialises appends through rollbacks and lost replies. Where
  every `created_at` is the timestamp that was hashed and no two are equal, an
  untouched chain verifies, also when transactions took the lock in another order
  than they began.
- **Remediation.** Stale writes can overwrite newer ones and reopen a row that
  has run, but no interleaving lets an `approval` or `manual` row run without an
  approval, records an outcome of what never ran, or reopens a row more often
  than there were requests that had read it as pending.

- **Evidence vault.** A retry stores the content again and moves the row on to the
  new object; the earlier one stays without a row, once per delivery at most.
  No row names an object that is not there. A row moves back to an older object only
  when its job turned visible under an invocation: a slow one then writes after the one
  that retried its job, and both are in the run. Queued evidence ends in the vault or in the dead-letter queue.
- **Sessions.** The deadline of the attempt counter survives every overtaking of
  INCR, EXPIRE, DEL and lapse; only an EXPIRE that is lost leaves a counter for
  good: a request that dies between INCR and EXPIRE is such a loss. A token inserted
  late does revive a family, which is the run `sessions_reuse`.
- **Billing.** The marker makes handling at-most-once, and the overlapping steps of
  the handlers add up to events that each take effect at one instant. It is never taken back, so
  an event whose handler fails after it is lost: the retry is answered with
  "already processed". The property states that this is the *only* way to lose
  one.
- **Tenant pool.** However binds and resets fail, `request.db` never shows rows of
  another tenant: the connection is rebound before it is used. A failed bind, a failed
  reset or an error takes no connection away from those who wait. Requests do wait
  for ever once each connection is held by a request that waits for a
  second one through `app.db` (`Starved`). The run has that state, for it has more
  requests than connections, and without the exception TLC reports it; the code
  meets it with ten such requests on its ten connections.

### Bounds, and why they are enough

- **Two scans, requests and workers** are the least with which two POSTs race on
  the limit and the quota, a cancel meets a worker,
  and one scan's fate could leak into another's. With the limit and the quota at
  1 instead of 3 and the plan's number the second scan already meets them.
- **One scan in `scan_live`, with two workers**: its questions are about one job and
  its row. Two workers overlap on it when visibility lapses. What two requests do to
  the limit and the quota is left to `scan_safety`.
- **`MaxReceive` 2 in `scan_live`** instead of 3 (`queues.ts:24`): a first delivery, a
  redelivery over a row that a dead run left or beside a living one, and the
  dead-letter queue. **1 in `scan_safety`**: a redelivery changes neither the limit's
  count of queued scans nor the meter, so crashes lead to the dead-letter queue at once.
- **`MaxPatched`**: 0 in `scan_safety`, where a PATCH would only excuse states,
  1 in `scan_live`.
- **`MaxAttempts` 2** instead of 5, with three calls: the last call can lose
  twice and is refused; a retry that succeeds exists as well.
- **Clock readings 0..2**: a tick before, between and after the reads of two
  calls. **`MaxLost` 2**: a loss inside the gap of another one.
- **Three audit calls**: one holds the lock, one waits, one has rolled back.
- **Three receives in `evidence_vault`**, the number of `queues.ts:36`, with two
  workers: an invocation may hang behind the one that retries its job, write
  after it, and be followed by a third.
- **Three requests and tokens in `sessions`**: a refresh, the reuse of its token
  and a reset at once. `Limit` 2 and `MaxCount` 3 instead of 5: a counter that
  admits, locks and is cleared. `MaxCount` is a bound on `Attempt`. Two requests and
  two tokens suffice for `sessions_reuse`: a rotation and the reuse of its token.
- **Two events, two deliveries, two handlers** (`MaxDeliveries`): a retry beside
  the first delivery of one event while the other overtakes both. A renewal that a
  deletion overtakes after a payment takes three events; `PlansArePaid` covers any number.
- **Two connections for three requests** (`MaxQueries` 1): two requests can starve each
  other, a third one waits meanwhile, and connections pass from one tenant to
  the other.
- **One start in `monitoring_due`**, without failures and with `Prompt`: more jobs,
  failures or a shorter cadence only add behaviours.
- The theorems of section 5 hold for every value of these constants.

Calls, requests, workers and scans are interchangeable, so the safety runs use
them as symmetric model values; the runs that check liveness use no symmetry.
Deadlock is not checked: when all scans exist and all calls have returned the
modelled system rests.

## 4 Fairness

`FairSpec` (`scan_live`, `evidence_vault`, `monitoring_due` and `tenant_pool` use it)
assumes weak fairness of

- each open request: it has a next statement or ends; nothing is assumed of
  *starting* one, so no user has to do anything;
- each invocation's next step, crashes and throws included: an invocation
  advances or dies, because the Lambda timeout ends it after 15 minutes;
- delivery of each deliverable message to a free worker, of the visibility
  timeout and of redrive: what SQS promises.

It is not assumed that an invocation ever succeeds: a job may crash until it is
dead-lettered. PATCH and cancel are unfair, and so is the start of anything.
`monitoring_due` also lets time pass (`Elapse`) and a POST go on, which only makes
its counterexample stronger. `tenant_pool` assumes weak fairness of each request's
next step (`GoesOn`), for queries end and a handler's number of queries is finite, and
strong fairness of getting a connection, for postgres.js serves those who wait in
the order of their asking. It assumes nothing of `Throw`: nobody who waits for a
connection is ever turned away. The server process
(`index.ts`) serves many requests at a time; behind Lambda each process serves
one, and the pool is never contended.

## 5 What is proved

Type correctness is a theorem of all eight modules and a checked invariant of
`scan_live` only. The eight `_proofs` modules hold theorems for every value of the constants,
from the named assumptions in the modules (`MaxReceive` and `MaxAttempts` are
positive, `Requests` and `Calls` are finite, the "nothing" values are not
members). All were first checked by the runs above. The queue they assume is that of
section 2: visibility may lapse under a living invocation at any time.

**ScanLifecycle_proofs.** `TypeCorrect`, `JobsHaveRows`, `AckFinishes`,
`ScansKeepContract`, `ScoresFollowDeliveries`, `LimitNearlyKept`, `OvershootBounded`
and `BilledWereSent`. The inductive invariant is a stack:

- `RowInv`: besides `JobHasRow`, a request between INSERT and billing and every
  busy worker hold a scan whose row exists, and a busy worker's message was
  sent. Without it `Enqueue` could send a message for a missing row.
- `HoldInv`: as long as a scan's job has never turned visible under an invocation
  (`overrun`), its message is in flight while an invocation holds it, and no other
  invocation does.
- `FinishInv`: a worker past `markCompleted` or `markFailed`, and an acknowledged job,
  have a finished scan or an overrun one. Cancelling keeps a scan finished; only the
  `markRunning` of a second worker could undo it, and by `HoldInv` there is none
  unless the job was overrun.
- `ScoreInv`: the score sets of a scan and the invocations that still owe theirs
  (`Owing`) are together at most the deliveries of its job, for any number of
  invocations at a time.
- `LimitInv`: the queued scans and the requests admitted and not yet inserted are
  together fewer than the limit and the requests. A request is admitted below
  the limit, when at most the other requests are admitted already; what
  follows moves one from the second number to the first.
- `MeterInv`: the quota bound counted over all requests that passed the check,
  and `used` plus the requests about to bill bounded by the scans sent.

The refinement maps each step to one of `ScanContract` or a stutter; it rests on
`RowInv`, `HoldInv` and `FinishInv`.

**EvidenceChain_proofs.** `TypeCorrect`, `PositionsDense`,
`ExhaustedOnlyByContention`, `UndamagedVerifies`, `OneEntryEach`,
`InnerLossIsSeen`, `LedgerKeepsLog`.
`ChainInv` says of an undamaged ledger that positions are dense, neighbours
link and times grow with positions; that what a call is about to insert continues
a row that is there (`GuessInv`), so that an insert at a free position is an
insert at the end (`FreeGuessIsNext`); and that a call's attempt is at most
the position it claims (`AttemptInv`), which bounds refusals. That times grow
with positions makes every range of dates contiguous, and that is why verifying
a range finds no break. Once rows are lost none of that holds, and `LossInv` takes
over: it follows orphans, rows whose predecessor is gone. The first row
above a lost one is an orphan (`RemovalOrphans`), whatever else was lost before; an
orphan stays one, since a digest holds its call and a call that has an entry inserts
no other; and an orphan with any row below it is a break (`OrphanBreaks`).

**AuditChain_proofs.** `TypeCorrect`, `ChainLinear`, `OneEntryEach`,
`PunctualVerifies`, `ChainKeepsLog`. `LockInv`: at most one call holds the lock, and what it has read
is still the head. `LinearInv`: the chain is linear and has as many rows as the
head counts. `StampInv`: timestamps grow with sequence numbers, because both are read
under the lock. So where the column is the hashed timestamp and no two are equal,
ordering by it is a growing permutation of 1..n, which is the identity
(`GrowingIsIdentity`, by a least counterexample): `verifyChain` walks the rows in the
order of their links.

**Remediation_proofs.** `TypeCorrect`, `ApprovalGateHolds`, `OutcomeHolds`,
`ReopeningBounded`. The invariants extend each property to what a request has
checked and not yet written: a pending `execute` of a row that is not `auto`
is for an approved row, because approval is never withdrawn.

**EvidenceVault_proofs.** `TypeCorrect`, `RowsNameObjects`, `ObjectsBounded`,
`KeysForward` and, for a configured worker, `AckedAreStored`. The worker's object is
stored before it is written into the row. `CountInv`: the objects of a record and the
workers that have yet to upload are together at most the deliveries of its job, two
overlapping invocations included. `LatestInv`: the object that an invocation is about
to write is the last one stored, so never older than the row's key, unless the job
turned visible under an invocation; from then on a second one stores a later object, and
the slower of the two may write last.

**Sessions_proofs.** `TypeCorrect`, `DeadlineHolds`, `ResetOnce`.
A link is either unused and unclaimed, or claimed by one request, or used once;
its key is gone from the claim on. A counter without a deadline has a request about to
set one, or `lost` is set.

**Billing_proofs.** `TypeCorrect`, `OnceHandled`, `LossNeedsInterruption`,
`PlansArePaid`, `EventsKeepContract`. A marked event has at most one handler past `Mark`, and none
once it is handled; an unmarked one has none at all. The plan a handler carries
is paid, or will be by this handling, because a renewal without a plan carries
the tenant's, which was paid when it was read, and what was paid stays paid. The refinement
adds `SoldInv`, which relates what a handler carries to the content of its event:
each handler step is a step of `BillingContract` (`Mark` is `Claim`, the UPDATEs are
the effects, `Fail` past the marker is `Lose`) or changes nothing that it sees.
`OnceHandled` follows from the contract as well and is the shorter statement.

**TenantPool_proofs.** `TypeCorrect`, `OwnRowsOnly`, `NothingIsStranded`. A connection
has one holder; a request whose `rlsConn` is set holds it, with its tenant bound and
the role `app_user`; and two requests never refer to one connection. Conversely a
connection that is held is the one its holder has in hand (`HeldInv`). The theorems
hold of any pool and any number of requests; that every request ends does not.

**Only model-checked:** `JobsSettle`, `RunningEnds`, `EvidenceIsStored` and
`RequestsEnd` (liveness under fairness is out of the prover's reach),
and the three violations.

## 6 Where code and documents disagree

Each is a run that TLC ends with a counterexample.

- `audit_verify`: `verifyChain` recomputes an entry's hash from `created_at`, the
  time of BEGIN, while the hash was made from a later reading of the API's clock,
  and it orders by `created_at` although transactions may take the lock in another
  order than they began: an untouched chain is reported as tampered with.
- `sessions_reuse`: a refresh reads its token, revokes it and inserts the next one in
  three statements. When the revoked token is presented again in between, the
  answer is "Refresh token reuse detected — all sessions revoked"
  (`routes/auth.ts:281`), and the insert that follows gives the revoked family a
  live token.
- `monitoring_due`: "The poller (workers/poller-monitor.ts) re-derives due work from
  next_run_at, so the schedule survives a worker restart even if the in-flight
  SQS message is lost" (`routes/drift.ts:115-117`). Nothing polls: the worker looks
  for due schedules when a job of `/start` reaches it. In the counterexample it reads
  the schedule while it is not due and the job is deleted; then the cadence runs
  out, and the schedule stays due.

Seen while modelling, and not stated as a run:

- The active count and the INSERT it guards are separate statements
  (`services/scan-service.ts:86` and `:156`), so concurrent POSTs exceed "Max concurrent
  scans per tenant" (`services/scan-service.ts:14`). `LimitOvershootIsBounded` says by how
  much they do: no more scans are queued or about to be than the limit
  and all but one of the requests. Running scans have no such bound: a worker that
  marks a cancelled scan running is not counted by anybody.
- A scan whose SendMessage fails after its INSERT stays queued without a job and
  counts against the limit (`services/scan-service.ts:209`), against "can't lose
  or leak jobs" (`src/docs/adr/0002-queue-architecture.md:11`).
- An on-prem POST whose SendMessage fails falls back although its row is in, and
  inserts a second one (`routes/onprem.ts:117`). `scan_live` has the step back, and no second row for it.
- Each delivery inserts another set of scores
  (`services/compliance-service.ts:281`), and another object in the vault, against
  "every worker must be idempotent" (ADR-0002, line 45). `SnapshotsAreDeliveries` and
  `ObjectsAreDeliveries` bound them. Where two invocations overlap, the slower one also moves
  the evidence row back to its older object, and may leave a scan running whose job
  the other has acknowledged: the exceptions of `KeysMoveForward`,
  `AckedScanIsFinished` and `RunningEnds`, all of which the runs reach.
- A scan whose only fault is a credential that did not resolve ends as
  `completed`, against the comment at `agents/swarm-orchestrator.ts:191`.
- `createEvidenceSchema` does not keep `content`, so a POSTed record is always
  `metadata-only`, and the worker updates the digest without updating
  `hash_source`: verification of an untouched object answers `valid: false`
  (`services/evidence-service.ts:284`). "Immutable after upload" holds of objects;
  the row's key moves on when a job is redelivered.
- A lost billing event is answered and logged as "already processed"; `mrr_cents`
  stays after a cancellation, where `routes/payments-stripe.ts:207` says churn is
  recognised; a renewal that is delivered after the deletion activates the
  subscription again, for events are not ordered.
- `RESET ALL` does not undo `SET ROLE`, where `app.ts:197` says it does: later queries
  of `app.db` on that connection run as `app_user` without a tenant and see
  nothing.
- `routes/agent.ts:414` calls a service that opens a transaction on `request.db`,
  which `db/connection.ts:37` says is not supported, after it has inserted a
  running scan.
- As many requests as pooled connections can wait on each other: the exception
  `Starved` of `RequestsEnd` (section 3).

## 7 What is not modelled, and why

- **Within modelled components.** The progress column and its fire-and-forget
  updates; reads and listings; credential envelopes; the roll-over of a billing
  month; scores as numbers; the certificate and the audit export, which only
  read; scans that the monitor creates.
- **Scan agents, AI worker, assistants, reports, mappings, encryption, privacy
  and OT gates.** Stateless calls or data transformations: no order of steps to
  get wrong.
- **Audit chain.** The `.limit(10000)` of `verifyChain`
  (`services/audit-chain-service.ts:241`): the chains here are shorter.
- **Evidence vault.** Digests and their sources, the verify and download routes,
  audit bundles.
- **Sessions.** The counter of MFA attempts, SSO protocols, signatures, access
  tokens (they expire by themselves), API keys; a login with the old password
  that is in flight during a reset.
- **Billing.** Checkout and order creation, `POST /api/payments/verify` (which writes
  the plan its body names: `PlanIsPaid` speaks of webhooks), the portal; a
  deployment without Redis, where nothing is deduplicated; events without an id.
- **Tenant pool.** The audit hook, which writes on `app.db` after the release;
  background jobs; the agents' fire-and-forget liveness bump.
- **Monitoring.** Drift and health checks, schedules of one integration.
- **Provisioning and tenant features.** Single inserts and updates by id.
- **HELIX workflow engine.** Instantiated nowhere. **Legacy BullMQ worker.**
  Nothing produces to it (ADR-0002).
- **Findings.** `createFromAgent` is one transaction with an upsert on the unique
  index, which leaves no interleaving to check; `deduplicateFindings` has no caller.
- **Alerts, incidents, CERT-In clocks.** Alerts are dispatched once per call and
  their failures swallowed; the SLA register lives in the memory of one process,
  and nothing connects its database or calls its check.
- **Rate limiting.** `rateLimitConsume` is INCR and EXPIRE like the login counter.
- **Most of the rest of the source** is tables of controls, prompt and report text,
  listings and single-row CRUD routes: no order of steps to get wrong.

## 8 Plan

In the order in which they matter; all but the last are done.

1. Scan lifecycle with its on-prem routes, queue, metering; contract, liveness,
   proofs.
2. Evidence ledger and audit chain; log refinement, proofs.
3. Remediation approvals; proofs.
4. Evidence vault; liveness, proofs.
5. Sessions on `KeyStore`; proofs.
6. Billing on `KeyStore`; proofs.
7. Tenant pool; liveness, proofs.
8. Monitoring schedules; the violation.
9. Overlapping invocations in scans and evidence: the contract weakened to what
   survives them; proofs of it and of the counting bounds.
10. *Left:* the MFA counter and password change in `Sessions`, the audit hook in
    `TenantPool`.
