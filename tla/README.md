# docs-pe: a TLA+ development

The repository turns document numbers (RUC, DNI, telephone numbers) into
site-specific results. `packages/core` is the lookup engine: it drives sites
through proxy sessions. `packages/cli` runs it unattended over a CSV, with a
SQLite file of outcomes. `packages/portal` runs it for teams: a web
application takes submissions, a fleet of workers claims and publishes the
lookups through PostgreSQL. `packages/browser` and `packages/capture` reach the
sites that plain HTTP cannot. `ops/deploy.py` deploys the portal.

This directory holds TLA+ models of that code, the TLC runs that check them on
small instances, and TLAPS proofs of what matters most for every instance.

    tlc -config MCStandaloneRun.cfg MCStandaloneRun      a run
    tlapm StandaloneRunProofs.tla                        a proof module

## 1. Inventory

Paths are under `src/packages/`. `PROJECT.json` lists every part with its files,
its modules and how far it is modelled ("components"), and every place that is
hard to test, with its line and the properties about it ("hazards").

| Part | State it keeps | Operations | Interacts with |
| --- | --- | --- | --- |
| Job queue (`portal/repository/jobs.py`, `migrations/001_portal.sql`) | `portal_jobs`, `portal_job_items`, `portal_job_events`, outbox rows, the gate row `portal_queue_control` | `admit_submission`, `cancel`, `claim`, `claim_many`, `publish`, and inside them sweep, drain and promote | service (submits, cancels), agents (claim), worker API (publish) |
| Entry store (`repository/entries.py`) | `portal_entries`, one row per (document, source) | upsert in `publish`; `reusable_for_team`, search | queue, service |
| Fleet breaker (`repository/breakers.py`) | `portal_circuit_breakers` per (source, provider) | `record_outcome`; read by the claim queries | worker API, queue |
| Worker agent (`worker/agent.py`) | lanes with a session, a proxy slot, an inbox; credential cache; idle counters | dispatch, lane loop, heartbeat, listen, enrol | queue, slots, worker API |
| Proxy slots (`repository/slots.py`) | `portal_proxy_slots` with an owner and an expiry | claim, renew, release | agents |
| Worker API, identities (`worker/routes.py`, `repository/workers.py`) | `portal_workers`, database roles | enrol, reveal, publish, slots, revoke | all repositories, admin |
| Notification outbox (`notify/dispatch.py`) | `portal_notification_outbox` | claim one due mail, send, record | queue (writes intents), mail provider |
| Sessions, tokens, login (`application/sessions.py`, `login.py`, `throttle.py`, `ephemeral.py`) | JSON and counters under keys with deadlines | mint, load, destroy, step-up; issue, take; attempt, complete_mfa | web, accounts |
| Accounts, teams, invites, factors (`application/provisioning.py`, `repository/auth.py`, `teams.py`) | `portal_users`, factors, memberships, invites | enrol and remove factors, promote, demote, redeem, deactivate, delete | sessions, keys |
| Team credentials (`repository/credentials.py`) | connections and their versions | validate, activate, supersede, retire, rename | service, worker API |
| Master keys (`credentials/masterkey.py`, `admin/keys.py`, `admin/rewrap.py`) | key file; wrapped data keys in rows | rotate, rewrap, wrap, unwrap | credentials, factors, deploy |
| Progress stream (`web/routes/jobs.py`) | what one stream has sent | poll, send, close | queue, browser |
| Fetch engine (`core/pipeline/*.py`, `core/domain/policy.py`) | a lane's session; a breaker per site and provider | `fetch_one`, session open/rotate/close, breaker success/failure | agents, standalone lanes, proxies |
| Standalone runs (`cli/pipeline/*.py`, `cli/store/*.py`) | SQLite: outcomes, runs, breaker snapshots; CSV exports | run, resume, export, import | fetch engine |
| Sharded jobs (`cli/fleet.py`) | manifest and one database per shard | plan, status, merge | standalone runs |
| Browser driver (`browser/run.py`, `store.py`) | index into the subjects, observations | run, restart, reject, export | sites |
| Capture relay (`capture/relay.py`, `sites/*/capture.js`) | current subject, observations | serve, record, export | operator's browser |
| Deployment (`ops/deploy.py`) | objects of a Dokploy server | deploy, rotate-key, remove-worker | keys, workers |

What makes each of them correct, and what makes that hard:

- **Queue.** At most five jobs run; no place is empty while a job waits; jobs
  start in submission order; a job ends once, in the state its items justify,
  and then never changes; every admitted job ends. Hard because admission,
  cancellation, sweeps, claims and publishes of several processes overlap, and
  every transaction that frees a place has to promote for itself.
- **Agents and slots.** A slot has one owner; a lane does not use a slot it
  lost; slots come back. Hard because leases run out on the database's clock
  while the lane runs on its own, and replies get lost.
- **Outbox.** A row is mailed once unless an acceptance got lost or came late. Hard because
  the send is outside of every transaction.
- **Sessions, tokens, throttles.** An ended session stays ended, a token is
  spent once, failures are bounded. Hard because every request reads first and
  writes later.
- **Accounts and teams.** An administrator has a second factor, a team a leader,
  an installation an administrator. Hard because each request decides on what
  it read in an earlier transaction.
- **Credentials and keys.** One active version per connection at most; every
  stored secret names a key that exists. Hard because of work outside of
  transactions (a preflight, a deployment) that dies or overlaps.
- **Fetch engine and standalone runs.** A document is charged what it cost, an
  answer is never lost or replaced by a worse one, the breaker survives
  relaunches, every run ends. Hard because of signals at any await, lanes that
  share a breaker, and documents that come twice.
- **Shards, browser, capture.** What reports success is complete.

## 2. Modules and the order they were written in

    FifoAdmission <= JobQueue <- JobQueueProofs, MCJobQueue
    FifoAdmission <= QueueTransactions <- QueueTransactionsProofs, MCQueueTransactions
    WorkerLanes <- WorkerLanesProofs, MCWorkerLanes
    OutcomeTable <= StandaloneRun <- StandaloneRunProofs, MCStandaloneRun
    PortalAccounts <- PortalAccountsProofs, MCPortalAccounts
    PortalSessions, KeyRotation, ProxyCredentials, WorkerRemoval,
    NotificationOutbox, BrowserRun, CaptureRelay, JobProgress, ShardMerge
        <- Components (side by side) <- MCComponents
                                     <- PortalProofs, SecretsProofs, ClientProofs
    KeyRotation <- MCKeyRotation

`A <= B`: B implements A under a refinement mapping. `A <- B`: B extends or
instantiates A. The queue and the fleet came first because everything a team
pays for passes through them; then the unattended run; then accounts; then the
components with less state. Each mutated operator next to an action
(`BreakerFailureUnsaved`, `TakeByReading`, ...) is that action with a plausible
bug; a property is kept only if one of them breaks it.

A step of a model is what the code does between two points where something else
can happen: one transaction of PostgreSQL (one statement in `QueueTransactions`),
one statement of the ephemeral store, one stretch between two awaits of asyncio,
one call of the deployment tool to its server.

### JobQueue, FifoAdmission

`JobQueue.tla` takes every committed transaction of `jobs.py` as one step.

| Variable | Columns |
| --- | --- |
| `job`, `seq`, `fence` | `portal_jobs.state`, `queue_sequence`, `lease_fence` |
| `item`, `lease`, `attempts` | `portal_job_items.state`, the three lease columns, `attempts` |
| `entry` | `portal_entries.status` |
| `ledger` | the items with rows in `portal_lookup_attempts` |
| `log`, `outbox` | `portal_job_events` and the intents of a job, in order |
| `open` | the (source, provider) pairs whose fleet breaker is open |
| `requests` | submissions between the read of reusable answers and the admission |
| `held` | claimed work in the memory of workers |

Actions: `Submit` and `Admit` (`PortalService._admit`, `admit_submission`),
`Cancel`, `ClaimMany` (the sweep, the drain, the promotion and both claim
queries, in the code's order), `Publish` (the upsert and the attempt rows
whether or not the claim is current, then the fenced transition, the drain and
the promotion), `Abandon` (a lane error or a crash), `LeaseExpires` and
`BreakerCloses` (time). `CloseAndPromote` is what every transaction that ends a
job does last. Abstracted: payloads, quotas, notification channels (an
announcement is one round of intents), the clock, and the failure count of the
fleet breaker (a failed publish may or may not open its pair).

`FifoAdmission.tla` is the promise: places and a line, nobody overtakes, no
place is free while somebody waits. `JobQueue` implements it with

    waiting <- queued jobs          running <- running jobs
    ahead   <- seq order on them    ended   <- terminal jobs

### QueueTransactions

Splits the four writing transactions into the statements PostgreSQL interleaves
at READ COMMITTED, with the locks they take: the gate row, `FOR UPDATE` of a job,
the `KEY SHARE` that an entry's foreign key takes, row locks of written jobs and
items, `SKIP LOCKED`. A session may abort at any point (a deadlock's victim, a
lost connection). It shows that serial transactions, the assumption of
`JobQueue`, are what the gate and the fences buy, except in one place
(finding 1): the committed rows, whatever statements overlap, implement
`FifoAdmission` too, with a cancelled waiting job leaving the line.

### WorkerLanes

The agent and the slot table; each action runs from one `await` to the next, so
lanes, the dispatch loop and the heartbeat interleave as asyncio tasks do, and
workers as processes.

| Variable | Code |
| --- | --- |
| `row` | `portal_proxy_slots`: owner, lane, and whether the lease has run out |
| `pc`, `after` | where the coroutine of a lane stands, and where it goes on after `_close_and_release` |
| `inbox`, `work` | the lane's queue of size one; the claimed work in its hands |
| `key`, `provider`, `session`, `held`, `polls` | the fields of `LaneSession` |
| `idle`, `batch` | `_idle_lanes`; the copy of it a dispatch round works on |
| `unsure` | history: lanes whose lease lapsed, whose release was committed without their learning of it, or whose slot a lane of their worker released again (`Robbed`) |

`Take`, `CloseSession`, `ReleaseSlot` or `ReleaseFails`, `Reveal` and
`ClaimSlot` are `_adopt` between its awaits; `Fetch` stands for whatever
`fetch_one` does to the session; `Finish` and `LaneFails` end a pass of the loop.
`Stop` is the cancellation of `run_with`; `Crash` is a process that is killed,
and `Start` another one with the same id. Work itself is `JobQueue`'s: a claim
may bring any key of the sources its worker serves. The heartbeat is one step; a row that changed hands after the
list of held slots was made is not renewed, as `_RENEW` compares the owner.

### StandaloneRun, OutcomeTable

One site and one provider. `row` is the outcomes table (status and
`attempt_count`), `saved` the persisted breaker, `exported` the CSV files, and
`dirty` the rows as the run's own connection sees them when a signal struck
between an upsert and its COMMIT (`_transaction` rolls back for an Exception,
not for a cancellation). `queue` is the set of input rows still in the asyncio
queue, which hands out the `First`, so that a document that comes twice is two
rows. `queue`, `breaker`, and per lane `pc`, `doc`, `attempt`,
`session`, `uses`, `answer` are the memory of the process.

| Action | Code |
| --- | --- |
| `StartRun` | `run()`: `start_run`, import of an earlier export, `done_pairs`, `plan_pending`, breaker snapshots, the lanes |
| `Take`, `Pass`, `OpenSession`, `Answer`, `Fault`, `Retry`, `Record`, `CloseSession` | `run_worker` and `fetch_one` from await to await; `Record` is one of the three upserts |
| `CooldownEnds` | time, seen by `breaker.acquire` |
| `Interrupt`, `InterruptInWrite` | SIGTERM or an error that cancels the lanes, at an await or inside a write |
| `EndLanes`, `Export` | the end of the task group; the three files, one at a time, in the `finally` |
| `Kill` | the process is gone; the file keeps what was committed |

`OutcomeTable` is the promise of `docs/architecture.md` about a state file: an
answer is final except that a real one replaces "not found", failures add up by
whole lookups, and nothing else changes a row. The mapping is `table <- row`.

### PortalAccounts

`user` (rows of `portal_users` with TOTP), `passkeys`, `role` (memberships of one
team), `invite` (by address), `requests`: what was read and not written yet, and
`open`: transactions that were checked and have not committed.
`Ask...` actions read (`_guard_account_removal`, the session's account, the
pending promotion); every other action belongs to the later transaction of one
request, with the deferred triggers of `001_portal.sql` as its conditions
(`FactorKept`, `AdminKept`, `LeaderKept`, each exactly where its trigger fires)
and foreign keys as `Referenced`. `Redeem...` are the three transactions of
`redeem_invite`. `GiveUp` is a refused check or a process that died.

A transaction that updates an account, or removes a passkey, takes two steps,
because its triggers look at other rows as they are committed: it is checked
(`Begin`, `RemovePasskey`), and then `Commit` or `Abort`. In between nobody sees
what it wrote and it keeps its locks: the account's row if it updates it, or if
its removal of a passkey found an administrator there (`FactorLock`, the
`FOR UPDATE` of the trigger, which matches an administrator only), and the
installation's row if administrators were counted. `raced` remembers the accounts
whose promotion and whose unlocked removal missed each other.

### PortalSessions

The ephemeral store is `session`, `pending` and `fails`, a row with its deadline;
a deleted and an expired row answer alike. `request` holds what a request read
between its statements. `LoadRead`, `LoadExtend`, `LoadUser` are
`BrowserSessions.load`; `MarkRead`, `MarkWrite` the step-up stamp; `Attempt`,
`Allows`, `Verify`, `CountFailure`, `ClearFailures`, `Issue` a password login;
`SpendPending`, `CheckCode` its second factor; `Serve` a page, a logout or the
start of a step-up. `Tick` is the clock with the sweep.

### ProxyCredentials, KeyRotation, WorkerRemoval

`ProxyCredentials`: `StartValidation` and `FinishValidation` are the two
transactions of `configure_proxy` with the preflight between them;
`CheckCredential` and `Admit` the two of a submission.

`KeyRotation`: `command` is where `rotate_key` of `ops/deploy.py` stands
(compose update, deployment, wait, rewrap); `RunInit` is the init service that
prepends the key; `Recreate` and `Restart` load the file into a process;
`Protect` and `Store` seal a secret and write it later; `StartRewrap` lists rows
and `RewrapRow` writes them one by one. `Die` and `DeploymentFails` may happen at
every point.

`WorkerRemoval`: the agent asks to enrol while its compose runs, and worker-api
serves that in two statements (`EnrollIdentity`, `EnrollRole`) whatever becomes of
the agent meanwhile; the calls of `remove_worker` one by one, with the
revocation's own statements (`RevokeIdentity`, `RevokeRole`). A revocation may go
on after its tool died, and one that is recorded as done is skipped. `unsettled`
is history: whether the worker may have been issued something since the last
revocation began.

### NotificationOutbox, JobProgress

`NotificationOutbox`: rows, dispatchers, and ticks of the database's clock.
`Send` has all four outcomes of a request whose answer may be lost;
`RecordOutcome` writes by row id, as the code does; `MinutePasses` does not let
the call to the mail provider outlast `SendTime`, which is what the timeouts of
httpx ensure. Nothing bounds the write of the outcome: it may come after the
lease, over what another dispatcher wrote, and `unsure` then names the row.

`JobProgress`: the generator `_progress_events` statement by statement, the page
that loaded before it, the EventSource that reconnects with its last event id,
and a job that moves on meanwhile.

### BrowserRun, CaptureRelay, ShardMerge

`BrowserRun`: `left` is `subjects[index:]`; `OnSuccess`, `OnReject`, `OnFailure` and
`Broken` are the driver's reactions with its counters; `blank` are the subjects
whose final answer holds no data, which a site projects to no row
(`sites/base.py:27`); `Export` ends in one rename and gives the exit code. `CaptureRelay`: `GetNext` and `PostResult` are
the two requests, `Lookup`, `RunClients`, `TabCloses` the script of a tab.
`ShardMerge`: shards go on recording while `ReadShard` reads them one after
another; `Check`, `RecordSnapshot`, `Written`, `ExportSite` are the merge, killed
anywhere; `ClearDestination` is the operator's.

## 3. Runs

| Run | Instance | Shows |
| --- | --- | --- |
| `queue_fifo` | 4 jobs of one item, 2 places, 1 worker, 1 lease attempt | no idle place, one announcement, finality, refinement of `FifoAdmission`, and with it the order of starts |
| `queue_reuse` | 2 jobs of up to 2 items, 1 place, 2 workers, batches of 2 | the inductive invariant `QueueInv`; observations survive stale fences; published stays published |
| `queue_live` | 2 jobs of one item, 1 place, 2 workers, 2 lease attempts | items are handed out boundedly; reassignment to another worker fences the first; every admitted job ends |
| `queue_tx` | 3 jobs of 2 items, 1 place, 2 connections | statement by statement: the limit, no idle place in what is committed, one announcement, nothing live in an ended job, refinement of `FifoAdmission` |
| `queue_tx_drain` | 1 job of 2 items, 2 connections | finding 1 |
| `lanes` | a worker of 2 lanes that serves one key, a worker of 1 lane that serves a key of each provider, 1 slot; leases lapse, replies are lost, releases are repeated | a lane loses its slot only in the three ways that `unsure` names, and never to another worker's release; no two other lanes use the same slot; sessions stay on the held slot; no dispatch round puts work into a full inbox; a slot that nobody remembers returns |
| `lanes_idle` | 1 lane, 1 slot, nothing lost | finding 2 |
| `standalone` | 2 lanes, 2 launches, one document that comes twice, 2 attempts per lookup, cap 3, threshold 2, budget 2 | charges are earned, the cap, nothing planned is lost, the breaker survives, refinement of `OutcomeTable`, every run ends |
| `accounts` | 2 accounts, 2 passkeys, 2 requests or open transactions, 1 invite per address | administrators have a factor, but for the promotions in `raced`; the team a leader; overlapping demotions leave an administrator unless an account is deleted |
| `accounts_last_admin` | the same | finding 3 |
| `components` | the nine smaller modules side by side, one of them moving in a behaviour | their properties, see below |
| `keys_rerun` | 2 secrets, 3 key versions | finding 4 |

Of `components`: an ended session is never written back (`EndedStaysEnded`), a
pending token gives one look at a code (`OneGuessPerToken`), failures exceed the
limit by at most the attempts under way (`FailuresBounded`); a rotation that
finished, with its key installed, left nothing under another one
(`FinishedMeansRotated`); `CredentialsHold`; a removed worker keeps neither
identity nor login unless something was issued to it after its revocation began
(`RemovedIsRevoked`); a row whose outcome was written in time is mailed once
(`MailedOnce`); exit code 0 of the browser client means a final answer for every
subject and a file of those that hold data (`SuccessMeansAllHeld`), and of the
relay a whole output file (`CapturedInTurn`); a page that was told the job is done
shows its outcome (`DoneShowsOutcome`); exports of a merge stand beside a
complete database (`MergedIsWhole`). These modules share no state in the code
(what they read of one another is part of each: the queue in `JobProgress`, the
account's state in `PortalSessions`), so `Components` does not interleave them:
it saves runs and claims nothing about their interaction. It declares the
constants of all of them once, with named assumptions that say what the code sees
to, and it is what the proofs of section 4 are about; `MCComponents` only adds
the symmetry of its requests.

### Bounds, and why they are enough

- Queue: the rules compare a count with a limit and order two jobs at a time, so
  two places with two waiting jobs show every case of counting and overtaking;
  two items separate "the last one" from "one of them"; two lease attempts
  separate the first expiry from the last. Two connections are every pair of
  overlapping transactions.
- Lanes: one slot and three claimants is contention with a lane of the same
  worker, which no statement tells apart, and with a lane of another one, at the
  same time. The code runs 25 lanes in a worker (`agent.py:56`); what a lane does
  depends on the row of its slot and on whether the owner is itself, its own
  worker or another, so two lanes are the first case of each, and the proofs of
  section 4 are for any number. One key per provider makes every change of
  provider and every return to it. `PollCap` bounds the counted idle polls: at 0
  in `lanes`, because the count never changes what a lane does
  (`NoLaneClosesIdle`), and at the limit in `lanes_idle`, which is about it.
- Standalone: a document twice in the queue lets two lanes work on the same row,
  which is the only way two lanes meet there; two launches are a run and a
  resumed one; cap 3 with 2 attempts is a cap that a lookup crosses in its
  middle; threshold 2 opens the breaker in one lookup or across two lanes.
  `MaxRuns` is a bound of the model only.
- Accounts: every overlap in the code is one of two requests, since each holds
  what it read and writes once. Two accounts are an actor and a target that may
  become each other's; two passkeys let an account remove one of two, the last
  one, or both at once. `Explored` lets one account ask for everything but
  passkeys, and the other for what can meet that: its passkeys, a demotion, a
  removal from the team, an invite. So promotions of an account overlap with
  removals of its passkeys. `MaxInvites` bounds the ids.
- Components: two requests, dispatchers, tabs, shards, connections with two
  versions each: two of everything that can overlap, three where an order has a
  middle (subjects, items). One account has a second factor and one has not.
  `LastTick` and `LastMinute` let every deadline pass and a retry follow it.

Symmetry is used for jobs, workers, connections and requests where no property
or fairness condition names one of them, and in no run with liveness.

Deadlock is checked in the runs of the queue and of the lanes. It is not in
`standalone` (after the last launch the program has stopped), nor in the runs of
accounts, keys and components (a clock, invites or key versions are used up, and
a program that waits for its operator may wait).

### Fairness

- `queue_live`: a worker polls at least every `DISPATCH_MAX_BACKOFF_SECONDS`
  whether or not it was notified (`agent.py`, `_dispatch_loop`), and leases and
  breakers run out with time. Nothing makes a worker publish: every claim may be
  abandoned, and jobs still end because lease attempts are bounded.
- `lanes`: only that a lease that no heartbeat renews runs out (`LeaseSpec`).
- `lanes_idle`: besides, dispatch rounds are held again and again, and not all of
  them fail; awaited statements, lookups and heartbeats end. No work needs to
  arrive.
- `standalone`: lanes are tasks of one event loop, and each of their awaits ends
  (requests have timeouts, sleeps are finite); a cooldown ends; the task group
  ends with its lanes and the `finally` goes on. No lookup needs to succeed and no
  signal needs to come.

## 4. Proofs

Eight modules of theorems hold for every value of the constants under the
assumptions named with them. The argument is the same in all: an inductive
invariant, its three facts, and the properties that follow from it.

**JobQueueProofs** (`Safety`: `QueueInv`). None of its parts is inductive alone:
that no place is idle after a promotion needs `queued` jobs to be exactly those
the gate sees, the order of starts needs queue numbers to be distinct and below
the next one (`SequenceIsOrder`), one announcement needs that rows begin empty
(`RowsBeginEmpty`) and that a job with live items has not ended
(`JobMatchesItems`), the attempt bound that a pending item has attempts left
(`AttemptsLeft`). The core lemma is `CloseAndPromoteInv`: a transaction that ends
live jobs, in the states their items fit, and promotes, keeps every part. The
named parts and the action properties `EndedStaysEnded` and
`PublishedStaysPublished` follow. `ClaimsSafety` adds `ClaimsInv`: a running item is
leased to the worker of its latest claim (`LatestClaimOwns`), without which a
fence could pass a worker that lost the item, and the answers a waiting
submission is going to reuse stay stored (`ReuseIsStored`), without which an
admission could publish a pair that has none. `OneWorkerPublishesHolds` and
`ObservationsKeptHolds` follow.

`FifoImplemented` is `Spec => Fifo!Spec`, with the invariant for both states of
every step.

**QueueTransactionsProofs** (`Safety`: `TxInv`), for any finite number of jobs,
items and connections, with an abort possible at every statement. The invariant
has two halves: what is true of the committed rows (`Committed`), and, for each
place where a transaction can stand, what it may still rely on (`SessionInv`,
`Apart`). Only a transaction that holds the gate frees or takes a place, so what
its rows would make of the queue is within the limit, in order, and without an
idle place once it has promoted (`GateRule`, `CountRule`); a drained job that is
written before the gate is taken only ever frees one. Rows that a transaction
wrote belong to it until it ends (`Apart`), and they were written from states
that nobody else can change meanwhile (`RowRule`, `ItemRule`), so two
transactions do not end one job, and a job that one of them ends holds no item
that another one has. Neither half is inductive without the other. From it follow the
properties of the run, `NoOvertakingHolds` and `EndedStaysEnded`, which no run
checks separately, and `FifoImplemented`, where every commit is one step of the
line and every other statement a stutter. TLC checked `TxInv` on the instance of
`queue_tx` before it was proved. `DrainedJobsEndAlone` says how little finding 1
takes, and that it takes no less: `DrainedJobsEnd` holds as long as no two open
transactions have each published or failed an item of one job (`OneEnder`), while
claims, cancellations, admissions, aborts and the other jobs' publishes overlap as
before. Its invariant `DrainedInv` says that each transaction sees a live item of
every job that has not ended and that it has not still to look at. It assumes that
a submission has an item to fetch (`Key # {}`): one without is inserted as
completed (`jobs.py:357`) and is not in this model.

**WorkerLanesProofs** (`LanesSafety`: `LanesInv`), whatever replies are lost and
leases lapse. That a session sits on the held slot needs to know what a lane
carries into each await (`LaneKeeps`), that a process that is down remembers
nothing, and that the idle polls are zero wherever the idle test is made
(`IdlePollsForgotten`). `NoLaneClosesIdle` draws the conclusion that is finding 2
seen from the other side: whatever the limit, a lane gives up its session for
work of another key or because it leaves, never because it idled.
`IdleInboxEmptyHolds` rests on `BatchIsIdle`: a round works on a copy of the idle
lanes that it made before it awaited its claims, and the copy stays right because
a lane leaves the idle ones only through that round or through the end of its
process, which ends the round.
`LeaseKnownHolds` and `OneLanePerSlotHolds` hold for any number of lanes in a
worker and whatever is lost. Their invariant is `LeaseCurrent`: a lane that is not
unsure owns its row, and the row has not lapsed; a release takes the row only
from a lane of its own worker, which `unsure` then names (section 6).
`SlotsAreExclusive` says what the table buys: while heartbeats come in time and no
reply is lost, nobody is unsure, and no two lanes use one slot.

**StandaloneRunProofs**, for any documents, input and number of launches, and any
finite number of lanes but zero (`config.py:59`). `TypeCorrect` puts the types
of the invariants below and of the other variables (`RestTyped`) together; it
needs `CopiesInv`, because a queue is typed by the rows it was filled from.
`BreakerSurvivesHolds` from `BreakerInv`. `TableImplemented` (`Spec => ImplementsTable`) from `RowInv`: what a
lane charges is 0 or a whole lookup, because only a lane whose last attempt
failed records a failure. `ChargesAreEarnedHolds` needs a strengthening:
`ChargeInv` counts the failed attempts that lanes hold and have not recorded
(`InFlight`) on top of the row; `Record` moves them from one to the other.
`ExportsHold` from `ExportInv`: no lane writes while the files are made. The last
two look into the queue. A row of the input that was queued is in the queue, in
the hands of one lane, or recorded (`Balanced`), which together with `ExportInv`
is `NothingLostHolds`. That the cap holds (`CapHoldsAlways`) is not inductive:
nothing about a row tells how much the copies still on their way may add.
`ChargesLeft` reserves a whole lookup for every copy that is queued or held, so
that recording one only spends what was reserved. Both need that a lane without a
document is one that asks for the next or has ended, and that an idle program has
an empty queue (`CopiesInv`).

**PortalAccountsProofs** (`AccountsSafety`: `AccountsInv`), for any accounts and
passkeys and any number of requests in flight. No part of the invariant speaks of
what a request read: every step is justified by what its transaction was checked
for and by the locks it holds from the check to the commit, which is what makes
it safe to read early. `LocksHeld` says that an account's row has one holder and
the installation's row one; `FactorStays` that what the check for a factor found
is still so when the transaction commits, and `AdminStays` the same of the count of
administrators, unless an account was deleted meanwhile. For `FactorStays` an
account in `raced` has to be excepted, which the code does not prevent (section
6); `AdminsHaveFactorHolds` says that this is the only way to an administrator
without a factor. `TeamKeepsLeaderHolds`. `LastAdminKeptHolds` excepts deletions
only (finding 3): `AdminRemainsUndeleted` draws the conclusion, that while no
account is deleted the trigger does keep an active administrator, however
transactions overlap.

The next three are about `Components`. A lemma of each (`OutboxAlone`,
`KeysAlone`, ...) says that a behaviour of `Components` is one of the component;
the theorems are `Spec => []Property` for the properties the run `components`
checks, all eleven of them.

**PortalProofs.** *Outbox* (`OutboxSafety`, `MailedOnceHolds`): nothing but time keeps
dispatchers apart. `HoldsLease` says that a dispatcher at work, on a row that is
not in `unsure`, is inside its lease and that its row is not due before that is
over, so no two work on one such row (`OneEach`), and an acceptance that somebody knows of is on the row or about
to be (`AcceptedKnown`). Assumes `SendTime < Lease`, which `dispatch.py:28` sets
up. *Job page* (`ProgressSafety`, `DoneShowsOutcomeHolds`): the stream closes on a
state it read earlier, after messages it sent earlier, possibly over another
connection. `SeesOutcome` ties these by the number of events each has seen:
whoever has seen all events of an ended job has read its final state. Assumes at
least one item. *Sessions* (`SessionsSafety`): the requests interleave statement by
statement, so the invariant is mostly about what a request holds. `Fits` types it
by the place where the request stands; `CodesSpent` says that the token of a code
that is being looked at is spent, and has one looker, which gives
`OneGuessPerTokenHolds`; `FailuresLimited` counts, besides the failures of the window,
the attempts that passed the throttle and may still add one (`UnderWay`): the sum
stays below the limit plus the requests there can be, although neither summand
does by itself, and `FailuresBoundedHolds` follows. `EndedStaysEndedHolds` is an
action property: a `load` writes back only over a row that still lives. Assumes
a positive limit and window, and finitely many requests.

**SecretsProofs.** *Team credentials* (`CredentialsAreSafe`): validations overlap
without any order; one active version (`OneActive`) is kept because an activation
retires the other in its own transaction, and a job's version stays accepted
because nothing leads from "active" anywhere but to "retired". *Removal of a worker*
(`RemovedIsRevokedHolds`): `Stopped` says that the agent does not run once the
command is past stopping its compose; `Settled` that, unless something may have
been issued since the revocation began, nobody enrols, the identity is revoked,
and a run that is on record, or a command that is past its run, has taken the
login as well. This covers the rerun that skips a recorded run. *Master keys*
(`FinishedMeansRotatedHolds`): `CoreLoads` says that a process started by the newest
deployment has loaded the head of the key file and has sealed, or has still to
write, nothing under another key; `Rewraps` that a command that is rewrapping
has listed every row under an older one. The two hold together only because a
process that starts forgets what its predecessor had in hand. `SecretsKeepTheirKeys`
is finding 4 seen from the other side: if no command finishes before init has
installed its key (`FinishesInstalled`), every version that a process, a row or a
write under way names is in the key file (`KeysNamed`), also after old lines were
removed, since whatever is left then is under the head of the file (`UnderHead`).

**ClientProofs.** *Browser client* (`SuccessMeansAllHeldHolds`): `Accounted` says that
every subject behind the driver is observed or unresolved, so that exit code 0
leaves an answer of each in the store; the file has those whose answer has data. *Capture relay*
(`CapturedInTurnHolds`): every RUC behind the index has its own observation, unless
an answer was counted as bad (`OwnAnswers`, `AllBefore`). *Merge*
(`MergedIsWholeHolds`): what a merge has read goes stale while the shards run on, but
a final outcome does not (`SeenIsFinal`), and only whole reads are written
(`SeenIsWhole`, `HeldIsFinal`). Assumes numbered subjects.

Only model-checked:

- liveness (`EveryRunEnds`, and the temporal properties of `queue_live` and
  `lanes`): fairness and ENABLED are out of the prover's reach;
- the four violations of section 5, which are facts about one instance;
- nothing rests on induction over data. Where a proof needs the first row of a
  queue or the first subject of a list it uses that a nonempty set of numbers
  has a least element; where it counts, the library's facts about cardinality
  of finite sets.

## 5. Findings

1. `queue_tx_drain`. Two transactions that end the last two items of a job at
   the same time each still see the other's item running; neither closes the
   job, and nothing looks at it again. The job keeps one of the five places
   until somebody cancels it (`jobs.py:1231`).
2. `lanes_idle`. `agent.py:58` and `docs/proxies.md:84` say that an idle lane
   closes its session and returns its slot. The idle count is raised only while
   the lane waits below the test and reset before it comes back to it: the
   branch is never taken, and heartbeats renew the slot for ever
   (`agent.py:361`).
3. `accounts_last_admin`. `001_portal.sql:404` and `provisioning.py:969` say that
   the installation always retains an active administrator. The trigger fires
   after updates only: an administrator that is deleted while its own demotion
   of the other one is under way, before its check or between its check and its
   commit, leaves none.
4. `keys_rerun`. `deploy.py:333` and `docs/portal-deployment.md:301` say that a
   rotation can be rerun after any failure, and that old key lines may go once
   the command has finished. A rerun after a death between the compose update
   and the deployment finds nothing changed, deploys nothing and finishes: the
   new key is installed by a later deploy, and removing the old line then leaves
   secrets without their key.

## 6. Seen while modelling

Behaviours that the models have, or that were left out knowingly, and that no
run is about. Some are what a reader of the docs would not expect.

- A late lane of the same process still publishes after its item was handed to
  another lane: the fence of a lease is the job's and the worker's id is
  compared, not the lane (`docs/architecture.md:116`). Another worker's lane is
  fenced (`OneWorkerPublishes`), unless its worker has got the item back since:
  then the answer of its earlier claim passes for that of the later one.
- `publish` upserts the shared entry before the fence is tested, so a lookup of a
  cancelled job still replaces the stored answer (`docs/portal.md:45`).
- A release of a slot that is repeated after a lost reply, or that comes after
  the lease ran out, may free a slot that another lane of the same worker has
  leased meanwhile: `_RELEASE` compares the worker and not the lane
  (`agent.py:476`, `slots.py:34`). That lane does not hear of it, its heartbeat no
  longer renews the row, and a third lane may lease and use the slot beside it.
  The run `lanes` contains this (`Robbed`); `OneLanePerSlot` excepts such a lane.
- A promotion that overlaps a removal of the target's last passkey:
  `001_portal.sql:77` says "Site admins must retain either TOTP or a passkey.", but
  the check of a removal locks and looks at an account only if it is an
  administrator in what is committed (`001_portal.sql:91-95`). While `promote_now`
  (`auth.py:344`) is uncommitted, `remove_webauthn_credential` (`auth.py:266`) finds
  none and passes, and the promotion saw the passkey that is about to go: both
  commit, and the administrator has no factor. The same with a pending promotion
  that a passkey completes. The run `accounts` contains it (`raced`), and
  `AdminsHaveFactor` without that exception is violated there.
- A SIGTERM between an upsert and its COMMIT: the exports of that run contain
  the row, which closing the connection then rolls back (`run.py:116`,
  `outcomes.py:502`). `NothingLost` speaks of runs without an interruption.
- A rewrap reads rows and then writes them: a second factor enrolled again in
  between would get the rewrapped old secret (`rewrap.py:64`). The model keeps
  versions, not contents.
- Removing a worker: `compose.stop` ends the agent and not the enrolment that
  worker-api is serving for it (`routes.py:122-127`), whose identity or role may
  then follow the revocation: the worker is removed and can log in. A revoke
  schedule that a dead tool left as done makes the next `remove_worker` skip the
  revocation (`deploy.py:652`), also when the worker was deployed and enrolled
  again in between. `unsettled` is TRUE in both cases, and `RemovedIsRevoked`
  excepts them; the comment at `deploy.py:382` has only the agent in mind. A
  revocation that died between the identity and the role cannot be rerun, as the
  identity is no longer valid.
- A step-up stamp is lost when a `load` that read before it writes back after it.
- Confirming a second factor ignores whether its token was consumed: two
  confirmations both commit.
- The guard for the last leader counts inactive leaders.
- A retired connection keeps its active version, which a submission that names
  it may still use (`Usable` looks at the version only).
- The outcome of a send is written by row id and whenever it comes: a failure
  that is written after the lease ran out sets a row back that another
  dispatcher has mailed. `CLAIM_LEASE_SECONDS` leaves a margin for that write and
  bounds nothing (`dispatch.py:27`). An exception that is not an HTTP error ends
  the dispatch task.
- A process that is killed in `breaker.py:95-122` between the change of the breaker
  in memory and its save loses that change. No await lies between them and the
  model takes them as one step, so `BreakerSurvives` is about the saves that were
  reached.
- A killed merge leaves a destination that makes the rerun refuse until the
  operator removes it (`ClearDestination`).
- A cancellation and a publish of the same job can deadlock in PostgreSQL, which
  aborts one of them; `QueueTransactions` lets any session abort.

## 7. Not modelled

- A lane as the unit of ownership of an item: the code's unit is the process, so
  nothing is stated about two lanes of one worker publishing (section 6).
- Passkeys, form tokens, recovery codes, profiles, Turnstile: their tokens and
  counters follow the same patterns as those of `PortalSessions`.
- The credential cache of the agent and the failure counts of the fleet breaker;
  the model lets lookups run under a version that was retired meanwhile, and the
  breaker open or not.
- Team quotas, listings, search, the audit log: reads and appends.
- The exclusions and the review of a submission, parsers of sites, page scripts, rendering: pure text
  processing. Object storage, proxy providers, the mail provider, Dokploy:
  external; what the code sees of them is nondeterministic in the actions that
  call them.
- First-time setup (`bootstrap`, `migrate`, creation of the server's objects),
  preflights, Terraform and test tooling.

What the plan has left: every invariant and action property of a passing run is
proved. Recovery codes and the confirmation of factors, with their
tokens, and imports of older state files are not modelled.
