# A TLA+ verification of sparks-effect-api

The API serves curated and user-authored transit services, compiles them into
graphs, and turns an isochrone request into a *routing job* that a worker in
another cluster computes. Most of what can go wrong in it is a matter of order:
a row and its queue message are written by two systems, a job is finished by
whoever comes first of a worker, a poll and a boot, and several handlers read a
row in one statement and act on it in the next. This project models those
parts, checks them with TLC on small instances, and proves the central results
with TLAPS for instances of every size.

Paths below are relative to the repository; `handler/`, `postgres/`,
`transit/`, `routing/`, `compile/` and `ratelimit/` stand for `internal/handler/`,
`internal/persistence/postgres/`, and so on.

## 1. The system

### Components, state and operations

| Component | State it keeps | Operations | Model |
| --- | --- | --- | --- |
| Routing jobs (`handler/isochrone.go`, `userisochrone.go`, `routingjob.go`, `isochronebacklog.go`, `worker.go`) | rows of `routing_jobs`: status, question, owner, result, `tileset_at`, `reusable_until`, timestamps | admit under the cap, look for a reusable job, insert, publish, fail an unpublished job, poll, the worker's running / succeeded / failed calls | `RoutingJobs` |
| AMQP publisher (`routing/amqp_publisher.go`) | one channel, its connection and buffered return, a one-slot semaphore, `up` | `Publish`, `Ping`, `connect`, `reset`, `Close` | `AMQPPublisher` |
| Compile jobs (`compile/`, `handler/job.go`, `handler/usercompile.go`, `transit/compile_seeded.go`, `cmd/api/main.go`) | rows of `jobs`; the `Runner`'s WaitGroup, mutex, `draining`, `inFlight` | boot sweep, seeded compile, create, enqueue, run, drain, poll | `CompileJobs` |
| Retention (`postgres/retention.go`, `handler/retention.go`) | none of its own | clear results of old terminal routing jobs, delete unused cache rows | the first in `RoutingJobs` |
| Drafts and publications (`handler/service.go`, `handler/publication.go`, `transit/staleness.go`) | `user_services` with `updated_at`; `service_publications` with a pinned compile and copies of prose and alignment | create, edit, delete, publish, unpublish, read, isochrone over a publication | `Publications` |
| User scenarios (`handler/userscenario.go`) | scenarios, their member services and interchanges | create, update, delete | rows and membership in `Handovers` |
| Handovers (`handler/handover.go`, `adminhandover.go`) | offers: pending, accepted, declined, cancelled, expired | offer, accept, decline, cancel, admin transfer | `Handovers` |
| Accounts (`handler/auth.go`, `accounttoken.go`, `admin.go`, `auth/`) | users (role, disabled, password), sessions, one-use tokens | login, logout, change password, revoke, invite, reset, redeem, disable, demote | `Accounts` |
| Isochrone cache (`postgres/worker.go`) | polygons by key with a tileset stamp | lookup, guarded put, deletion by retention | not yet |
| Published index (`handler/publishedservice.go`) | `first_published_at` of each publication; the cursor is the client's | list a page | `PublishedIndex` |
| Rate limiter (`ratelimit/`) | token buckets by client, a bounded table | allow, refuse, evict | `RateLimiter` |
| Seed and reconcile (`transit/seed*.go`, `compile_seeded.go`, `cmd/api/main.go`) | curated rows, their graph, prerendered isochrones | seed an empty database, reconcile, compile, insert prerendered isochrones | `SeedBoot` |
| Owned rows (`handler/owned*.go`, `postgres/owned.go`) | scenarios, routes, stations, services, travel times with an owner or none | create, update, delete, replace travel times; the drafts on routes | `OwnedRows` |
| Routing status, readiness (`handler/routingstatus.go`, `ready.go`) | time the worker was last heard | note a call, report | no |
| Graph compiler and physics (`transit/compile*.go`, `physics/`) | none, pure | compile a graph, project a run | no |
| HTTP server, configuration, metrics, error reports | none | wiring | see section 7 |

### Interactions

* A request handler calls the store and the publisher. Most calls are one
  statement; a publish runs its staleness check inside the transaction that
  holds the draft's row lock.
* The API and the routing worker share the queue and three HTTP calls. The
  worker has no database. A 404 to its *running* call tells it to drop the
  message.
* A compile runs in a goroutine of the process that accepted it. Other
  processes see only its row.
* Deleting an authored service or scenario deletes its compile jobs and their
  routing jobs (`ON DELETE CASCADE`) under handlers, polls, goroutines and the
  worker.
* The retention sweep, the boot sweep and the polls write rows that other
  parts believe to be theirs.
* A boot rewrites curated rows that administrators edit through the handlers of
  owned rows, perhaps while another release boots or serves.
* Middleware looks the session and the role up once; the handler behind it acts
  on that answer later.

### What is hard

* *Two writers of one status.* A poll, a publish failure, the boot sweep and
  the worker all end jobs. Some of the writes look at the status again
  (`FailInterruptedJob`, `MarkRoutingJobRunning`), others do not
  (`FailRoutingJob`, `SucceedRoutingJob`, `CompleteJob`).
* *A write to two systems.* The row is inserted, then published; either can
  fail, and the confirm can get lost although the message did not.
* *Check, then act.* The backlog is counted before the row is inserted; the
  poll judges a row it read earlier.
* *Shared channel.* Every publish and health check uses one AMQP channel, and a
  return left in its buffer belongs to somebody else.
* *Shutdown.* Handlers, goroutines and the grace period race each other, and
  what is left must be ended by a later boot or by a poll.
* *Timestamps of transactions.* `now()` is the start of a transaction, and its
  rows appear at its end, possibly after a wait for a lock.
* *Old answers.* A reused result must still exist.
* *Authorised, then written.* A handler authorises the caller on a row it has
  read; by the time it writes, the row may have another owner, or its slug may
  name another row.
* *Locks in two orders.* Redeeming a link locks the link, then the account, then
  the account's other links; a reset locks links alone. Two of them can wait for
  each other over the links of one account.
* *Boot is not a transaction.* It is a sequence of statements, and any error
  ends the process; what is left behind must let the next boot finish.
* *A clock read too early.* The rate limiter reads the time before it takes its
  mutex, so buckets see times that go backwards, and a full table evicts
  somebody's bucket.

### What makes each part correct

* Routing jobs: a message never precedes its row; a job given up on is not
  restarted; a terminal job is never reopened; a lost job is failed once
  polled; the cap is overshot by a bounded amount and never wedges shut.
* Publisher: nil means queued; a return is charged to the publish it belongs
  to; every publish returns.
* Compile jobs: a result, once written, stays; every job ends; the sweep fails
  only orphans; nothing joins the WaitGroup while `Drain` waits.
* Publications: publishing is one atomic step; what is served is a compile of
  the service that succeeded and stays; an edit is never missed by the staleness
  check; an ETag stands for one snapshot.
* Published index: a walk lists each service that stays published once.
* Handovers: every change of owner has its record and every offer one outcome;
  a service that is in a scenario does not move.
* Accounts: a spent or superseded link never works again; no session outlives
  the change that ends it; a password change does not land across a revocation;
  an administrator is left; one link is never enough for a deadlock.
* Owned rows: children have their scenario's owner; a cascade takes only what
  the caller may delete; travel times are replaced by who may change them.
* Seed and reconcile: a process that serves has its YAML, a current graph and
  fresh prerendered isochrones; a settled database is not written; a boot cut
  short anywhere is finished by a later one.
* Rate limiter: the rate holds over every stretch of time; a refusal costs
  nobody a token; Retry-After is long enough; the table is bounded.

The hazards behind these sentences are listed, each at its line, under
`hazards` in `PROJECT.json`.

## 2. Plan

Done, in this order: `RoutingJobs` with `RoutingJobLifecycle`, `CompileJobs`,
`AMQPPublisher` with `PublishContract`, `Publications` with
`PublicationRegister`, `PublishedIndex`, `Handovers` with user scenarios,
`Accounts`, `OwnedRows`, `SeedBoot`, `RateLimiter`; and proofs of every safety
property of all of them.

Next: `IsochroneCache` with the whole of retention, the guarded replacement as a
monotone order on rows.

## 3. Modules

### RoutingJobs and RoutingJobLifecycle

`rows` is the table, one record per job id (`none` before the insert, `deleted`
after its compile is gone). `req` holds the isochrone handlers: a handler is a
process with a program counter, because it makes up to four store calls and a
publish. `poll` holds the polls that have read a stale row and not written yet.
`msg` is where each job's message is; the worker, which lives in another
repository, is modelled from the calls it makes: it takes one message at a time
and can die at any point, which hands the message back. `gone` records which
compiles were deleted and `now` is the clock.

| Action | Code |
| --- | --- |
| `Admit`, `AdmitUncounted`, `Refuse` | `CapIsochroneBacklog`: under the cap; count failed (fails open); 429 |
| `Reject` | the handler's checks before `enqueueIsochrone` |
| `Reuse`, `Miss` | `FindReusableRoutingJob` |
| `Create`, `CreateError` | `CreateRoutingJob` |
| `Publish`, `PublishError`, `FailUnpublished` | `publisher.Publish`, then `failUnpublishedJob` |
| `Abandon` | the process or the request ends between two calls |
| `Take`, `WorkerCrash` | the worker and the broker (external) |
| `WorkerMarkRunning/Succeeded/Failed` | the worker's calls and their statements |
| `PollReadsStale`, `PollFail`, `PollFailError` | `RoutingJobStatus` and `failIfStale` |
| `ApplyRetention` | the statement that clears results |
| `DeleteTarget` | deletion of a service or scenario and its cascade |

The guards of `Failed`, `Succeeded` and `CanStart` are those of the SQL:
`FailRoutingJob` and `SucceedRoutingJob` match the row whatever its status,
`MarkRoutingJobRunning` only when it is not terminal.

`RoutingJobLifecycle` is the abstract specification: who may move a status
where, without handlers, polls, worker or clock. It leaves open which terminal
status a job ends in, because the code lets the later writer win (section 6).

### CompileJobs

`jobs` is the table; `at` says who is at a job and how far (boot's seeded
compile, a handler between insert and `Enqueue`, the goroutine before, while and
after compiling), `by` which process inserted it, `proc` where each process is
between boot and exit, `late` whether `srv.Shutdown` ran into the deadline.
`InFlight(p)` is the Runner's map and what its WaitGroup counts. The outcome of
a compile is a choice between succeeded and failed. `Stop` is a kill, a boot
that fails, and the end of the grace period inside `Drain`; the rows stay.
Several processes share the table, as replicas and as the two sides of a deploy.
A handler that is running when `srv.Shutdown` begins still inserts its job, and
one that outlives the grace period finds the Runner draining.

### AMQPPublisher and PublishContract

One process per `Publish` call, the goroutine of `Ping`, and a broker that
queues, returns, acks and nacks, and whose connection drops. `wire` says how far
the broker is with a message; `adrift` is a message sent on a channel that is
gone, which the broker may still queue while nothing comes back. A receive from
the closed returns channel succeeds, as in Go, so a publish whose channel
closed before the drain reports a return. `PublishContract` is what
`RoutingJobs` uses of it (`Publish` and `PublishError`): nil means queued, an
error means nothing.

### Publications and PublicationRegister

`draft`, `jobs` and `pub` are three tables. What a draft says is a version
number, what the alignment looks like is `line`, and a compile remembers the
version, alignment and boarding wait it read. An edit and a publish are
processes (`req`), because both take their timestamp when their transaction
begins (`EditBegin`, `PublishBegin`) and may wait for the draft's row lock
before they go on (`EditCommit`, `PublishLock`). `PublishDecide` is
`PublicationFromLockedDraft`, run under the lock; `PublishCommit` the upsert.
`reader` holds the public reads between their two queries. `Redeploy` changes
the boarding wait under everything else, as a deploy does; a service's own
boarding wait, which overrides it, is left out.

`PublicationRegister` is what ADR-0005 promises: one atomic step publishes a
graph no older than the draft together with the draft's prose of that moment.
The refinement mapping maps the succeeded jobs to the abstract graphs, and a
publication to its pin and prose; the requests, the reads, the alignment and the
clock have no counterpart.

### PublishedIndex

`first` is the sort key of each published service, `publishing` the publish
transactions that have begun. The walk is the client's: the cursor it holds, and
three history variables for what it was given and what stayed published since
its first page. Page sizes may change from page to page. The clock may stand
still, so that two services have the same first publication and the slug
decides.

### Handovers

`svc`, `offers` and `scenarios` are the tables; a route stands for its owner.
`req` holds the requests between their check and their write, which is where
every race of this part is: an owner's edit or deletion that was authorised
before a move, an offer that names the owner it read, a scenario whose members
were validated, an accept or an administrator's transfer. Accept and transfer
are three steps (lock the service; check under the lock; move and record),
because the comments of the code argue about exactly that order. `Locked` and
`OfferLocked` are the row locks they hold; an update, a deletion, and an insert
with a foreign key to the service wait for the first, a cancel and a decline for
the second. A transaction starts at any moment between the request's check and
its first lock, and expiry is judged by that start. A deadlock that the database
breaks, a refusal and a vanished caller all end a request without a write
(`Abort`). A deleted row stays, marked gone. A cancel or decline that waits for a lock keeps its older `now()` in
the code; in the model it takes the time of its write.

### Accounts

`users`, `sessions` and `links` (the `account_tokens` table) are the tables;
`req` holds the requests between two of their statements. A password hash is a
version number, because bcrypt salts it anew, and 0 is the empty hash of an
invited account. `era` counts the changes of an account that end its sessions,
and `born` says in which era a session began: the two are history, and so are
`seen`, `dead` and `overtaken`.

| Action | Code |
| --- | --- |
| `Boot` | `bootstrapAdmin`, `DeleteExpiredSessions`; the former process's requests end |
| `LoginBegin`, `CreateSession` | `Login`: credentials and password; the session |
| `Logout`, `RevokeAllBegin`, `DeleteUserSessions` | `Logout`, `RevokeAllSessions` |
| `ChangeBegin`, `ChangeVerify`, `ChangePassword` | `RequireAuth`; the stored hash; the guarded `UPDATE` and the deletion of the other sessions |
| `CreateUserBegin`, `CreateUser`, `InviteBegin`, `CreateInvite` | `RequireAdmin` and the lookup of the email; the insert with its unique index |
| `PatchBegin`, `PatchUser` | the role and the self-lockout check; promotion, demotion, enabling, disabling |
| `ResetBegin`, `Invalidate`, `CreateResetToken` | the check; the snapshot of the `DELETE`; the deletion and the new link |
| `RedeemBegin`, `ClaimLink`, `SetPassword`, `RedeemAccountToken` | the lookup; the claim under its row lock; the password, which takes the account's lock; sessions and the commit |
| `DeleteLink` | one link of the `DELETE` of a reset or of a redeem, which waits for whoever has it locked |
| `Abort` | a request that waits in a circle, and that the database fails |

A transaction that takes the account's lock first is one step. The two that take
links first are one step per lock (`LockedBy`, `AccountLockedBy`, `Waits`): the
links that a reset has deleted are locked until it commits, and a redeem that
wants to claim or delete one of them waits, as a reset waits for a claimed link;
and a `DELETE` visits the links it saw one after the other, in the order of their
creation. A reset does not wait for the account: its insert refers to a key that
a redeem does not change. What a transaction did shows when it commits
(`Committed`). A login or a
redeem that has verified before a disabling inserts its session after it; such a
session belongs to the new era and is refused while the account is disabled.

### OwnedRows

The five tables and the travel times, with the curated rows as rows without an
owner. A handler's reads are one step and its write another; the foreign keys
decide whether a write succeeds, fails (`WriteFails`) or cascades. A scenario is
found by slug, so a slug has a generation, which changes when the slug is given
to a new scenario: that is what `UpsertTravelTimes`, the one write that goes by
slug, can confuse. Who owns what is decided by `CanAccess` and `CanReference`,
as in `auth/`. Drafts (`user_services`) are here with their owner and their route:
creation, edit and deletion are authorised on the draft that was read and written
by id (`UpdateDraft`, `DeleteDraft`), the route is checked against the caller, and
a draft may change hands in between (`MoveDraft`, which is an accept or a transfer
of `Handovers`). `byAdmin`, `placedBy`, `seen` and `of` are history: who put a row
where it is, which routes a deletion counted, and whose draft a handler read.

### SeedBoot

`db` is the rows of one embedded scenario, each with a content number (0 is what
an administrator wrote); `links` is `scenario_service`; `graph` the latest
compile, as a function of the rows it read; `entry` the prerendered isochrone
with the membership it was made from. A process walks through `SeedIfEmpty`,
`ReconcileSeed`, `CompileSeededIfNeeded` and `SeedPrerenderedIsochrones` one
statement at a time (`Start`, `Reconcile`, `List`, `InsertRow`, `UpdateRow`,
`LinkService`, `CompileSeeded`, `RecordCompiled`, `SeedPrerendered`,
`InsertEntry`, and the failure of each), may stop between any two (`Stop`), and
two processes may boot together with different releases. The reads of one
compile are one step. The database is empty at the start, or has another curated
scenario and perhaps a user's scenario with the embedded slug, which
`ReconcileSeed` then leaves alone. While one serves,
administrators edit, move and delete curated rows, add a service that does not
compile, and users take slugs that the YAML of the next release wants (`EditRow`,
`DeleteRow`, `AddStray`, `TakeSlug`). `quiet`, `settled`, `wrote` and `cut` are
history. The gap between a compile job and its result is in `CompileJobs`.

### RateLimiter

A bucket keeps its tokens as the ticks that earned them, so that no fractions
are needed: `Cost` ticks make a token, `Cap` the burst. `Arrive` is the
middleware up to the call of the clock in `AllowAll`; `Enter` takes the mutex
and drops idle keys with that older time; `ReserveKey` is one turn of the loop
over the keys, with the eviction of the oldest key when the table is full;
`Admit` and `Refuse` are its two ends. Time stands still while the mutex is
held, which loses nothing: nobody reads the clock then. The buckets are
`golang.org/x/time/rate` limiters, modelled from how `AllowAll` uses them: a
time before the bucket's own earns nothing but is stored. `spent`, `grant`,
`was` and `promise` are history; `grant` is what a key was given without earning
it, a burst after an eviction and the time between an old `now` and the bucket's
or the clock's.

## 4. Runs

| Run | Bounds | What it shows |
| --- | --- | --- |
| `routing_jobs` | 2 handlers, 1 poll, 2 jobs, 1 target, 2 clock ticks, cap 1, one failed count | rows before messages; no revival before the running call; a reused job of less than the retention age has its result; the overshoot of the cap is bounded; the statuses implement `RoutingJobLifecycle` |
| `routing_jobs_live` | 1 handler, 1 poll, 2 jobs | the cap opens again with no worker and no poll; a job whose message, worker or handler was lost is failed once polled |
| `compile_jobs` | 2 processes, 1 poll, 2 jobs | results stay; a boot sweep spares its own process; refusals only after a late shutdown; nothing joins a draining WaitGroup; every compile ends, with fairness only for polls |
| `publisher` | 3 publishes | nil means queued; a queued and acked publish finds no return; every publish returns |
| `publications` | 2 services, 2 jobs, 2 requests, 1 reader, 2 boarding waits, 3 timestamps, 1 correction of the alignment | publishing implements `PublicationRegister`; the pin holds; a reader finds the graph of what it read; an ETag stands for one snapshot |
| `published_index` | 3 services, pages of 1 and 2, 2 instants | a walk neither skips nor repeats what stays published, and ends |
| `handovers` | 2 users, one an administrator, 1 service, 1 scenario, 2 handovers, 2 requests, 2 instants | each change of owner is recorded by one accepted handover; an offer is answered once; a service in a scenario does not move |
| `accounts` | 2 accounts, 2 concurrent requests, 5 requests in all | spent and superseded links stay dead; no session outlives its revocation; no password change lands across one; an administrator remains; a redeem or a reset meets a deadlock only where the account has two unused links |
| `owned_rows` | 3 users, one an administrator, 2 scenarios, 3 routes, 2 stations, a service, a draft, 2 concurrent requests, 3 in all | owners agree; losses are one's own or of what somebody else placed; curated routes that were counted are spared |
| `seed_boot` | 2 processes, 2 releases, 7 rows, 2 crashes, edits or overlapping starts | a process that serves undisturbed has its YAML, a current graph and a fresh entry; a settled database is left alone; links are lost only by a crash; every boot serves in the end |
| `rate_limiter` | 3 keys, table of 2, 2 concurrent requests, 4 in all, 7 ticks | the rate holds; refusals are free; Retry-After suffices |
| `edit_is_not_missed` | smallest that shows it | section 6 |

Bounds. Two handlers and two jobs are what the races over a row need: one actor
that read and one that wrote in between; the two jobs are needed for the reuse
of one by the other's request, the cap and the worker's one-message prefetch. Three publishes let a
return travel past one publish into another while a third waits. `StaleAfter`,
`InterruptedAfter` and `RetainFor` are one or two ticks, and the clock runs past
them; `LastInsert` stops inserts so that every job can age. `MaxFailOpen` bounds
failed counts, which the overshoot bound names. Three timestamps in
`publications` are what the races of two transactions over one compile need
(compile, edit and publish; compile and two publishes); the same properties also
hold with four (3.5 million states), which takes too long to run every time.
Three services and two page sizes give `published_index` a page boundary before,
at and after a row that moves. In `handovers` two requests are what a race over
one row needs, and two handovers let an offer and a forced move, or an offer and
its successor, exist side by side; offers expire after one instant, so that
expiry happens. Five requests in
`accounts` are a login, two resets and two redeems, or a promotion and two
administrators against each other; what a patch may say is limited to three
bodies that between them promote, demote, enable and disable. `owned_rows`
starts from any of the databases that a user or nobody has added to, because
three requests are needed for the races themselves (one deletes a scenario, one
takes its slug, one is between check and write); the third route is for a second
owner or for the copy of a curated one; `MinStops` is 1 there and 2 in
the code, which only makes more services legal. Two events in `seed_boot` allow
a crash in an overlapping boot, an edit before a crash, or two crashes in one
boot; the second release adds a route, corrects a station and changes the
provenance of a service. In `rate_limiter` a token takes three ticks and a
second has two, so that rounding matters, and seven ticks let a key become idle.
Job ids are never reused, as UUIDs are not.
Symmetry is over handlers, jobs, services, handovers, requests and users (in
`owned_rows` those who are no administrators), and only in runs without liveness.

Fairness. `CapReopens` assumes only that time passes (weak fairness of the
clock). `StaleJobIsFailed` adds, as its premise `PolledAgain`, that clients
poll: strong fairness of a poll's read of each stale job and of a poll's write.
Nothing is assumed of worker, handlers or broker, whose loss is the point.
`CompileJobs` assumes the same of its poll, and neither
that a process boots again nor that a goroutine finishes. For the publisher, the
semaphore is a buffered Go channel, which serves blocked senders in order
(strong fairness of `Acquire`), a dial ends after `dialTimeout` per phase, and a
broker that never answers misses its heartbeats and the client library closes
the connection (weak fairness of ack, nack or drop). No context is assumed to
end. The client of `PublishedIndex` follows every cursor it is given (weak
fairness of a page). In `SeedBoot` a process that is
down is started again and its boot is not suspended (weak fairness of `Boot`:
the platform restarts what exits); the crashes are bounded, as no program
survives an unbounded number of them.

Types. `TypeOK` (`PublisherTypeOK`, `IndexTypeOK`) is proved of every module
(section 5); for `RoutingJobs`, `CompileJobs`, `PublishedIndex`, `Handovers` and
`RateLimiter` no run repeats it, nor `AttendedIsOpen`. In `AMQPPublisher`, `Publications`,
`Accounts` and `SeedBoot` it is a conjunct of one of the invariants that the run
checks. In `OwnedRows`, where it also says that no row refers to one that is
gone, it is an invariant of its own.

Deadlock is checked except where the bound on requests or time is all that is
left: `accounts`, `owned_rows`, `seed_boot` and `rate_limiter`, where an idle
system is a legal end.

## 5. Proofs

`RoutingJobsProofs`, for any sets of handlers, polls, jobs, keys, targets,
owners and stamps, and any cap, under `RoutingJobsAssumption` (handlers and jobs
are finite, stamps positive):

* `RoutingJobsInvariant`: `Spec => [](TypeOK /\ WorkHasRow)`. The conjunction is
  inductive: an update of a row needs the row's type, and that a handler's job
  is an inserted one.
* `LateWorker`: the action property, from the same invariant.
* `BacklogBound`: `Cardinality(InFlight) + Cardinality(Uncounted)` stays below
  the cap, the handlers and the failed counts together. The induction needs the
  sum, not the count: an insert moves a handler from one set to a job in the
  other. Admission raises the sum by one from a state where the count is below
  the cap and at most the other handlers are on their way.
* `LifecycleRefinement`: every step is a step of the abstract specification or
  a stutter, using the invariant for the steps of worker and handlers.
* `FreshReuse`: `FreshReuseHasResult`, from `ResultsKept`: a succeeded job has
  its result or was last written longer than `RetainFor` ago. Only the worker's
  success makes a row succeeded, and it stores a result; only the sweep clears
  one; and the clock does not run backwards.

The same module proves of `AMQPPublisher`, for any set of messages, under
`AMQPPublisherAssumption` (the names of no message, of the ping and of nobody
are no messages):

* `ReturnsAreNotInherited`: `PublisherSpec => []DeliveredIsNotReturned`. The
  inductive invariant (`PublisherInv`) says that whoever is past `acquire` is the
  holder of the semaphore (`SemaphoreExcludes`), that the broker is heard about
  the holder's message alone and only while the channel it was sent on is open
  (`UnsentIsNowhere`, `HeardOnOpenChannel`), and that a buffered return is about
  that message, which is then in no queue unless the channel is gone
  (`ReturnIsOfTheHolder`). Every way out of `Publish` that leaves the channel
  open has drained the buffer first, and every other way resets the channel.
* `PublisherKeepsContract`: `PublisherSpec => ImplementsContract`. A publish that
  drains an ack and no return has its message in the queue
  (`AckedIsQueuedOrReturned`): the broker acks a message that it queued or that
  it returned before, and `connect`, `Close` and `Ping`, which empty the buffer,
  need the semaphore. What was called is not idle, so that a message which the
  broker queues after its publish failed is still a delivery of the contract.

`CompileJobsProofs`, for any number of processes, polls and jobs:

* `CompileJobsInvariant`: `TypeOK`, `AttendedIsOpen`, and that a job whose
  handler is past shutdown belongs to a late process; together inductive.
* `Refusals`, `ResultsStay`, `DrainSealed` and `SweepIsBlameless` follow. `ResultsStay` is the one
  that matters: the goroutine's writes have no guard, and what makes them safe
  for a result is that only one of goroutine and boot is ever at a job.

`HandoversProofs`, for any users, services, scenarios, offers, concurrent
requests and clock:

* `HandoversInvariant`: `TypeOK`, what rows and requests name, that a locked
  service is there and held once (`LocksExclude`), and that what was judged under
  a lock is still so when the move is written (`JudgedStillHolds`). The last one
  is what the row locks are for: an edit, a deletion, an offer or a membership of
  the service waits for the first lock, a cancel or decline for the second.
* `MovesRecorded`, `OffersAnsweredOnce`, `MovesLeaveScenarios`: every step either
  moves nothing and accepts nothing, or moves one service that is in no scenario
  and turns one handover into an accepted one (`StepMoves`).

`RateLimiterProofs`, for any finite set of keys, any key lists, requests, rate,
burst, table size and idle time, under `LimiterAssumption` (the burst is at
least a token, and an idle key has earned its burst again: `Cap <= IdleFor`,
which every default policy satisfies) and `KeyListsAssumption` (no key twice in
a list):

* `LimiterTypes`: `TypeOK`, in which the bound of the table is the part that
  needs an argument: a key is added to a full table only in the place of one.
* `AdmissionsBounded`: `Spec => []AdmissionBound`. The induction needs the
  balance behind it: what a key has spent, what its bucket holds and what a
  reservation under way owes is paid for by the bucket's time and the grants
  (`Paid`); a bucket is in debt by at most one reservation, and then its holder
  knows the delay (`Debts`). The case of a request that comes late with an old
  time to a key without a bucket is the one that `grant` was completed for.
* `RefusalsAreFree`: from `Whole`, which compares each bucket with what it could
  spend when the mutex was taken, reservations apart.
* `RetryAfterIsEnough`: `Spec => []RetryAfterSuffices`, from `PromisesKept`: a
  key of a promise, unless its bucket was dropped, has earned a token once the
  clock has reached the promised time, reservations apart. The rounding is a
  lemma about division (`RetryAfterEnough`). An eviction helps the client, and a
  late request with an old time takes nothing away because the bucket stores
  that time.

`PublicationsProofs`, for any services, compile jobs, requests, readers and
boarding waits, under `PublicationsAssumption`:

* `PinsHold`, `ReadersFindGraphs`, `ETagsNameSnapshots`: `Spec => []PinHolds` and
  so on, from one inductive invariant: jobs are of drafts that are there, a
  locked draft has one holder and still says what the holder read
  (`LocksExclude`), the compile that a publish decided on under the lock is still
  the draft's and no older than the draft (`DecidedStillHolds`), pins and the
  readers' copies hold, and a stamp names one transaction (`StampsUnique`,
  `CopiesAgree`). The last part is the one an ETag needs: two publications with
  one `published_at` would be two snapshots with one name.
* `PublishingIsAtomic`: `Spec => ImplementsRegister`. `PublishCommit` is the
  abstract publish, because what was decided still holds; a compile that succeeds
  adds a graph, a deletion takes a service's graphs and its publication away,
  and every other step stutters.

The same module proves of `PublishedIndex`, for any set of services, page sizes
and clock:

* `IndexTypeCorrect`, and `WalkIsComplete`: `IndexSpec => []NeverSkipsOrRepeats`.
  The property says nothing of a walk under way; the induction needs that, of the
  services that stayed published since the first page, those listed are exactly
  those not after the cursor (`ListedUpToCursor`). A page keeps this because its
  last row is the greatest listed one and comes after the old cursor; a
  republish keeps it because it does not move `first_published_at`.

`AccountsProofs`, for any accounts and concurrent requests and any bound on their
number, under `AccountsAssumption` (a patch does not say two opposite things):

* `SessionsEndWithTheirEra`, `LinksDieForGood`, `AnAdminRemains`. The invariant
  adds to the three properties what tables and requests name, that a live
  session was born in its account's era (`LiveAtEra`), and four facts about a
  request between two statements: what it names is there (`NamesRows`); no era
  has passed if the hash it compared is still stored and its session still lives
  (`ComparedAtEra`); a patch does not lock out its caller (`NotItself`); and a
  reset is about to delete every older link that still works (`DoomsAll`).
* `ChangesStayInTheirEra`: the action property, from `ComparedAtEra` and
  `LiveAtEra`.
* `OneLinkNeverDeadlocks`: `Spec => []DeadlockNeedsTwoLinks`. The invariant
  (`Locks`) says that a locked link is unused, of the account of whoever locked
  it, and locked once. A request in a circle holds a link, because nobody holds
  an account without one; and it waits for a link, or for an account whose
  holder has another link of it. The two links are different since one has one
  holder.

Instead of preserving every request's facts under every action, each action is
shown to respect one relation on the tables (`Aging`: no session or link comes
back to life or changes hands, and an era passes only with a new hash or the end
of the account's sessions), and one lemma (`RequestAges`) carries a waiting
request's facts over any step that does.

`OwnedRowsProofs`, for any users, administrators, scenarios, routes, stations,
services, drafts and concurrent requests, under `OwnedRowsAssumption` (nobody is
not a user; a service that is there at the start has a route to run on, in the
curated scenario or the user's):

* `RowsReferToRows` and `OneOwner`: `Spec => []TypeOK` and
  `Spec => []OwnersAgree`. Both are conjuncts of the inductive invariant, row by
  row (`RouteOK` ... `SegmentsOK`), but neither stands without the requests: a
  write is right because of what was authorised before (`Authorised`, `Looked`).
  The relation that carries it (`Aging`) is that a row never changes its owner
  and a slug does so only with a new generation; at the write the foreign key to
  the scenario's id shows that the generation is the same.
* `NobodyLosesToAStranger`: `Spec => LossesAreOwn`. What a deletion of a route or
  a scenario cascades to belongs to who may use the route, which with a curated or
  foreign route leaves administrators. For a draft the invariant keeps that
  whoever put it on its route may use that route (`DraftOK`), and of a request that
  its caller was entitled to the draft as read (`Looked`): a draft on somebody's private route was put there by that
  somebody or by an administrator, so that unless the draft's owner is one of
  them the exception of `PlacedForIts` applies.

`SeedBootProofs`, for any processes, releases, rows, YAML and number of crashes,
edits and colliding boots, under `SeedBootAssumption` (every YAML has the
scenario and its travel times; a row is of one kind, as far as the proofs need
it, the kinds being tables):

* `BootServesItsRelease`: `Spec => []ServesItsRelease`. The property is about the
  end of a boot; the invariant (`OnCourse`) says for each step what a boot that
  nobody disturbs has achieved by then and so need not repair any more. While it
  writes the rows of one kind, every row of the YAML of that and the earlier
  kinds is right but those it still has to write (`RowsSoFar`), and so is the
  service between its write and its link; when it lists a kind, the earlier ones
  are done; when it compiles, all are; afterwards the graph, and then the
  membership, are those of the rows (`Derived`). Two facts about the tables make
  the steps go through (`RowsNeedMain`): without the scenario there is none of
  its rows, so that `CreateVehicleType`, which does nothing for a vehicle that is
  there, leaves no old one behind; and a vehicle is never moved out. Nothing is
  claimed of the rows that the first seeding wrote, because `ReconcileSeed`
  lists them again.
* `SettledBootWritesNothing`: `Spec => []SettledIsLeftAlone`, from `NothingToDo`:
  such a boot still finds the database settled and is at no step that writes,
  since every list of it is empty, the graph is the same and the entry is there.
* `OnlyCrashesCutLinks`: `Spec => []UnlinkedWasCut`, from `ServicesLinked` and
  that a process at a link has a service next (`ProcOK`).

One lemma carries a waiting process over a step that writes nothing
(`UndisturbedOK`) and one over a step of somebody else that writes
(`DisturbedOK`: it only has to stay well-formed); `AdvanceOK` is the passage
from row to row and from kind to kind, for all steps that take it.

TLC also finds these inductive invariants, `ResultsKept` and `PromisesKept` true
in every state of the runs.

Every safety property that a run checks and expects to hold is stated by a
theorem. Only model-checked: liveness (`CapReopens`, `StaleJobIsFailed`,
`EveryCompileEnds`, `EveryPublishReturns`, `WalkEnds`, `EveryBootServes`), which is out of the prover's reach.

## 6. Findings

One run expects a violation, `edit_is_not_missed`: ADR-0005 says an edit made
while a compile runs marks that compile stale. An edit's `updated_at` is the
start of its transaction, so one that begins before the job is inserted and
commits after the compile read the draft is older than the job: the old graph is
published beside the new prose. (What holds is `ImplementsRegister`: an edit
stamped after the job is never missed.)

Further disagreements between the code and its documents are visible in the
models. Each is a definition that can be added as an `INVARIANT` or `PROPERTY`
to the configuration named, and TLC then shows the behaviour.

* `TerminalIsFinal` (`RoutingJobs.cfg`): CONTEXT.md:380 calls succeeded and
  failed terminal. The 404 to *running* stops a late worker only before that
  call: one that is already computing turns a job the poll failed into succeeded
  (`postgres/worker.go:29`); and `failIfStale` writes without looking again, so a
  success that arrives in between is overwritten as failed. `FailInterruptedJob`
  has the guard that is missing here.
* `ReusedHasResult` (`RoutingJobs.cfg`): the lookup does not test the result, so
  a job whose result retention cleared is answered as reusable; docs/retention.md
  says NULL must be a miss. (What holds is `FreshReuseHasResult`.)
* `MembersBelongToOwner` (`Handovers.cfg`): the comment on
  `moveLockedUserService` says every member of a scenario belongs to the
  scenario's owner. `validateScenario` checks that before the transaction that
  writes the membership, and a move in between finds the service in no scenario,
  so the former owner's scenario ends with a member that is somebody else's.
  (What holds is `MovesOutsideScenarios`.)
* `YamlReaches` (`SeedBoot.cfg`): ADR-0002 says a YAML edit reaches a deployed
  database on the next boot. `UpdateService` does not write the provenance that
  `serviceSeedView` compares, so a changed provenance never arrives and every
  boot rewrites the service. (What holds is `ServesItsRelease`.)
* `TimesWrittenByOwner` (`OwnedRows.cfg` with four requests of two users, one route
  and one station that they have planted, and nothing else): the README says that
  other users reach only rows they own. `ReplaceOwnedTravelTimes` authorises
  its caller on the scenario it loaded and then names it by slug, and
  `UpsertTravelTimes` looks the slug up again. If the scenario was deleted and its
  slug given to somebody else's in between, that one's travel times are replaced.
* `CuratedRowsStay` (`OwnedRows.cfg`): CONTEXT.md says that the deletion of a
  scenario which holds curated rows is refused. The count and the deletion are two
  statements, and a curated route that an administrator moves into the scenario in
  between goes with the cascade. (What holds is in `LossesAreOwn`: a route that was
  counted is not lost.)

More are stated by the exceptions of properties that hold:

* `AdminRemains` excepts a patch whose caller lost the role between
  `RequireAdmin` and the write: two administrators who demote each other at the
  same time leave none, although `handler/admin.go` says of its self-check that
  it keeps the last admin from locking everyone out.
* `LossesAreOwn` excepts a draft that somebody else than its owner put on its
  route: `validateAndSnapService` checks the route against the caller, so an
  administrator can put a user's draft on the private route of another, with whose
  scenario it is then deleted, and `CountUnownedScenarioChildren` does not count
  drafts. It also excepts a deletion by a former owner that was authorised before
  the draft changed hands.
* `DeadLinksStayDead` excepts links that were issued while a redeem or another
  reset of the account was under way: the `DELETE` of either does not see them.
* `EveryBootServes` excepts `Blocked`: a slug that a user took before a release
  brought a row of that name, a curated route moved out of its scenario, and a
  curated service that is on no segment path each end every later boot.

And one is in an action: `resolveOwnedService` finds the stops through the
scenario that the request names, "what makes borrowing another scenario's
station id impossible" (`handler/ownedservice.go:195`), but `UpdateService` does
not write `scenario_id`. An update that names another scenario which the caller
may change leaves the service where it was, with the other's stations.

## 7. Not modelled

The isochrone cache and the part of retention that deletes from it: section 2.
Left out: the routing status and readiness reports (they read, and write
nothing); the geometry of the compiler and the physics (floating point);
formatting of responses, configuration parsing, metrics, error reports and
compression (no protocol state of their own); password hashing; the choice of a
client's address behind proxies; and the worker's computation, which lives in
another repository. `Accounts` has no display names and no reads; `OwnedRows` no
names and no geometry; `SeedBoot` follows one embedded scenario and neither
deletes the curated scenario nor skips rows whose slug belongs to another id.
In `RoutingJobs` a request's question is one
model value: compile job, mode, budget and the rounded origin are compared only
for equality. The database is serial per statement, which is what PostgreSQL
gives single statements on one row.
