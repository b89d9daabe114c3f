# 2bot: models, checks and proofs

2bot is a platform on which users run bots and plugins in workspaces of their
own, connect them by workflows, and pay for AI calls with credits. This directory
holds TLA+ modules of the parts of it whose correctness depends on the order of
concurrent steps, configurations that model-check them with TLC, and theorems
that TLAPS proves about them for every value of their constants. All modules are
written from the TypeScript source; a definition's lines are in `PROJECT.json`
under `map`.

Short names used below, all under `src/src/` unless said otherwise: *wallet*
`modules/credits/wallet.service.ts`, *provider*
`modules/2bot-ai-provider/2bot-ai.provider.ts`, *executor*
`modules/workflow/workflow.executor.ts`, *workflow service*
`modules/workflow/workflow.service.ts`, *lock* `lib/redis-lock.ts`, *orchestrator*
`modules/cursor/buildspec/orchestrator.service.ts`, *bridge client*
`modules/workspace/bridge-client.service.ts`.

## 1. Inventory

The server is a Node.js process, of which several replicas may run (the cron jobs
take a distributed lock for that reason). They share a PostgreSQL database (through Prisma, at its default
isolation level, so a SELECT locks nothing) and Redis (locks, leases, queues,
keys). Inside a process, code runs to its next `await`. So every pair of awaits
is a place where another request, timer or replica may come between.

| Component | State | Operations | Talks to | What is hard | What makes it correct |
|---|---|---|---|---|---|
| Credit wallet (*wallet*) | `CreditWallet` row: balance, lifetime, pending fraction, claim and reset dates; `CreditTransaction` rows | create, charge, debit, credit, claim, monthly grant and reset, administrator's grant and refund | AI requests, cron, admin routes, billing webhooks (the plan) | checks on stale reads; two first requests; a read before the transaction that uses it; -1 for unlimited | never overdrawn; the ledger explains the balance; a month granted once; a day claimed once and no fraction lost but by calls that overlap |
| Credit requests (*provider*, `2bot-ai-credit.service.ts`) | none of their own | check the credits, call the model, charge | wallet | the charge comes long after the check, and may fail after the call was served | as the wallet |
| Credit cron (`server/cron/credit-cron.ts`) | a timer per replica, a Redis lock | grant or reset every wallet | wallet, lock | a replica dies while it holds the lock; the lock expires | each month at most once |
| Distributed lock, idempotency keys (*lock*) | Redis keys with a time to live | acquire, release; look up and store a result | cron jobs, workflows | fail-open on Redis errors; lookup and claim are apart | a lock has one holder; one result per key |
| Workflow runs (*executor*, *workflow service*, `workflow-worker.ts`) | `WorkflowRun` rows, idempotency keys | start, refuse, execute, complete, fail, clean up | triggers, steps, Redis | duplicate deliveries, a count and a creation that are two statements, dying processes, slow runs that the cleanup takes for dead | one run per event, a bounded overrun of the limit, completed is final, every run ends |
| Workflow steps (*executor*) | `WorkflowStepRun` rows, the layers of the graph | lay out the graph, run a layer in parallel, time out, retry, skip, fail | plugins, database | parallel failures, plugins that never answer, failures the loop does not see, cycles | sources first; nothing under way after the outcome; failures cut off; the run ends |
| Triggers and schedules (`workflow.triggers.ts`, `modules/project-resource/schedule-tick.service.ts`) | schedules' next firing | match and dispatch events; fire due schedules | workflow runs, lock | a tick that outlives its lock; an edit under a tick or under another edit; a firing that failed but is advanced | a firing runs once but for faults; an edit stands; what is due gets handled |
| Bridge leases (`modules/workspace/bridge-lease.service.ts`) | Redis leases, a server's set of held leases | acquire, steal, renew, release, expire | Redis, bridge client | steals after a stale read; renewal results matched by position | a holder renews; only servers of one port take from each other; losses are noticed |
| Bridge client (`modules/workspace/bridge-client.service.ts`) | clients and connections under way | connect, reconnect, replace, remove | leases, bridge agent | reconnection without a lease; a client read before an await; first connections that fail late | the platform gets a connection again, whatever is lost |
| Bridge agent (`src/docker/workspace/bridge-agent`) | its one platform connection, plugin processes | connect, authenticate, replace, rotate the token | bridge client | a connection replaces another before it has authenticated; its close comes late | the agent serves one connection |
| Token rotation (`server/cron/bridge-token-rotation-cron.ts`) | the token in the agent and in the database | rotate | bridge client, lock | two writes, of which the second may not come; clients that keep the old token | a container whose stored token is right can be reached again |
| Workspace containers (`container-lifecycle.service.ts`, `workspace.service.ts`) | container row and the container itself | start, stop, restart, health and idle checks, suspension, reconnection | Docker, bridge | checks, users and the recovery at boot act on one container without a lock | the row tells the truth about the container; a dead container is noticed |
| Build specs (`modules/cursor/buildspec/`) | `BuildSpecRun` row, its job, handles for rollback | queue, apply, roll back, record | every resource service, the queue | redelivered jobs, overlapping attempts, failure half way or in the rollback | a failed call leaves nothing; the user's rows stay; the status is what happened |
| Circuit breaker (`lib/circuit-breaker.ts`) | state, counters, time | execute | providers | late results of an earlier period | opens at its threshold, closes after trials |
| Webhook replay cache (`lib/webhook-replay-cache.ts`) | Redis keys | remember | webhooks | remembered before it is handled | none lost |
| Allocation (`modules/resource/allocation.service.ts`) | limits of organization, departments, members | allocate | limits checks | sums over rows read earlier | parts within the whole |
| Billing webhooks (`server/routes/stripe-webhook.ts`) | subscription rows | change the plan | wallet | repeated, reordered events | the last plan counts |
| Authentication, organizations, marketplace, support, alerts, frontend, AI agent | rows | create, read, update, delete | database | little beyond single rows | unit tests reach it |

`PROJECT.json` lists every component with its status, and under `hazards` the
lines where these things can go wrong.

## 2. Plan

In the order of their weight, each done with its checks and proofs:

1. `Account` and `CreditWallet`: money.
2. `WorkflowRuns` and `WorkflowSteps`: the platform's main loop.
3. `BridgeLease`: who may connect to a workspace.
4. `BuildSpecApply`, the pipeline and the rollback of one build spec, and
   `BuildSpecRun`, which composes it with the run's row, the queue and the workers.
5. `ContainerLifecycle`: a workspace's row and its container.
6. `BridgeConnection`: clients, the agent's one connection, and the rotation of the
   token; the lease is abstract here (any instance may lose it at any time).
7. `ScheduleTick`: the lock, the batch and the edits of schedules; the idempotency
   of a run is abstract here (a key is stored when its run ends, or not).

What would come next: a run of `BridgeConnection` over the real `BridgeLease`
(its state space is the product of the two); the circuit breaker with overlapping
calls; sums of limits in the allocation of resources; a proof that a renewed lease
is never lost while its holder lives, once the clock is in the model.

## 3. The modules

### Account, CreditWallet

`Account` is what a wallet promises: it is opened once, its balance moves only
with a ledger row that records the balance it left, and no debit takes it below
zero. `CreditWallet` is the wallet with everybody who writes it, and implements it.

| In the module | In the code |
|---|---|
| `wallet`, `created`, `opening`, `openingRow` | the `CreditWallet` row and whether its opening ledger row was written |
| `ledger` | `CreditTransaction` rows in commit order |
| `request[r]` | `textGeneration`: `CreateStart`, `CreateRow`, `CreateRaceLost`, `WriteOpeningRow`, `EnsureCredits`, `CallProvider`, `PrecheckCharge`, `ReadPending`, `WriteCharge`, `LeaveRequest` are its awaits |
| `claim[c]` | `claimDailyCredits`: the checks (`ClaimCheck`), then the transaction (`ClaimGrant`) |
| `cron[k]`, `lock` | the credit cron of a replica and its distributed lock; `CronDies` and `LockExpires` are the crash and the time to live |
| `DeductCredits`, `AddCredits`, `AdminOpen`, `AdminRefund` | the operations of those names and the admin routes, a transaction each |
| `ChangePlan`, `NextDay` | the billing webhooks, the calendar |

A transaction that starts with an UPDATE holds the row to its commit and is one
action. A read used by a later write is an action of its own. Amounts are whole
credits, and a charge counts in `Unit` parts, so that the accumulation of
fractions is what the code does with decimals.

The database lets charges overlap between the read of the fraction and its overwriting,
and claims between the check and the grant. `staleRequests` and `staleClaims` are the
calls over whose read another has written, `lateCharges` and `lateClaims` count what
such calls write all the same: history, by which the properties say how much an overlap
costs instead of forbidding it.

There is no fairness: a request may die at any await, and only safety is stated.

### WorkflowRuns

One workflow's runs. A call of `executeWorkflow` goes through the stations of
`call[c].pc`: `lookup` (Redis GET), `admit` (count of running runs), `create` (the
row), `executing` (the steps, one action here), `stats` (the workflow row, after
the run row), `claim` (SET NX). `Cleanup(old)` is the timer that fails runs which
are too old: `old` is any set of rows, since the model has no clock and a slow run
is as old as a dead one. Faults are switched on in the configuration: `"redis"`
for a Redis command that fails, with or without its effect, and `"call"` for a job
that dies or throws. `answers`, `disturbed` and `degraded` are history variables.

Fairness: the cleanup's timer fires for ever, and a running row gets old, so the
cleanup of each row is weakly fair. Nothing is assumed of the calls.

### WorkflowSteps

The steps of one run, over every graph in `Graphs`. `layers` is what
`buildExecutionLayers` returns (a recursive function counts `inDegree` down round
by round). A step of the layer whose turn it is goes through `open` (its row),
`ready`, `plugin`, `backoff`, `record`, `catch` and `settled`. `live[s]` counts
plugin calls that have not ended: a call that lost the race with its timeout goes
on (`EndLate`). `fatal` holds the steps that threw `StepFailedError`, `swallowed`
those that failed in a way the loop over the layers does not see. `EndLayer` is
`Promise.allSettled`, the look for a fatal failure, and the run's outcome. The write of
the outcome (`EndRun`) may itself throw: no `try` encloses `failRun` and `completeRun`
in `executeWorkflowInternal`, so the row stays `running` and the call throws (`thrown`).
Such a row is what `WorkflowRuns` leaves behind when a call throws, for `Cleanup` to find.

Fairness: a step moves on and the loop over the layers goes on, because the
process lives (if it dies, the run is the cleanup's business in `WorkflowRuns`),
the database answers or fails, and a call answers or its timer fires. Nothing says
that a plugin ever answers.

### BridgeLease

Servers, each a process that starts once, on a port that two of them may share (a
child process may survive the server it belonged to). `lease[c]` is Redis' key,
`held[i]` the set `heldLeases` as the sequence in which it is iterated, and
`replies[i]` the queue of answers that server `i` has under way. A command takes
effect when it is sent; since a server has one connection, on which answers come in
order, and no other server sees what is local to it, a later effect would be the
same behaviour with the other servers' commands moved forward. Each action of
`Handle` is the code after one await.

| In the module | In the code |
|---|---|
| `Acquire`, `LookWho`, `Decide`, `Hold` | `acquire`: SET NX, GET, then EXPIRE, SET or nothing, then the local set |
| `Release`, `Forget` | `release`: the script, then the local set |
| `Renew`, `Drop` | `renewAll`: the pipeline, then its results by position |
| `Start`, `Scan`, `Reclaim`, `Reclaimed` | `start` and `reclaimStaleLeases`: KEYS, GET and SET per key |
| `Stop`, `Exit`, `Expire`, `Fail` | `stop` with `releaseAll`; the end of the process; the time to live; a failing command |

There is no clock. A lease expires only if its holder is not refreshing it: the
holder is alive and has it in its set (renewed every 20 of its 60 seconds) or has
just set it. A server that is held up for longer than 40 seconds is not modelled.
`disturbed` and `raced` are history variables: which servers sent a renewal while
the answer of a release or renewal was under way or saw Redis fail, and which
containers came free after a thief had looked.

Fairness: Redis answers or the client fails the command, the renewal timer of a
live server fires for ever, and a time to live ends.

### BuildSpecApply, BuildSpecRun

`BuildSpecApply` is *orchestrator*'s `applyBuildSpec`. An attempt is one call;
attempts overlap when the queue delivers a job twice. `Plan(s)` is the sequence of
writing statements that a spec determines, `db` the rows that exist with the project
each is in, `try[a].made` the rollback handles. Each step of the plan is one action,
and each may throw (`StepThrows`). `UndoStage` is one `deleteMany` of `rollbackAll`;
deleting a project takes along what is in it, as the foreign keys do. An attempt's
own rows are told apart by `by`, so that two attempts never share a row but may meet
on unique names and on the user's installs.

| In the module | In the code |
|---|---|
| `FindDefault`, `MakeDefault` | `ensureDefaultProject`, which a new project and each new gateway call: a find, a create, and a find after a create that threw |
| `CheckCredentials` | the look for another gateway with the credentials |
| `ResolveProject` ... `Activate` | the other statements of `applyBuildSpec`, in `Plan`'s order |
| `StepThrows`, `Unwind`, `UndoStage`, `UndoThrows` | the catch block, the rollback after failed smoke tests, `rollbackAll` |
| `CreateQueuedRun`, `Enqueue` | the request: the row, then the job |
| `Pick`, `MarkRunRunning`, `WorkApply`, `CompleteRun`, `FailRun` | the worker's processor |
| `Acknowledge`, `Stall` | the queue (external): a lapsed lock gives the job out again |

Faults: `"answer"` (a statement commits and its answer is lost), `"undo"` (a deletion
of the rollback throws), `"die"` (a worker's process), `"record"` (an update of the
run's row throws), `"stall"` (the job's lock lapses under a live worker).

Fairness: a worker's process goes on until it dies, the queue hands out a waiting job
and notices a dead worker. Nothing is assumed of a live worker's lock.

### ContainerLifecycle

The row of a workspace (`row`), its container (`docker`) and the operations in flight
(`doing[a]`): what each has read, and the steps that it still has to await. All
operations run in one process without a lock, and write the row by its id whatever it
then holds. An operation is a sequence of named steps (`StartSteps`, `StopSteps`, ...),
one per await: a Docker call (`DockerCall`), a write (`Write`, with the status of
`StatusOf`), a wait for the agent (`Reach`), a look (`Verify`, `Inspect`). `Throw`
goes on with the operation's catch. `Crash` drops all that was in flight and begins
`reconnectRunningContainers` or `cleanupStaleContainers`.

`clean` is a history variable: an operation that ran alone and without incident has
settled the row, and nothing has overlapped or failed since.

Fairness: a call ends, with an answer or an error, and the health interval fires.

### BridgeConnection

`client[k]` is a `BridgeClient` object with its socket: `phase` is how far its
connection is, `cut` whether the agent has replaced it or the network has lost it
without the client having seen so. `map[i]` and `pending[i]` are the manager's `clients`
and `pendingConnections` of one container at instance `i`; `call[c]` is a `getClient`
that awaits the lease with the client it saw before. `platform` is the agent's
`platformWs` (`Gone`: a socket whose client has left it), `late` says that a replaced
connection has yet to close.

| In the module | In the code |
|---|---|
| `Ask`, `Blocked`, `Join`, `Listen`, `Make` | `getClient` before and after its await |
| `FirstTimesOut`, `FirstFailed`, `Connect`, `Unauthorized` | the promise of `connect` |
| `Replaced`, `LostAndRetried`, `LostForGood`, `Reconnect` | the client's close handler and its timer |
| `RemoveClient` | `removeClient` |
| `Accept`, `Authenticate`, `CloseOfPlatform`, `CloseOfReplaced` | the agent's connection, auth and close handlers |
| `Rotate`, `Store`, `RotationFails` | `rotateOne`: the agent's token, then the database's, or neither an answer nor an update |

`RotationFails` is everything that ends a rotation after the agent has swapped its token:
the answer is lost, the update throws, or the process dies. It models what becomes of the
token; the connections of a process that died are lost by `LoseConnection`.

Fairness: messages arrive, timers fire, the lease answers, health checks go on, and a
rotation ends. Nothing says that the agent notices a closed connection.

### ScheduleTick

`tick[r]` is the tick of a replica: the rows it has read and not yet fired (`todo`), the
one in hand (`row`), the time it began (`at`). `Begin` takes the lock and reads the
batch, `Fire` calls `executeWorkflow`, which runs the workflow inside the tick, `Ran`
is its end, `Update` advances the row from the tick's time and the cron it read.
`updateScheduleSidecar` is `ReadToEdit`, its `findUnique` with what follows from the row
it finds, and `Edit`, its `update` of the patch's fields: `editor[e]` is an edit between
the two. Time is a counter, and a cron expression the period of its
firings (`NextFireAt`). `runs` counts the runs of a key, `overtaken` holds the schedules
edited while a tick had read them, `contested` those edited while another edit had: all
three are history.

Fairness: timers, statements and runs end, and the lock of a dead replica expires.
The clock may stop.


## 4. What the runs show

Runs that pass:

| Run | Instance | Shows |
|---|---|---|
| `wallet_charge` | two requests, credits of two parts, costs of half and one and a half credits, one-off amounts, refunds of grants and of charges, three ledger rows | stale checks never overdraw the wallet, the ledger explains each balance, `lifetime` counts what was earned, the wallet implements `Account`, and the account of fractions is off by less than a credit for each charge that wrote over another's |
| `wallet_grant` | two claimers, two replicas, a daily and a monthly plan, two months, four ledger rows | a month is granted once even when a replica dies in mid-job and the lock expires; a day is claimed again only by a claim that another overtook between its check and its grant, and so it is with the month's cap until the cron touches the wallet |
| `workflow_runs` | two calls, with and without one key, limit 1, three rows, all faults | one run per event whose calls did not overlap, callers of an event agree while Redis works, a stored run has ended, the limit is exceeded by at most the calls in flight less one, completed is final, no run runs for ever |
| `workflow_steps` | three steps, one of each `onError`, all 64 graphs without self-loops, one retry, all faults | sources come first, nothing is under way at the outcome, a failure cuts off the later layers, a completed run has no failure the loop could have seen, the run ends |
| `lease_servers` | three servers, two on one port, two containers, three callers with three requests, two replies under way at one server, Redis failing one server, one that stops or dies | a holder renews its lease unless its renewals overlapped, a lease passes only between servers of one port, a lost lease leaves the local set |
| `buildspec_faults` | two attempts, six specs (invalid, dry run, in the user's project with an install the user has or with a generated plugin, in a new project with adopted rows and failures kept, in a new one of a user who has no default project yet), one stall, one attempt struck by any fault | a failed call leaves nothing it made but a default project, only tested workflows are live, a spec in the user's project loses none of the user's rows, the status is what happened, an ended run is not applied again, a run with a job ends |
| `container_alone` | two operations at once, two rows in turn, three requests, two faults, one crash of the platform | whatever has happened to a workspace, an operation that then runs alone leaves a row that tells the truth; a container that died under a RUNNING row is noticed |
| `bridge_faults` | two instances, a call in each, two clients, one reconnect, two faults, one rotation | the agent counts on one connection; while the stored token is the agent's, the platform is connected again, again and again, unless the token was rotated under a client it keeps |
| `schedule_ticks` | two replicas, one schedule, periods 1 and 2, two units of time, two edits (which may overlap), of the cron or of `enabled`, one fault | a firing runs once and once more per fault, an edit stands unless it overlapped another or was made under a tick, what is due is handled |

Runs that are violated, each of one property that a comment in the code states
(`PROJECT.json`, `findings`):

| Run | Property | What happens |
|---|---|---|
| `workflow_limit` | `WithinLimit` | two calls count the running runs before either has made its own: the transaction around count and creation (*executor* :175, "atomic check + create to prevent race condition") locks nothing |
| `buildspec_adopted` | `UserRowsKept` | a gateway or install that the user had is moved into the new project, and the rollback deletes that project with all in it |
| `bridge_rotated` | `Recovers` | a client keeps the token it was made with: after a rotation and a lost connection it is refused, its socket stays open, and the manager keeps it for ever |

`LimitOverrunBounded`, `OwnProjectIsSafe` and `RecoversUnlessRotated` are the weaker
properties that do hold.

Other places where the code does not do what a comment beside it says were met while
modelling. The properties of the passing runs except them by name, with a guard or a
history variable that says exactly when:

- Wallet: every tick of the cron resets the month's claimed total, so
  `ClaimsWithinCapButForOverlap` is about a wallet that the cron has not touched this
  month. "Can only claim once per calendar day" (*wallet* :652): two claims that overlap
  both pass the check of the day and of the cap, and both are granted; each such grant is
  a late one, and `ClaimOncePerDayButForOverlap` allows a second claim for it. Two charges
  that overlap read the same pending fraction and the later write wins: up to a credit,
  less a part, is lost or charged twice by each late charge (`NoFractionLostButToOverlap`).
- Workflows: a second delivery that arrives while the first executes runs again
  (`OneRunPerQuietEvent`); a step whose plugin is missing fails and the run completes
  (`CompletedMeansDoneIfSeen`); a run whose outcome cannot be written stays `running`
  until the cleanup (`RunEnds` counts the exception as an end, `EveryRunEnds` has the
  cleanup). A workflow without edges runs as one parallel layer, where the comments at
  *executor* :243 and :250 speak of a "linear fallback" and "all in order":
  `SourcesSettled` says nothing of steps that no edge orders.
- Build specs: `ensureDefaultProject` makes a default project without a rollback handle,
  and it stays when the call fails, where :121-123 of *orchestrator* says that "every
  resource created during this call is deleted": `NothingLeftBehind` excepts that row.
  "Race-safe: rely on the (userId, organizationId, slug) unique constraint"
  (`modules/project/project.service.ts` :106): the constraint does not bind rows whose
  organization is NULL, so two attempts may make two default projects. The check that a
  gateway's credentials are used once is apart from the insert, so two attempts may both
  insert. A spec without smoke tests passes them vacuously: `OnlyTestedActive` says that
  the test of the plan came first, whatever it tests.
- Leases: a release answered between a renewal's commands and its results shifts the
  positions, and the wrong lease is dropped (`QuietHolderRenews`). A steal that was decided
  on an older look may hit a server of another port (`OtherPortsRespected`, `raced`).
- Token rotation: a failed rotation logs that it is "keeping current token", which holds
  of the database and not of an agent that had swapped it. Then no client made with the
  stored token is let in. The recovery properties claim nothing while the two differ
  (`TokenIsStored`); nothing in the code brings them together again but a later rotation
  over a client that is still connected.
- Schedules: a tick runs workflows inline and may outlive its lock of 90 percent of the
  interval (*lock* asks for a time to live of at least the job's duration): the fault in
  `ExtraRunsNeedFaults`. Its late update overwrites the next firing that a user's edit
  has set: `overtaken` in `EditStands`. Two edits that overlap each decide by the row they
  have read whether to set the next firing, so one that disables it and one that sets what the other
  read may together leave an enabled schedule without a next firing or a disabled one with it:
  `contested` in `EditStands`. A firing that is refused is advanced, and
  counts as the last successful one.

Bounds, and why they are enough. Two requests, claims, calls, replicas, attempts or
operations show every pairwise interleaving, and the code treats all alike: there is no
action that looks at more than one other actor. Three ledger rows give a grant, a charge
and a correction, or a double grant with something between; `MaxRows` only
disables writes, it does not force any. Two months with two days each have
a repeated day, a next day and a next month. Three run rows are one more than the
calls, so that an event can be tried again after its run ended. Three steps make
chains, forks, joins, two- and three-cycles and a step behind a cycle. Two
claimers are one that is overtaken and one that overtakes; four rows are a grant and
three claims, or three claims and what comes between. Three
servers are a thief, its peer and a stranger, and two containers are two positions
in a renewal, with a release between its commands and its results (only one server has
two commands under way); calls are few because the scan of a starting server and the
timer add steals and renewals without bound. Faults of leases are confined to one server
each (`MCFaults`), so that `LossIsNoticed` can be checked over the same instance. The race that `OtherPortsRespected` excepts is
within these bounds: a thief looks, its peer dies, a stranger acquires, the thief
takes.

A build spec has one of each kind of row between its specs, because a statement
concerns one row; more rows of a kind repeat the step. One stall gives two attempts,
with an attempt of a live worker still under way. One attempt struck is enough to see
what the other makes of it; `hurt` says which. A workspace with two rows in turn is one
destroyed and made anew; `MaxFails` 2 and `MaxRestarts` 1 have a failure short of the
limit, a restart, and none left. Two clients per model are the one that is replaced and
the one that replaces; one reconnect attempt has a first, a last and a given-up one.
Two units of time let a schedule of period 1 fire twice, and be put off by an edit to
period 2; schedules meet only in a tick's batch, where one is handled after the other, so
one schedule has the interleavings of its own row with ticks and edits, and the theorems
hold of any number. Two edits are one that reads before the other writes; a patch gives the
cron or `enabled`, the two fields whose combination goes wrong. One fault is a tick that
outlives its lock, the case of two ticks at once.

The theorems remove these bounds for the properties they cover. Deadlock is not
checked: requests end, the calendar, the clock and the rows are bounded, and a run stops
when it has its outcome.

Every property of a passing run has a mutant: a plausible slip in one definition
under which TLC finds the property violated.

## 5. What is proved

`CreditWallet_proofs`, for every set of requests, claimers and replicas, every plan
table, cost and amount, under the assumptions `CreditWallet` names on its
constants (amounts are positive, `NoReplica` is no replica, plans are well typed):

- `TypeCorrect`: `TypeOK`, which is inductive.
- `NeverOverdrawnHolds` and `LedgerExplainsBalanceHolds`, from the inductive
  invariant `IInv == Frame /\ NeverOverdrawn /\ LedgerExplainsBalance`. `Frame`
  adds to the types that nothing is posted before the wallet is opened and that a
  monthly grant under way is positive. It is needed because the other two say
  nothing of what a step still in flight is about to write. The argument is that every action opens the wallet, posts one row
  by `Post`, or leaves balance and ledger alone (`StepShape`), and that each posting
  of a debit carries its guard in the same transaction.
- `WalletImplementsAccount`: the refinement, from the same `StepShape`.
- `MonthlyGrantOnceHolds`, from `MonthInv`: the replica at work has the lock, so what it
  checked still holds when it grants (the last reset is before the grant's month), and no
  grant in the ledger is after the last reset. It rests on the lock outliving the job.
  Everything but the cron touches none of this (`Mundane`).
- `LifetimeIsEarnedHolds`, from `LifetimeInv`, for every number of writers that overlap. A
  sum over the ledger's rows is taken apart row by row: a row that is appended adds its
  amount, and the others keep theirs. That such a sum depends on nothing but the rows it
  is over is shown by a smallest set of rows for which it would.
- `NoFractionLostButToOverlapHolds`, `ClaimOncePerDayButForOverlapHolds` and
  `ClaimsWithinCapButForOverlapHolds`, for every number of requests and claimers that
  overlap in any way. The code reads, decides and writes in separate statements; the
  theorems say what each write over a value that has changed since can cost, and that
  nothing else costs anything: not a death, the cron, midnight, or a change of plan. The
  invariants say of a call at the point of writing, unless it is stale, that what it has
  read is still there and that the last claim the check saw is still the last; the
  claimed total accounts for the month's claims but for a cap per late grant; and a stale
  call is paid for when it writes, by `lateCharges` or `lateClaims`.

`WorkflowRuns_proofs`, for every set of calls and keys and every limit:

- `TypeCorrect`, `StoredRunHasEndedHolds`, `CallersAgreeHolds`, from
  `IInv == TypeOK /\ CallsFit /\ OwnRun /\ StoredRunHasEnded /\ AnswersStored`. A
  call's run is its own (`OwnRun`) and carries its key (`CallsFit`); what was
  answered is what Redis holds (`AnswersStored`), and SET NX never changes it.
- `CompletedIsFinalHolds`: an executing call's run is not completed, so neither
  `Finish` nor the cleanup takes a completed run back.
- `LimitOverrunBoundedHolds`, from a second invariant: running rows plus calls that
  have been admitted and not yet created theirs are at most the limit less one plus
  the number of calls.
- `OneRunPerQuietEventHolds`, from a third: at most one call is about an event that nothing
  has disturbed, and where it stands says whether the event has no run, that call's run,
  or the run that is stored (`Handled`).

`WorkflowSteps_proofs`, for every finite non-empty set of steps, every set of
graphs, every `onError` and number of retries:

- `TypeCorrect`, `OutcomeIsLastHolds`, `FailureCutsOffHolds`,
  `CompletedMeansDoneIfSeenHolds`, from
  `IInv == TypeOK /\ Partition(layers) /\ Turns /\ StepsFit /\ OutcomeFits`. The
  layers are a partition of the steps (`LayersType`); steps of earlier layers are
  settled and steps of later ones wait (`Turns`); a fatal failure is one of the
  current layer (`StepsFit`). None of the three properties is inductive without
  knowing that no step is in two layers.
- `SourcesSettledHolds`: what Kahn's algorithm computes for every graph. A step that has
  lost all its sources is in the queue of its round (`FreeIsQueued`), so a step is in a
  layer after all its sources (`RoundsOrdered`). What no round takes is put into one last
  layer; since the rounds are nonempty until they stop, they cannot be more than the
  steps (`QueuesAreSteps`, an injection), so each step that is left has a source that
  is left (`RestHasSources`): it is on a cycle or behind one. The steps of earlier layers are
  settled (`Turns`), and the layers stay as ordered as they are laid out (`Ordered`).

`BridgeLease_proofs`, for every set of servers, ports, containers and callers:

- `OtherPortsRespectedHolds`, from the inductive invariant
  `IInv == LeaseType /\ RepliesType /\ RepliesFit /\ LooksFit`. `LooksFit` says that
  what a thief has seen is still true, up to the server within its port, unless the
  container was freed meanwhile: a steal by a peer keeps the port, and a free lease
  that a thief watches is noted in `raced`. Without it nothing connects the GET of
  `acquire` with its SET. The set `heldLeases` is not needed for it.
- `TypeCorrect`: also that the local set, a sequence here, repeats no lease.
- `QuietHolderRenewsHolds`, from `RenewInv`: a server whose renewals and releases have not
  overlapped, and which Redis names as holder, has the lease in its set, or
  a reply under way that puts it there; and so it stays as the replies are handled in
  turn, because behind each that would take the lease out comes one that puts it back
  (`Fit`, over the whole queue of replies). The results of a renewal are matched
  to the set by position, which is right as long as nothing has left the set since: this
  is where `disturbed` is needed. To delete from the set is the recursive
  function `Without`, about which the proof argues by the first place where it would be wrong.

`BuildSpecRun_proofs`, for every set of specs of the type that `SpecsAssumption` names,
every finite number of attempts, every set of faults and number of stalls:

- `NothingLeftBehindHolds` (of every row but a default project), `OwnProjectIsSafeHolds`, `StatusIsTrueHolds` and
  `EndedIsFinalHolds`, from `IInv == ApplyInv /\ WorkerInv /\ StatusInv`. `ApplyInv` says
  that an attempt no fault struck has a handle of every row of its own but a default project (`Handles`), that
  one which has ended without applying has no handle left (`Outcome`), and that no handle
  is of a project when the spec names the user's. A step of an attempt is then one of
  three (`Moved`): a row of its own comes, with its handle unless it is a default project, no row comes or goes, or rows
  go of which it has handles, with what is in them. What other attempts do can only take
  an attempt's rows away, which disturbs none of this. `WorkerInv` adds that without
  overlap a worker at work has the job of a run that has not ended, and `StatusInv` that
  a status is some attempt's outcome.
- `OnlyTestedActiveHolds`, from `LiveInv`: an attempt that has the smoke tests of its plan
  behind it has passed them or keeps failures, and so has the attempt of each live workflow.
  `PlanTestsFirst` says that in the plan of every spec, whatever its lists of gateways,
  plugins, workflows and resources, the smoke tests come before the first activation; it
  is read off the flattened sequence part by part (`FlattenType`, `PartsAreQuiet`).
- `TypeCorrect`: rows are of attempts or the user, and each is in a project that is a row.

`ContainerLifecycle_proofs`, for every number of operations in flight, rows, requests,
incidents, crashes and restarts:

- `TypeCorrect`: among others, no interleaving of health checks counts more restarts than `maxRestarts`.
- `AloneTellsTheTruthHolds`, from `TypeOK /\ Carrying /\ Alone`. The property says nothing
  while an operation is in flight, so it is far from inductive. `Carrying` says that what an
  operation still has to do is a chain of steps, each with one of few successors, that ends in
  a status, and what it answers an error with. `Alone` says that one that has run alone
  `Knows`, at each step, what the row and the container are: they are the ones it works
  on, the container is in the state that the step before left it in, and the status about to be
  written is true. It needs nothing of the past but the types and the chains, since an operation
  reads the row when it begins; that is why earlier faults and overlaps do no lasting harm.

`ScheduleTick_proofs`, for every finite set of replicas, every set of schedules and crons
and every bound:

- `ExtraRunsNeedFaultsHolds`, a counting argument. For a key, the runs it has had, plus
  one if its own run is still to come (`Open`), plus the ticks that have lost the lock and
  may run it or set its schedule back to it (`Threats`), are at most `1 + faults`
  (`OwedInv`); and the ticks without the lock are at most the faults (`Loose`). The
  property alone is not inductive: a step that begins a run must pay with its key's
  openness or with a loose tick. `RunInv` says that what ran was due when the tick with
  the lock began, so that its update never makes an old key due again.
- `EditStandsHolds`: a tick's read of a schedule that was not overtaken has its row's
  cron, and what an edit of an uncontested schedule is about to write agrees with the row
  it has read (`EditInv`); `NextFireAt` is a multiple of the cron above the time.
- `TypeCorrect`, from the same `IInv`.

`BridgeConnection_proofs`, for every number of clients, callers, instances, faults and
rotations:

- `TypeCorrect`: clients are made from the free ones, each with the token of its call. That
  a finite set of numbers has its n smallest (`SmallestExist`) is all it needs to argue.
- `OneConnectionHolds`. The property is inductive once the fields of a client are known:
  each action moves one client on, or makes one leave (`OneMoves`), and only `Accept`
  brings a client to be served, which cuts the one before.

Each theorem is about the specification `Spec` of its module and from
no assumption but the module's own on its constants. Recursion needs a word: the
library's induction theorems cannot be used by the installed provers, which do not
instantiate their operator parameter. So what the models compute by recursion are functions
over a set of numbers, and what holds of them is proved by contradiction: were there an
exception there would be a least one (`Least`, from the well-founded order of the
numbers), and the function's definition at that place rules it out.

Only model-checked: liveness (`EveryRunEnds`, both `RunEnds`, `LossIsNoticed`,
`DeadIsNoticed`, `RecoversUnlessRotated`, `DueIsHandled`) and with it anything
about ENABLED, which this prover does not reach. Every safety and every action
property of the passing runs has its theorem. The properties of the violated runs do not hold.

## 6. What the models leave out, and assume

- The lock of the credit cron outlives the job, except where `LockExpires` frees the lock
  of a replica that died; that of a schedule tick may lapse under it, as a fault.
  Idempotency keys do not expire (24 hours are longer than any behaviour of interest).
- A container that is paused under a RUNNING row, as a crash between pausing it and
  recording so leaves one: the health check takes a paused container for healthy, and
  `DeadIsNoticed` is about a container that has exited.
- The plan a claim reads is read together with the wallet row.
- A fraction of a daily claim (3.3 credits on one plan) is external: the columns
  are integers, and what the database client does with a fraction is not in this
  repository. Claims are whole here.
- Budgets of departments and members; the other kinds of AI requests, which make
  the same calls in the same order; `resetMonthlyUsage`, which nobody calls.
- Templates, outputs and logs of steps; counters on step definitions; the
  automatic reply after a run. Graphs have no self-loops.
- Editing workflows while they run, and the retention of old rows.
- `holdsLease` and `disconnectAll`, which nobody calls; the wait of a server for
  Redis longer than a lease lives.
- Build specs: validation and the smoke tests' inside (they pass or fail), credentials
  and columns, and the retry of a job, which has no effect because `failRun` ends the
  row first. The queue gives out jobs, although no file of the repository calls
  `createBuildSpecWorker`. A row whose request died before it added the job stays QUEUED,
  and one whose job stalled twice stays RUNNING: `RunEnds` is about runs with a job, and
  counts a job the queue has given up. If an attempt applied, its worker died before it
  recorded so and the next attempt fails, the row says FAILED and the rows are there: the
  last part of `StatusIsTrue` is about runs that one attempt had.
- Workspaces: `autoRestart` is on; errors of the database; a changed port; the plugin
  processes. What follows from the code and `AloneTellsTheTruth` excepts: a start and a stop
  that overlap leave a row that says either; a failed reconnection at boot marks a running
  container STOPPED; a container created just before a crash has no id in its row and is
  not removed by a destruction, and its name then blocks the next creation. The sweep of
  transitional rows runs at boot only.
- Bridge: requests over a connection, heartbeats and messages of plugins. The lease is
  taken, lost and given back but not renewed (that is `BridgeLease`'s subject). Calls
  waiting for a client to reconnect are counted to `MaxHeirs`. A connection that is replaced
  just before it authenticates starts the agent's heartbeat on a socket that is closed
  already; the heartbeat is left out.
- Schedules: Redis being down at the lock is an unsuccessful acquire; deletions; a schedule
  without a workflow is a refused one. `Begin` joins the lock and the read of the batch,
  between which nothing happens that the read does not see; a tick that finds nothing due
  changes nothing.
- Not modelled, with the reason under `components` in `PROJECT.json`: the circuit breaker
  (one process's state around remote calls), the webhook replay cache (one SET NX before the
  handler), the allocation of resources (sums over rows), authentication, organizations,
  marketplace, support and alerts (sequential handlers over single rows), the AI agent and
  code assistant (prompts and tool loops, whose control is the model's output), the frontend.
  These are most of the repository's lines. The modelled parts are those in which the order
  of concurrent steps decides.

## 7. Running it

    tlc -workers 2 -config MC_CreditWallet_charge.cfg MC_CreditWallet
    tlapm CreditWallet_proofs.tla

The other runs are listed in `PROJECT.json` with their module and configuration;
each takes less than three minutes, `bridge_faults` and `buildspec_faults` among the longest.
