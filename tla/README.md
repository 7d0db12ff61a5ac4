# Formal models of keepup

keepup is a framework for panels and services in Python: a kernel that starts
plugins, and capabilities (sign-in, audit, cluster control, gateway, metrics,
log shipping ...) that an application enables. One application runs as several
replicas against one database, and almost everything that is hard about it
comes from that: statements of different replicas interleave, every statement
runs in a thread that outlives the coroutine awaiting it, and processes end
between any two of them.

This directory holds TLA+ models of those parts, the TLC configurations that
check them on small instances, and TLAPS proofs of what matters most for
instances of every size. `PROJECT.json` lists the components, the runs, the
lines of code each definition stands for, what can go wrong in the code
(`hazards`) and where code and documentation were found to disagree
(`findings`).

## The system and its parts

| Part (under `src/`) | State | Operations | What is hard, what makes it correct |
|---|---|---|---|
| distributed lock: `locks.py`, `instance.py`, `lock_routes.py` | a row of `distributed_locks`; per loop the lock object and its renewal task | acquire, stale sweep, takeover, renew, release, force release | renewals race with the judgement that a row is stale; cancelled coroutines leave their statements running; two loops of a process share an identity. Mutual exclusion; a crashed holder's row is cleared |
| plugin runtime: `kernel/lifecycle.py`, `services.py`, `loader.py` | the states of the plugins, the service registry | decide, register, initialise, check, create tables, freeze, mount, stop | a plugin may fail at each call and leave half of its work behind; two phases decide with different authorities. What a started runtime guarantees |
| routes and calls: `kernel/contributions.py`, `call.py`, `route_mask.py`, `keepup-http/routes.py` | declarations, the application's routes | collect, bind, mount, call | two registrars for one declaration; masks, verbs and paths that overlap. A handler runs with what was declared, once |
| body limits: `keepup-http/body_limit.py` | what a request has received so far | receive, send, refuse | the refusal is decided while the application reads. Nothing is done under a 413 |
| cluster: `keepup-cluster/cluster.py` | `cluster_members`, `cluster_commands`; the controller of each process | heartbeat pass, panel request, stop, start, restart | check-then-insert over two tables, claims that lose their process, restarts that must report themselves. Commands close, are not reopened, and what was reported stays so |
| request audit: `keepup-audit/audit.py` | a buffer of requests, in memory | start, end, flush, evict | requests end while a flush writes, fails or is cancelled. Each request is written once, with its outcome, or counted as dropped |
| event log, integration log: `events.py`, `events_api.py`, `trail.py`, `keepup-integration-log` | three tables | insert, list by pages, sweep, purge | sweeps and purges that overlap each other and a reader |
| gateway registry: `registry.py`, `announcer.py` | a table of leases | register, deregister, announce | statement-by-statement registrations. A prefix belongs to one service |
| gateway proxy: `proxy.py`, `sockets.py`, `table.py`, `balancer.py`, `headers.py`, `identity.py` | a copy of the registry; a turn and cooldowns per route | match, recognise, forward, retry | a stale copy; what may be sent twice; who a service believes is calling |
| panel sessions: `panel_session.py`, `session_lifetime.py`, `dependencies.py`, `routes.py` | `auth_session` rows, tokens | sign in, renew, sign out, revoke, purge | renewals and revocations in parallel; ceilings on a session's life |
| second factor, throttle: `mfa.py`, `login_throttle.py` | `auth_totp` and `login_attempts` rows | enrol, confirm, verify, disable; reserve, clear | a code is spent once; attempts are counted before they are looked at |
| socket sessions: `socket_sessions.py`, `websocket.py` | the sockets a replica holds | hold, sweep, wake | revocations heard late or not at all |
| accounts: `user_roles.py`, `seed_accounts.py`, `user_routes.py`, `external_accounts.py`, `oidc_routes.py` | users, roles, permissions | seed, register, change, block, sign in from outside | an administrator is left; first sign-ins that overlap |
| external identity: `identity/runtime.py`, `access.py` | two caches | ask about a token, about an action | answers that are remembered, late, or about to end |
| notification bus: `notification_bus.py`, `keepup-postgres/transport.py` | a listener, its subscribers | publish, dispatch, reconnect | best-effort delivery; own envelopes skipped |
| replica caches: `cache.py` | entries with a lifetime | get, invalidate, tell the others | a load that overtakes an invalidation |
| section catalogue, themes: `catalogue.py`, `keepup-ui/themes.py` | sections, grants, themes | import, synchronise, grant, activate | calls of several statements in several replicas that start meanwhile |
| log shipping: `log_shipping.py` | a bounded queue, batches in flight, backoff | emit, flush, flush at exit | loss when flushes overlap and fail |
| metrics: `collector.py`, `retention.py`, `api.py` | `system_metrics` rows | measure, sweep, thin, read | a sweep must not take what is read |
| database access: `keepup-db/manager.py` | a pool, a session per scope | statements, shared blocks, hand-over to threads | whose session a statement runs on; waiting at the pool's limit |
| scheduler, signing key, drivers, kernel security and observability | see `PROJECT.json` | | not modelled, or as one bit of another module |

How they interact: the lifespan starts the runtime, the runtime's plugins own
the background loops, and the loops enter the distributed lock. The cluster's
controller pauses and resumes the scheduler, and a gate asks it for the state
of the replica. Audit, events and metrics sweep their tables under the lock.
Session revocations and cache invalidations travel over the notification bus.
Everything that replicas share is in the database.

## The modules

| Module | Models | State and actions in terms of the code |
|---|---|---|
| `DatabaseLock` | `locks.py` and the force-release route | One `Handles` element per loop that enters `distributed_lock(name)`. `owner`/`age` are the row; `pc` is where the coroutine waits (one action per statement: `Cleanup`, `InsertRow`, `InsertConflict`, `Lookup`, `Takeover`, `Release`; `Stamp` and `Decide` are the computations between two awaits); `renewal` is the task `keep_saying_still_here` (`Wake`, `Renew`, `RenewError`); `strays` are UPDATEs whose task was cancelled in `Finish` and whose thread is still on its way |
| `Mutex` | what a lock promises its callers | the callers inside; entered by one at a time. `DatabaseLock` implements it with `inside` the handles at work |
| `PluginRuntime` | `Runtime.start()` and `stop()`, `ServiceRegistry`, `enablement.resolve`, the lifespan | `stage` is the line of `start()`, `todo` what its loop has still to visit; `Register`, `Initialize`, `Check` are one turn of the loop for one plugin, with every way the plugin can fail; `published`, `required`, `built`, `frozen` are the registry; `handed` is a history of whose object each plugin received |
| `RouteCalls` | declarations, masks, mounting and one call | `manager` and `kernel` are the declarations each of the two registrars has; `Bind`, `Collect`, `Mount`, `Serve` make `table`, the routes in their order; `Ask` is a request that the first matching route answers. Values are told apart by what the converters do with them |
| `BodyLimit` | `BodyLimitMiddleware` between a server and a route | `received` counts what the middleware let through and what the application was given; `ReceivePiece`, `Disconnected`, `NoMoreBody` are the branches of `counted_receive`, `Handle` and `Refuse` go through `guarded_send`, `Finish` is what follows the application |
| `Cluster` | `cluster.py` | `Ask`, `ReadOpen`, `Record` are the three statements of `give_command`; `Publish` ... `Prune` the statements of one `tick`; `Execute` and `Finish` what `execute()` does on the loop, in one piece as far as cancellation goes; `Boot` is `launch()` with `restore()`; `Restart` is SIGTERM, shutdown, exec; `Ended` is the host's SIGTERM or SIGKILL. `told` is a history: what the last command reported of a replica |
| `Assignments` | what cluster control promises whoever gives a command | who each command was given to, what nobody may take any more, what each worker is at. `Cluster` implements it with the addressee in the row, every status after `pending`, and the command a pass holds |
| `AuditBuffer` | `audit.py` of keepup-audit, and the shutdown of its plugin | one `Requests` element per recorded call; `phase` is how far its route is, `entry` what its dict says. The buffer's lock is never held across an await, so `Start`, `Ends` and `Take` are one step each; `chosen` is what the flush under way has taken out, `holder` who holds the flush lock (the timer, a task a full buffer started, the last flush). `before` is the order of the dict, which decides what is evicted. `astray` is what a cancelled flusher had taken out: its thread still writes |
| `CallRecords` | what the audit promises of a call it records | the record of a call is kept and becomes, once, a row, dropped or lost, and a row says what its call has told. `AuditBuffer` implements it: `Fates` reads the record off the table, the history of evictions and the memory, `Tells` off how far the route is |
| `Journal` | the event log, the audit rows once written, the integration log | a behaviour is about one table. `Write` is an insert, `ReadChunk`/`DeleteChunk` a sweep, `DeleteOlder` and `CountOld`/`DeleteCounted` the purges an administrator asks for, `Open`/`Count`/`ReadPage` a listing turned page by page; where code counts first and reads after, those are two steps |
| `LogShipping` | `RemoteLoggerWrapper` | `Take` and `PutBack` hold the lock, `Deliver` and `Fail` are the POST without it; three flushers (the worker, cleanup, the end of the process) overlap. `received`, `gone`, `reported`, `overlapped` are histories |
| `GatewayRegistry` | `registry.py`, `announcer.py` and the registration route of keepup-gateway | one `Apps` element per announcing address; `app` is where its announcer's loop is (`Send`, `Wake`, `GiveUp` at the client's timeout, `Stop`, `Crash`). `call` holds the announcements some replica is handling, with `pc` at the next statement: `Check` (a SELECT per prefix), `List`, `Delete`, `Put` (an upsert per prefix), `Withdraw`. `life` is `expires_at` less the time. `news` is a history: the rows written while a call is under way |
| `GatewayTable` | `table.py`, `headers.py`, `identity.py` | operators only: `Match`, `Servable`, `Parsed`, `ToUpstream`, `Verified` |
| `GatewayForwarding` | the proxy of one replica | `copy` and `readAt` are the registry's copy and its stamp; a request goes `Arrive`, `ReadRows`/`ReadDone`/`ReadFails`, `Recognise`, `Send`, and then answers, fails or is refused by one address after another; `turn` and `cooling` are the balancer |
| `PanelSession` | rows and tokens of one account's sessions, on a clock | `CheckPassword` and `SignIn`, `Authorise` and `Renew`, `OwnerOfCredential` and `CarryOn` are the statements of the routes; `ChangePassword`, `ReadStatus`, `Block`/`WriteBlocked`, `RevokeAll`/`RevokeFails` those of an administrator's request, of which `admin` has several; `PurgeExpired` is the start's. `changes` numbers what was to end the account's sessions, and a row remembers how many there had been when it was `opened` |
| `SignIn` | the throttle, the password and the second factor | `Login`, `Reserve`, `Prove`/`Refuse`, `Present`, `ClaimStep`/`ClaimRecovery`, and the enrolment `Begin`, `Replace`, `Confirm`, `Confirmed`, `Disable`; `checked` and `spent` are histories |
| `SocketSessions` | the sweeper of every replica over the bus | `Begin`, `Read` and the closing are the steps of `sweep()`; `woken` is its event; a revocation is written, then told |
| `NotificationBus` | what every other module hears by | `listening` and `inbox` per replica: `Publish` puts an envelope into the inbox of every other replica that listens; `Listen`, `BreakOff`, `Silence` are the connection |
| `ReplicaCache` | `cache.py` | `Load` and `Store` are the two halves of `get()`, with the lock free between; `InvalidateEverywhere`, `Send`, `Drop` are the ways of an invalidation |
| `Themes`, `Sections`, `PanelData` | the two things the panel reads through a cache, and their composition | one action per statement of the administrators' calls and of the start of a replica; the UPDATE that makes a theme active is two, `ActivateBegins` with the rows it `sees` and `ActivateCommits`, since another's may lie between; `PanelData` joins both to one `ReplicaCache` and adds the readers and the restarts |
| `Accounts` | accounts, roles and permissions | starts (`BeginStart`, `EnsureAdmin`, `EnsureSystem`, `CommitStart`, `RollBack`: one transaction), changes (`CheckChange`, then `SetRoles`, `SetStatus`), registrations, and sign-ins from outside (`FindAccount`, `ChooseName`, `InsertAccount`, `FirstRoles`, `Grant`, `SyncRoles`, `OpenSession`) |
| `Identity` | an external identity provider's word | what is remembered is kept as the time it has left; `TokenAnswered` and `RightAnswered` are late answers of what held at some moment of the call |
| `Snapshots` | the metrics table | `Save` a measurement, `Begin`, `Read`, `DeleteChunk`, `PageDone` the sweep; `History`, `LatestValue`, `Online`, `Summary` are what is read |
| `ConnectionPool` | sessions, blocks and statements of the threads of a process | `context` is the context variable a hand-over copies, `Joins` asks whether a statement runs in the block; `Take`, `Statement`, `EndCall`, `EndBlock`, `Raise` |
| `...Proofs` | theorems | `ClusterProofs` about the module it is named after; `DatabaseLockProofs` about `DatabaseLock` and the faulty replicas of `MCDatabaseLock`; the others about a composition: `ServingProofs` about runtime, routes and bodies (`MCApplication`) and about what is read through the caches (`PanelData`), `GatewayRegistryProofs` about the registry and forwarding (`MCGateway`), `AuditBufferProofs` about the audit and log shipping (`MCTrail`), `StoredProofs` about the pool, the journal and the snapshots (`MCStored`), `SignedInProofs` about sessions, sign-in and sockets (`MCSignedIn`), `PeopleProofs` about accounts and identity (`MCPeople`) |
| `MC...` | | the instances: model values, and the composition of the parts one run checks |

Composition. `GatewayForwarding` uses `GatewayTable`; `PanelData` extends
`Themes` and `Sections`, both of which extend `ReplicaCache`, which extends
`NotificationBus`; `SocketSessions` extends `NotificationBus`. Parts that share
no state (`SignIn` and `PanelSession`, `AuditBuffer` and `LogShipping`, ...) are
put into one run by an `MC` module whose variable `which` says, from the initial
state on, whose behaviour it is; the other parts stay at rest. Nothing is
multiplied by that, and each part has the behaviours of its own specification.
The proofs of a part are about the composition, so what they state is what the
run checks. `SocketSessions` occurs twice: in `MCSignedIn` for what is safe of
it, and alone, under fairness, for what must come to pass.

Time. `DatabaseLock` counts ticks, since the lock is about time: all stamps are
kept as ages, a comparison of stamps becomes one of ages, and ages are capped
above all that a comparison can tell apart (`AgeCap`). `Cluster` has no clock:
the three limits of the module (silent, a day old, late) are passed by steps of
the environment, which covers all timings, and only a replica that is not
running may be silent. `GatewayRegistry` and `Identity` keep what is left until
a moment or what has passed since. `PanelSession`, `SignIn`, `ReplicaCache`,
`GatewayForwarding`, `Journal` and `Snapshots` have a clock that stops at
`MaxTime`; all of them let any number of steps happen within a tick.

## Runs

| Run | Instance and bounds | What it shows |
|---|---|---|
| `Lock` | two loops of one replica and one of another, `MaxLockTime` 19, statements take up to 1 tick, one renewal may fail; and two replicas with `MaxLockTime` 3, one crash, every fault | `ImplementsMutex`, which is mutual exclusion, for the first; for the second a late finisher does not touch the new holder's row, an abandoned row is cleared, a holder that lost its row learns it |
| `LockTakeover` | three replicas, one crash | violated: the takeover's DELETE removes the row of a holder at work (see the findings) |
| `Application` | five plugins, three services, 385 deployments, every failure; two declarations out of a set that has every kind of verb, mask and right, verbs in lower case and masks that name the caller among them; bodies up to 5 bytes in pieces of 1 and 2 against the limits 1, 2, none and the default of 3 | `RunsAsDeclared` and `StartsAndStops` of the runtime, `ServesAsDeclared` of what it mounts, `LimitIsKept` of a body |
| `Cluster` | two replicas, two commands, one end of a process, one failing statement, forced stops | one command is open at a time; what was reported survives restarts and the scheduler follows it; commands never reopen, always close, and a restarted replica is back; each is carried out at most once and by its addressee, as `Assignments` has it |
| `Trail` | two requests, a buffer that is full with one, one failing write; four records, a queue of three, two failing deliveries | the buffer implements `CallRecords` (outcomes reach their rows, rows stay as they are, what was dropped stays away), nothing disappears uncounted, records arrive in their order unless two flushes overlap, what finished is written, every flush ends |
| `Gateway` | two services, three prefixes, two overlapping calls, two starts, one failure; two requests, to a route for all or one for who signed in, one registration or withdrawal, readings that take a tick | a held prefix is not taken and an uncontested service ends up listed; a change is not overlooked beyond its time, an unsafe method is sent once, a service knows who calls |
| `GatewayRace` | two services, no failure | violated: two overlapping registrations both get one prefix (see the findings) |
| `SocketSessions` | two replicas, two sockets, one session, two faults, of which one may be a broken connection; fair | every revoked socket closes, and nothing waits for ever |
| `PanelData` | two replicas, two themes, two sections of which the file grants one, one administrator's call besides a start, one failure, one broken connection | staleness ends with the lifetime and is explained before; a call alone ends as it was meant, and activations that overlap leave what their snapshots let them |
| `SignedIn` | two sessions, two requests, one change of the account and any unblocking by others; two calls of the sign-in, two secrets, one failing statement; two sockets in two replicas, one broken connection, one failing read or ended replica | a change ends what was there, windows hold, attempts are limited, a code lets in once, a replica that was told of a revocation looks again |
| `People` | four accounts, two calls at a time and three in all; two requests to the identity provider, rights kept here with tokens remembered (an identity may end), or there with decisions remembered | an administrator remains, accounts stay their owner's, what is acted on was said lately |
| `Stored` | two replicas, four snapshots; three rows of a journal, two sweeps, a purge and a reader who takes two rows a page; two threads with two connections, three inserts | sweeps take nothing that is read, pages miss nothing, calls are whole, nobody waits holding a connection |

A property that joins several is a conjunction of named ones, each with its own
comment (`RunsAsDeclared`, `StartsAndStops`, `ServesAsDeclared`, `LimitIsKept`,
`ReplicaIsAsReported`, `CommandsComeToAnEnd`, `NothingGoesAstray`,
`CallsEndAsMeant`, `SessionLastsAsPromised`, `LetInAsThemselves`,
`CallsAreWhole`, `SweepsTakeOnlyTheRest`).

Exceptions a property names are the code's, and worth reading as such:

- `AnAdministratorRemains`: two changes that overlap may each end an
  administrator, which `user_roles.py:177-178` leaves to "the database, as
  before"; and a sign-in through the provider recomputes the roles of the last
  administrator without asking (`sync_roles`).
- `ChangeEndsEarlierSessions` is about sessions opened before the change. A
  sign-in that had verified the old password opens its session afterwards, and
  that session lives on. A change spares the sessions where its revocation
  failed, and where it is a block by a request that had read the account as
  blocked before somebody unblocked it (`user_routes.py:308`).
- `StaleIsExplained`: a load that overlapped a change may store what it read
  before it, beside the envelopes that were lost and the calls that failed.
- `CodeLetsInOnce`: an account that enrols anew between the reading of the row
  and the statement that claims a code may have one accepted again; the claim
  names the account and not the secret.
- `OneThemeIsActive`: a `create_theme` whose activation fails, or whose process
  dies, leaves one more active theme for each time; and so does an activation
  that commits when another theme has become active since its statement began.
- `PagingMissesNothing`: rows with one moment have no fixed order between pages,
  and a row that arrives between the count and the page pushes the last one off.

Why the bounds are enough. A lock needs two contenders for every race and a
third for the takeover (one that died, two that find it); the interesting
times are a beat, a statement and the stale limit, and the prompt instance meets
the budget with equality (`2 * (6 + 2) + 3 = 19`): one tick less and mutual
exclusion fails. In `PluginRuntime` each kind of plugin occurs, a provider and a
second provider of a service, a consumer in each phase, and each deciding voice
for each of them; a failure may happen at each call. Two declarations are what a
duplicate or an overlap takes. `Cluster` has a replica that may die and one that
may not, so every command of the first can be closed by the second, and two
commands are what one replica's "one unfinished command" is about. In
`AuditBuffer` one request is written, put back or evicted while the other starts
and ends. `LogShipping` has one more record than the queue holds and two batches
at once. `GatewayRegistry` needs two services to contend, two calls to overlap,
and a restart with another configuration; a lease of 4 is longer than two
handlings and an interval, as the 30 seconds of the code are longer than 10 and
twice the client's 5. `GatewayForwarding` has two addresses, so a first may fail
and a second be asked, and a reading that lasts as long as the copy is fresh.
The sessions' clock runs over a token's life and two windows; two sessions and
two requests let a renewal, a revocation and a purge cross. That two sockets of
different sessions do not disturb one another's closing is in `SignedIn`, which
has two sessions; whether one closes is a matter of one session and of what may
be missed twice, which is what `SocketSessions` has. A cache's clock runs
past one lifetime and one load. Two sweeps, one late row and a batch that ends
inside a bucket are every way a bucket's point can be lost. The pool has as many
connections as threads: one block and one call more would have to wait.
Every bound is a constant named in the configuration (`MaxCrashes`,
`MissBudget`, `MaxCommands`, `MaxEnds`, `MaxErrors`, `MaxFailures`, `MaxBoots`,
`MaxHandling`, `MaxTime`, `MaxChanges`, `MaxFails`, `MaxBreaks`, `MaxFaults`,
`MaxCalls`, `MaxAccounts`, `MaxLogins`, `MaxSecrets`, `MaxRows`, `MaxRecords`, ...).

Deadlock is checked in `Lock`, `Cluster`, `Gateway` and `SocketSessions`. The
other runs have behaviours that end: a deployment that stopped, a request that
was answered, a clock at its bound.

Symmetry is used where the values are alike and no property is about liveness.

Fairness. The loops of the code are endless and its statements return, so
`Proceed`, `Beats`, `Stray` and `Tick` are weakly fair in the lock, `Pass`,
`Restart`, `GoesLate` and the return after an exec in the cluster, the turns
of a start or stop in the runtime, the flushes of the audit and of log shipping,
and the sweeper of the sockets: the event loop runs what is ready, sleeps and
writes end, and asyncio's lock wakes the task that waited longest. In the
gateway the announcer's loop (`Wake`, `Send`), the statements of a call
(`Serve`) and the clock are fair. Failures are bounded in number, so
`EveryRequestIsWritten`, `RevokedSocketsClose` and `UncontestedIsListed` say
what happens once statements succeed again: with a database that fails for ever
none would hold, of the model or of the code. Nothing is assumed of the work
inside a lock (`Finish`), of a process the host ended, of faults, or of
administrators.

## What the models leave out

What each component leaves out is in its `note` in `PROJECT.json`. What a
reader should know before trusting a result:

- `DatabaseLock`: the clocks of the replicas agree (ages are exact). What a
  unique conflict is called by a driver, and `lock_stats()`, which only reads,
  are not modelled.
- `PluginRuntime`: `wants` (reported, never enforced), the order of
  `post_construct` hooks, the identity adopted after the optional tables.
- `RouteCalls`: the permission asked before a handler is one constant
  (`HasChecker`); files and forms, and transports other than HTTP, are left out.
- `DatabaseLock`: the INSERT of a task that is cancelled lands at the
  cancellation or never, not later. `Cluster`: the two UPDATEs of
  `expire_commands` are one step, and neither a failing `_close_restarts` nor an
  exec that fails is modelled. `RouteCalls`: a mask that declares nothing is no
  mask. `Themes`: the page a theme shows, which creating it again rewrites.
  `SignIn`: an attempt is counted and the password looked at in one step.
  `Accounts`: the roles of an account and the number of administrators are one
  reading. `ConnectionPool`: a COMMIT that raises has not committed.
- `Cluster`: the nudge that shortens a pass (it changes when, not what), an
  identity another process took over, a replica so slow that it is taken for
  dead while it runs. The gate that answers 503 is a function of `state`.
- `AuditBuffer`: redaction and statistics; two requests with one endpoint and
  one microsecond; requests that arrive after the shutdown. What becomes of the
  rows is in `Journal`.
- `GatewayRegistry`: signatures and validation (what answers 400 and 401 and
  changes nothing), and `purge()`, which nothing calls.
- `GatewayForwarding`: streaming, the time limits of a socket, and the bytes of
  a signature: who a service takes for the caller is decided by which headers
  arrive and which key made them.
- `PanelSession`: cookies, cross-origin checks, the encoding of tokens. A token
  is the record of its claims.
- `SignIn`: the rate per address (`auth_rate_limit.py`) and what a code looks
  like: a code is the secret and the step it was made for.
- `Accounts`, `Identity`: the exchange with the identity provider. Its answers
  are what held at some moment between the question and the answer.
- `NotificationBus`: sealing and sizes of envelopes. An envelope that is
  refused is an envelope that was lost.
- `ReplicaCache`: it is keyed by what is asked; one key is modelled.
- `LogShipping`: what a record looks like, and the handler of `logging`.
- `ConnectionPool`: which rows a statement reads. The ids a table hands out are
  modelled, because a call promises the id of its own row.

## Proofs

TLC says what holds of the instances above. The proofs say it for every value
of the constants: any number of replicas, services, requests, accounts or bytes,
under the named assumptions of the modules. Each rests on an inductive invariant
whose parts TLC checked first.

| Module | Theorem | Argument |
|---|---|---|
| `DatabaseLockProofs` | `TypeCorrect` | by the actions, one step each |
| | `LockIsExclusive`, `HolderIsNeverFoundAbandoned` | `IInv` keeps a budget: with `PromptReplicas` a row that its holder has not renewed is at most as old as the beats and statements that have passed, and twice a beat with a statement, and a statement more, fit into `max_lock_time`. So no sweep finds a row of a holder at work, and a row that is not swept is not taken over |
| | `LockImplementsMutex` | every step maps to an entry, an exit or a stutter of `Mutex`; entries need exclusion |
| | `LateFinisherIsHarmless` | no budget: a release names its owner, and with one handle per replica the owner is the handle |
| | `FaultyReplicasLeaveTheNewHolder` | the same of the two replicas of the run, whose `LateFinishIsHarmless` it is: of the invariant only who may own the row is needed |
| `ClusterProofs` | `TypeCorrect`, `InductiveInvariant` | a pass has published what the state was when it read it; a held command is a recorded one; rows remember what was reported |
| | `ReportedStateSurvives`, `ReplicaDoesAsReported` | from the invariant: the state restored at a start is the one a finished command reported; and the scheduler follows it, unless a failing statement of the command left it where it was (`StepFollows`) |
| | `OneAdministratorOneCommand` | between the reading of open commands and the record no other request is under way |
| | `ClosedForGood` | an action property: every UPDATE names the status it leaves |
| | `CommandsAreCarriedOutOnce` | a pass reads its own commands only (`AInv`), and the claim is what takes one out of `pending`, whence nothing returns; every step maps to an order, a claim, an expiry, the end of the work, or a stutter of `Assignments` (`StepAssigns`) |
| `AuditBufferProofs` | `TypeCorrect`, `OutcomeReachesTheRow`, `NothingLostWhileUp` | rows are out of the buffer exactly while a flush holds the lock, and what it took comes back or is in the table |
| | `NothingIsLostOrOvertaken` | what is missing of the requests and of the log records is counted, each as it goes: a record is queued, in one batch, received, or among those reported as dropped, and in one of these only (`Shipped`). And unless flushes have overlapped the batch followed by the queue rises, and who has left for good is older than both (`InOrder`) |
| | `ShutdownWritesEverything` | at a shutdown the last flush waits for the lock, and the lock is not free while a cancelled flush has rows out |
| | `AuditImplementsRecords` | the invariant of the four above, and that no row or status is made up (`NothingIsMadeUp`); every step maps to a beginning, something told, a write, a loss, the stop, or a stutter of `CallRecords` (`StepRecords`). A write that half failed maps to a write; its repetition to a write of nothing |
| `GatewayRegistryProofs` | `TypeCorrect`, `NobodyRobbed`, `OneAtATime` | a call that passed its check of a prefix met no foreign row; whatever it meets later is in `news`, written meanwhile; with one call at a time there is no meanwhile |
| | `OldIsNotOverlooked` | a reading knows at least what was there when it began, its stamp is the moment it began, and a copy is replaced by a younger stamp only; so a copy within its time knows all that is older than the refresh |
| | `UnsafeGoesOnce` | another address is asked only after a refusal that no service can have acted on, or for a method that may be repeated; so what was sent and is neither is sent for the last time |
| | `ServicesKnowTheirCallers` | of what the client sent, no identity header survives `Kept`; what the service finds is therefore the gateway's, and it carries the key of a caller `Recognise` found |
| `ServingProofs` | `LimitKept` | what the application was given is among what was counted and fits the limit; a route whose body the framework reads has no handler running when the limit is passed; only the middleware ends a request |
| | `RuntimeIsAsDeclared` | a service is published only by who was decided to provide it, and decided once (`required` and `built` only grow, and the registry is frozen before anything is up); what was handed out is what is published; a plugin is up only through all the lines before it |
| | `RoutesServeAsDeclared` | a route of the table is the route of a declaration, and the table is as long as its routes are apart; what a call may name is what the mask lets through, and where the framework has a caller or a body no request puts another in its place. A declaration in capitals is compared with what is mounted as it was written, so it is mounted once |
| | `PanelKeeps` | the invariant the next four rest on: a load began no longer ago than it may take, and what it read is so unless the thing changed since it began, which it is told of by its mark `late`; an entry is what one of these loads read (`EntryFits`, `LoadFits`) |
| | `StalenessIsBounded`, `StalenessIsExplained` | an entry that is no longer so was stored within a load's time of the change, so it ends a lifetime after that; each way of hearing of a change (`Invalidate`, `Send`, `Dispatch`, ...) drops the entry, and each way of not hearing of it makes it deaf |
| | `PanelCallsEndAsMeant` | what a call that sets a role has given is granted, and what it took away was known, which is all a start asks before it gives anything; and the active themes are at most one, those whose call has still to activate them, and one for each activation that was cut off or met another: a statement that met none sees every active theme (`SeesActive`), and leaves its own alone |
| | `NothingIsHidden` | a process imports the sections of the plugins it then calls running |
| `StoredProofs` | `NoneWaitsHolding` | a thread in a block has the block's session in its context and joins it; a thread without one holds none when it asks |
| | `BlocksAndCallsAreWhole` | a session is one thread's, and what it wrote becomes rows in one step or not at all; the id of an insert was handed out to that thread's statement |
| | `OldestGoFirst` | a chunk is the oldest of what may go, so no row older than one that went is left of what was there; late rows are newer than the border |
| | `PagesMissNothing` | a row not yet seen lies behind the pages that were read: as many rows are newer as were listed. The newer ones only grow, since the oldest go first, and a listing puts a row behind exactly the rows that are newer |
| | `OnlyTheRestIsSwept` | a page has in it what it read, and what it read twice it keeps the newest of; what a bucket keeps is fixed by the rows below the border, and those only leave |
| `SignedInProofs` | `ChangesEndSessions` | a change is pending from its write to its revocation, which ends every row there is, whatever other request it belongs to; a row opened later has counted the change. What a request under way may still do to a row, it does not do to a revoked one |
| | `SessionsLastAsPromised` | row and token agree (`Agrees`), a token outlives its row by what a request under way may issue (`Outlives`), and requests have their patience |
| | `IdleSessionsStayOver` | an action property: a renewal moves the end of a row only where the row had not ended when the request was authorised |
| | `CodesLetInOnce` | a claim is one statement that asks for what it takes: a step above the last, a recovery code that is there. Steps only grow while the enrolment stands, and where a statement wrote over another enrolment the property says so |
| | `AttemptsStayLimited` | looks at a secret that lie less than a lockout apart are numbered, the later with the higher number, for as long as the counter is not written back; a look that got no number cost a failing statement. So the looks of a window are as many numbers below the limit |
| | `RevokedSocketsAreReached` | a revocation that is not yet known to a sweeper is owed by its writer, on its way, in the event, or in the reading under way; else the envelope was missed |
| `PeopleProofs` | `AnAdministratorIsKept` | with one change at a time, the administrator that `CheckChange` counted besides the account is one when `SetRoles` or `SetStatus` writes; starts and registrations take no role from anybody |
| | `PeopleAreThemselves` | names are unique, an account made for a person carries its subject, and both stay; a call holds an account it found by subject, or made |
| | `TokensAreVouchedFor`, `DecisionsAreItsOwn` | what is remembered was said no longer ago than it has been kept, is kept for no longer than the lifetime that was left of it, and is found under its own key |

The assumptions are those the modules name, as weak as the code allows:
bounds are natural numbers; `""` and `"nobody"` are no replicas, and `Nobody` is no
thread; a sweep's `Keep` is not shorter than a request's patience and a token's
life (`Patience + Life <= Keep + 2`); `Names` are finitely many; the
numeric bounds of a mask are numbers, and so is what is asked (a value that is no
number is a number of its own); settings and routes are records of
the configuration's shape. TLC evaluates each of them on the instance it checks.

Only model-checked is every liveness property (`AbandonedIsCleared`,
`LoserLearns`, `CommandsComeToAnEnd`, `EveryRequestIsWritten`, `FlushesEnd`,
`RevokedSocketsClose`, `UncontestedIsListed`, `StartsAndStops`). Liveness under
fairness and ENABLED are out of the prover's reach, and so is induction over
data: what a recursive definition or a fold computes for every input is checked
on the inputs of the instances.

## Where code and documents disagree

Two disagreements have a run that shows them, `LockTakeover` and `GatewayRace`
(see `findings` in `PROJECT.json`). The others were met on the way, by reading or
by a run that is no longer kept; the models do what the code does.

- `kernel/lifecycle.py:706` asks whether a service is published, not whether
  its plugin runs: the dependents of a plugin that failed are initialised, where
  `doc/plugin_constructor.md:382-383` says that they are not.
- `cluster.py:637-639` counts the replicas that serve before a stop is recorded:
  two stops at once take the last two replicas away, which the refusal of
  `cluster.py:192-194` is there to prevent. Two panels can leave one replica
  two open commands in the same way.
- `cluster.py:522` writes the stopped state before it pauses the scheduler: when
  the write fails the command does, and when the pause fails the replica is
  stopped and its jobs run on, where the module's head says that they move away
  (`cluster.py:14-16`).
- `audit.py:324` puts back what a failed flush had taken without looking at
  `BUFFER_HARD_LIMIT`: until the next request starts the buffer holds more than
  "the most requests the buffer holds" (`audit.py:138-139`).
- `keepup_metrics/retention.py:55-57` says that a backlog is cleared by several
  passes; thinning reads the newest rows first, and twenty batches of points that
  stay keep a pass from what lies behind them.
- `keepup_db/manager.py:548-551`: on PostgreSQL the id is read with a session of
  its own even when the inserting one is handed in, which the docstring
  (`manager.py:536-537`) calls the right use.
- `cache.py:20-21` says that loading outside the lock costs "one extra
  query and never a stale value". A load that read before a change and stores
  after its invalidation leaves the old value for a lifetime, with no call
  failing: without its exception for such loads `StaleIsExplained` is violated in
  `PanelData` by five steps (`Ask`, the change, its drop, `Store`). The property
  says what is true of the code instead.
- `keepup_ui/themes.py:63-68` switches the others off in the statement that makes
  a theme active, so that one is; two that overlap each read the rows that were
  active when they began, and on PostgreSQL neither sees the other's theme:
  both stay active until the next activation. `themes.py:199-200` says that a
  restart must not move the flag, and a failed read of the active theme at a
  start makes the first theme active.
- `user_routes.py:307` says that leaving "active" "is a block too, and must not
  skip what a block stops", and the next line decides by a status that was read
  before the write: a block by a request that had read the account as blocked,
  before another unblocked it, revokes nothing; nor does a second attempt after a
  revocation that failed, since the account is blocked by then.
- `keepup_http/routes.py` compares methods as they are written when it asks
  whether a route already answers: a declaration in lower case is mounted twice.
- A section's plugin counts as declaring only in a process that has imported its
  sections, and a process imports the sections of the plugins it then calls
  running (`keepup_modules/plugin.py:97-103`): the difference of the two
  (`catalogue.py:149`) is always empty (`NothingIsHidden`), and the section of a
  plugin that was switched off is shown, where `doc/plugin_constructor.md:1244`
  says that it is not in the panel. The test of it sets both sets by hand.
- `keepup_auth/identity/runtime.py:205-206` keeps a decision by permission,
  method and path: two requests that differ in anything else the provider is told
  share one answer until it expires.
- A renewal of a session makes a token without the mark of the second factor, so
  under `MFA_REQUIRED_FOR_ADMINS` (`INSTALL.md:187`) an administrator is asked
  for it again at every renewal.
- `plugins/route_mask.py:55` promises that `request` comes from the framework
  and never from the caller; for a handler that takes any keyword, or a mask that
  names it, a parameter of that name is the caller's.
- Two batches of log records that overlap and both fail are put back in the
  order of their failures, not of their records.
- `lock_routes.py:108` counts forced releases in a name the module does not
  define: the row is deleted and the answer is an error.
- `start()` of the runtime that raises leaves the tasks of the plugins it had
  initialised running; a runtime that was stopped cannot be started again, since
  its registry stays frozen.

## Not modelled, and why

- Signing key: functions of the environment and of a file, no state that two
  steps could disagree about.
- Scheduler: its jobs are another library's; what the cluster does with it is one
  bit of `Cluster`.
- Database drivers: connection strings and descriptors. Which driver is chosen
  is part of `PluginRuntime`.
- Kernel security and observability: functions of one call and counters.
- The order of sections a person chooses (`decisions.py`), the rate per address
  (`auth_rate_limit.py`), profiles and listings of accounts: one row, one
  statement, nothing between.
- The provider's protocol (redirects, signatures, discovery): another program's.
- Pages, themes' contents, formatting, static files: no property is about them.

## The plan

Done: every part of the table above that is not marked otherwise, checked by TLC;
the safety of the lock, the cluster and the audit (with the abstract
specifications the three implement), log shipping, the runtime, the
routes, the bodies, the gateway, the sessions, the second factor, the sockets,
the accounts, the identity provider, the pool, the sweeps of journal and samples,
the pages, and what is read through the caches, proved. Next, in this order:

1. `restart_scheduler` joined to `Cluster`; `auth_rate_limit.py`;
   `decisions.py`.
