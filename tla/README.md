# DeployFlow in TLA+

TLA+ models of the DeployFlow server (`src/src/`, Node.js, Fastify, Redis,
PostgreSQL through Prisma), the TLC configurations that check them on small
instances, and proofs checked by TLAPS for every instance. Paths below are
relative to the repository, whose code is in `src/`.

## 1. The system

| Part | State | Operations | Interacts with |
|---|---|---|---|
| Cache service, keys (`cache/cache.service.ts`, `cache.keys.ts`) | entries in Redis, each with or without an expiry | get, set, delete, expire, increment; never throws | Redis client; callers below |
| Redis client manager (`cache/redis.client.ts`) | `clientInstance`, the connection of each client | `getClient` (asynchronous), `shutdownGracefully` | cache service, lifecycle manager |
| Rate limiter (`middleware/logging/rate-limit.middleware.ts`) | one counter per client address, in Redis | `verifyRateLimit`, on every request | cache service |
| Users module (`modules/users/`) | users table, cached profiles, audit trail | create, get, update, delete, list | repository, cache service, audit log, RBAC, validator |
| Session manager (`cache/session.manager.ts`) | one session per e-mail, in Redis | establish, validate, revoke | cache service |
| Lifecycle manager (`config/production/lifecycle.config.ts`) | `isShuttingDown`, progress of the teardown | signal and exception handlers, timer | HTTP server, Redis client manager, Prisma manager |
| Prisma manager (`lib/prisma/client.ts`) | `instance`, `isDisconnecting` | `getInstance`, its own signal handlers | repositories, lifecycle manager |
| Bootstrap (`server.ts`), environment check, plugins (`config/production/`) | hooks, error handler and routes of each Fastify context | validation, assembly of plugins, hooks and routes, listen | all of the above |
| Authentication flows: login, refresh, logout, registration (`security/`) | the ledger of refresh tokens | issue, rotate, revoke | user and token repositories, audit log |
| Authentication middleware (`middleware/auth/`), access tokens (`security/jwt/`) | - | checks of the header, the token and the account | users routes, user repository |
| RBAC (`security/rbac/`) | constant matrix | `hasPermission`, guards | users service, routes |
| System module (`modules/system/`) | one health key in Redis, shared by all probes | health, readiness, liveness, version, build, metrics | Prisma manager, cache service |
| Error handler, logging, metrics, documentation, constants | counters | - | framework |

The server is single-threaded, but every `await` lets other requests run, and
several processes share Redis and the database. So what is hard here is what
happens between two awaits: check-then-act on Redis and on the table, a value
read before an await and used after it, commands that fail silently (the cache
service and the audit log swallow every error), commands sent again after a
reconnection (`maxRetriesPerRequest: null`), processes that die between two
steps, and a teardown that several listeners start at once. `PROJECT.json`
lists these hazards, each at its line, with the properties about it.

What makes each part correct:

- rate limiter: a window admits at most `MAX_LIMIT` counted requests, a 429 is
  deserved, and a window ends;
- users: the cache agrees with the table but for known causes and for a bounded
  time, e-mails are unique, the audit trail matches the table, and only
  entitled callers write;
- sessions: every session expires, a session that ended does not come back, a
  validation answers only to the client the session belongs to;
- authentication flows: rotation keeps one live token per session, what has
  ended stays ended, no client is locked out without a cause, and the audit trail
  agrees with the ledger;
- Redis client: one connection per process;
- readiness: a 503 has a cause, no connection is left behind without one, and a
  probe hangs for known reasons only;
- lifecycle: one teardown, in order, with the exit code of what started it, that
  ends, and that costs no waiting client its command;
- bootstrap: only a checked environment serves, a missing optional package stops
  no boot, and every route sits behind the guards that are meant for all.

## 2. Modules

Every action is the code from one await to the next, and is named after the
function or the step it models; `PROJECT.json` maps each definition to its
lines.

| Module | Models | State |
|---|---|---|
| `CacheService` | the effect of a Redis command on one entry, and the answer of a failed one | none: operators on `[val, ttl]` |
| `RateLimiter` | `verifyRateLimit` | `store` (Redis), and for each call `pc`, `key` (`trackingKey`), `ticket` (`currentCount`); history: `window`, `lives`, `draws`, `faulted` |
| `RequestQuota` | what the rate limiter promises, without Redis and its commands | `current` (the open window of each key), `charges`, `admitted`, `verdict` |
| `UsersValidator` | the three payload checks | none: operators on parsed fields |
| `UsersService` | the users controller, service and repository; EXTENDS `CacheService` and `UsersValidator` | `kind` (the repository given to the constructor), `table`, `store`, and for each request `pc`, `call`, `found` (the record held across an await), `answer`; `audited`; history: `committed`, `overlapped`, `faulted`, `afterDelete` |
| `UserDirectory` | what the users service promises of the accounts, without its awaits, cache and checks | `accounts`, `call`, `done` (whose change is made), `result`, `told`, `recorded`, `faulted` |
| `Sessions` | the session manager | `store`, and for each call `pc`, `call`, `session`, `answer`; history: `doomed`, `ended`, `faulted` |
| `AuthFlows` | login, refresh and logout, from the handler to the repositories | `kind`, `accounts`, `ledger` (rows of refresh tokens), and for each request `pc`, `call`, `shown` (the token it presents), `status`, `trail` (its audit action); history: `family` (the login it descends from), `raced`, `tooLate`, `faulted` |
| `RotationChain` | what login, refresh and logout promise of a session, without requests and rows | `session` (of each token), `issued`, `live`, `claims` (who may still replace which token), `forked` |
| `RedisClient` | the Redis client manager and the commands of its callers | `clientInstance`, `conn`, `at`, `held`, `teardown`, `quitting`, `redisUp` |
| `Readiness` | the probes of the system module; EXTENDS `RedisClient`, whose callers are its probes, and `CacheService` | the state of `RedisClient`, `ping` (the health key), `clock`, and for each probe `probe` (its endpoint), `stage`, `token`, `status`; history: `disturbed`, `crossed` |
| `Lifecycle` | the lifecycle and Prisma managers, boot and requests; EXTENDS `RedisClient`, whose callers are its requests | the state of `RedisClient`, `serving`, `isShuttingDown`, `stage`, `exitCode`, `guarded` (its listeners are bound), `isDisconnecting`, `database`, `connected`, `exit`; history: `triggers`, `starter` |
| `OrderlyExit` | what the end of a process promises, without the client, the timer and the hooks | `waiting`, `phase`, `code`, `signalled`, `database`, `ending` |
| `Bootstrap` | `bootstrapServer`, the environment check, the registration of each plugin, and the chain of hooks of a request | `env`, `at` (the step of boot), `hooks`, `errorHandler`, `mounted`, `port`, `request`; history: `missing` |
| `*_proofs` | theorems about the module of that name (section 6) | |
| `MC*` | constants of an instance | |

`RateLimiter`, `UsersService`, `Sessions` and `Readiness` take their entries
through the operators of `CacheService`. History variables appear in properties
only: no guard reads them (except that `LoseReply` uses `faulted` to allow one
resend per call). Each module also has a few operators that nothing but
`PROJECT.json` uses (`CacheStatusNow`, `AfterRevokeUnstored`, ...): they are the
changed definitions of section 3.

Abstractions. Time is left out, but for the milliseconds that stamp a probe: an
entry with an expiry may vanish at any moment, a token may expire at any moment,
and the windows of the rate limiter are the lives of its key (`lives`). Redis
keys are values of a function given as a constant (`ProfileKey`, `SessionKey`,
`RateLimitKey`), which need not be injective, since the builders trim, lowercase
and replace characters; the instances of the users and session modules give two
spellings the same key. Payloads are reduced to the fields that decide anything,
a password to its length or its hash. SHA-256 is taken to be one-to-one. Metrics,
logs and response headers are left out.

The repositories that ship (`users.repository.ts`, `user.repository.ts`,
`refresh-token.repository.ts`) are stubs: they answer with made-up records and
store nothing, and nothing in them can fail. Their callers can be given others,
as the tests do. `UsersService` and `AuthFlows` have both: `kind = "default"` are
the stubs, `kind = "custom"` are repositories that persist, modelled from how
the code calls them and from the SQL migration (the unique index on e-mails, the
token table). Failures of the database belong to the second kind, and with the
stubs there is no ledger for the properties of `AuthFlows` to be about.

When reading `UsersService`:

- The shipped Prisma client has no audit model, so the audit record of the stub
  is made up too; `audited` holds the requests for which `auditRepo.create`
  ran without error.
- The self-service branch of `updateUser` is reachable through the service, and
  only for roles with `users:write` through the routes.
- The validator takes an empty role for a missing one when a user is created,
  and refuses it elsewhere. It requires a password, so the temporary one that
  `createUser` falls back to is never used.
- The seeded table is one the database can hold (`TableAssumption`): rows under
  their own id, with well-formed and distinct e-mails.

When reading `AuthFlows`:

- No route of the server mounts the controllers of login, refresh and logout;
  they are modelled as what a route would call.
- A request issues one token at most, so tokens are named after requests. A
  client may show any token that was handed out, at any time, and several times.
- A failure of the database may hide a write that took effect.

When reading `Lifecycle`, `Readiness` and `Bootstrap`:

- The entry point that ships does not load. `lib/prisma/client.js` is an empty
  file next to `client.ts`, and four files import `getPrismaClient` by name from it
  (`system.service.ts:3`, `lifecycle.config.ts:4`, `user.repository.ts:1`,
  `database-health.service.ts:1`); `jwt.service.ts:23` calls `require`, which an ES
  module (`package.json`, `"type": "module"`) does not have. So `npm start` fails
  before `bootstrapServer` runs. These three models, and what is said of the server
  as a whole, assume repaired imports: `client.ts` in place of `client.js`, and
  `require` or its like in place.
- The Redis client library is external. A command waits for a connection and is
  then answered, or answered with an error (`Refuse`: no memory, read only, no
  authentication), which the cache service catches. QUIT is answered after the
  commands sent before it; a client that is not connected may close at once on QUIT
  and reject what is waiting (`QuitDone` with `redisUp` false).
- Loading `auth.middleware.ts` constructs a `UserRepository`, and that the
  Prisma instance with its signal listeners. So these exist before the ones of
  the lifecycle manager, and a signal in between finds only them.
- The shipped Prisma object has no model to query and a `$connect` that always
  resolves, so the database check of a probe is always UP.
- Fastify is external. What matters of it is that a plugin runs in a context of
  its own, and what it adds or sets there does not reach the context above; that a
  hook of the application reaches all contexts below it, also those made before,
  and that a route takes the hooks of its context when boot is complete; and that
  hooks are called with the context as `this`. Helmet, CORS and compression are made
  to work on the parent; the plugins of this repository are not. The limiter is
  added to the application itself, so its place in the order of `bootstrapServer`
  does not matter, and the documentation is behind it as well.
- An access token is a kind of token with one outcome. The signature that
  `jwt.service.ts` writes and compares is the text of a hash object, since
  `digest()` is never called, and is the same for every token: a token whose
  claims were altered under it (`altered`) passes the comparison.
- `Bootstrap` serves one request at a time: requests share nothing there but the
  assembled chain, and what the handlers do concurrently is in the other
  modules. `HandlerStatus` says which statuses they may answer.
- `mode` is `NODE_ENV`. Its absence means production to all but the
  documentation plugin, which mounts its pages then.

## 3. Runs

All runs are exhaustive and take two minutes or less each; the largest are
`lifecycle` and `auth_flows`, with 2.5 and 2.3 million states.

| Run | Instance | Checks |
|---|---|---|
| `rate_limiter` | 3 calls, 2 addresses with a key each, limit 1, all faults | `TypeOK`, `WindowQuota`, `RejectionIsEarned`, `UndatedKeyHasCause`, `WindowNotExtended`, `WindowEnds`, `ImplementsQuota` |
| `users_service` | 3 requests (a read or one of 18 refused calls; a write; any operation), both repositories, all faults | `TypeOK`, `CacheHoldsOwnKey`, `StaleHasCause`, `EmailUnique`, `AuditFollowsTable`, `NothingUncheckedGetsIn`, `ImplementsDirectory`, `StaleEntryDisappears` |
| `users_service_stale` | 3 requests that read or delete one account, no fault | finds `DeletionIsImmediate` violated |
| `sessions` | 4 calls (two establish, one validates, one validates or revokes), 3 spellings of 2 addresses, 2 user agents, all faults | `TypeOK`, `SessionsExpire`, `NoResurrection`, `RevocationIsFinal`, `AnswerMatchesFootprint` |
| `auth_flows` | 4 requests (a login; two refreshes; a logout, refresh, second login or bad login), 3 accounts, both repositories, all faults | `TypeOK`, `OneLivePerSession`, `LostSessionHasCause`, `EndedMeansEnded`, `OrphanHasCause`, `AuditMatchesLedger`, `ImplementsRotation` |
| `auth_replay` | the requests of `auth_flows`, a repository that persists, no fault | finds `ReplayEndsFamily` violated |
| `redis_singleton` | 2 callers | finds `Singleton` violated |
| `readiness` | 2 probes of any of the 6 endpoints, 3 milliseconds, outages, failed imports, error replies, the teardown | `TypeOK`, `UnreadyHasCause`, `StrayClientHasCause`, `ProbesAnswered` |
| `lifecycle` | 3 requests, any sequence of triggers, hang-ups and outages | `TypeOK`, `TeardownInOrder`, `ExitCodeTellsCause`, `ImplementsOrderlyExit`, `OnlyHungUpLoseCommands`, `TriggerLeadsToExit` |
| `lifecycle_drain` | 2 requests | finds `QueriesFinishBeforeExit` violated |
| `bootstrap` | 672 environments around every checked limit in 3 modes (production, development, none) and 8 of tests; any packages and the port missing; any request of any route | `TypeOK`, `BootEndsForCause` (`ServesOnlyValidated` and `OptionalPackagesNeverStopBoot`), `LimitedBeforeAnything` |
| `bootstrap_errors` | one sound production environment | finds `ErrorsReachTheBoundary` violated |

Why the bounds are enough to be interesting. With a limit of 1, three calls
cover the number 1 (which sets the expiry), the last number admitted and the
first one rejected, a second window, and a resent INCR that skips a number;
the real limit of 60 changes nothing but the length of the run, and the proofs
hold for every limit. Three requests of the users module are a reader across a
write, the writer, and a third that reads the result, writes or creates in
between; the refused calls and the accepted ones have the values on both sides
of each check of a payload. Four session calls let a validation read a session, a
revocation end it and another establishment replace it before the validation
acts. A login and three requests over its tokens are a chain of two rotations
with a replay of an old token, two refreshes of one token at once next to a
logout, or two sessions of one account. Two probes suffice to take each other's
stamp, to create two clients and to come late to a teardown; `MaxClock`, the only
bound on a counter, is 2, so that stamps are equal, differ by one or by two.
Three requests in a process give one waiting, one whose client hung up, and one
that creates a second client. The environments have the last accepted and the
first rejected value at each limit. No other bound is imposed: each request runs
once, and the number of lives of a key is bounded by the number of INCRs.

Each property of a passing run has a mutant in `PROJECT.json`: a definition
changed the way a plausible bug would change the code (an eviction dropped, an
inclusive limit, INCR losing the expiry, a drain skipped, the spent token not
revoked), under which TLC finds the property violated.

Four properties are refinements: every behaviour of a detailed module is one of
an abstract specification, under the mapping at the end of the module.

- `ImplementsQuota` (`RateLimiter` of `RequestQuota`): windows are the lives of a
  key, charges the numbers drawn, admissions the calls that passed with a number.
- `ImplementsDirectory` (`UsersService` of `UserDirectory`): accounts are the rows,
  a change is made when it is committed, what a request may be told is the row it
  holds after its write (`Result`), and what it was told is its answer if that
  says success (`Told`). So the checks before the first await, the write some
  awaits later, and the audit and answer after that act as one change for a caller
  with the right to it and one confirmation of it. What reads answer is no part
  of it; `StaleHasCause` is about that.
- `ImplementsRotation` (`AuthFlows` of `RotationChain`): tokens are the rows, live
  ones those neither revoked nor expired, and a refresh claims a token from its
  check to the storage of the successor. Each of the separate writes is then a
  claim, the spending of one token, or the issue of its successor, also where a
  database error hides that it took effect; a repository that stores nothing
  maps to a chain without tokens.
- `ImplementsOrderlyExit` (`Lifecycle` of `OrderlyExit`): the phase is read off
  `stage`, `serving` and the teardown of the Redis client (`Phase`), the waiting
  requests are those in flight, and an exit is orderly, cut short (by the timer,
  a fault of the teardown or a failed boot) or by the hook of the Prisma manager
  (`HowEnded`).

Deadlock is checked in every run but `redis_singleton`, where the callers are
finite and the system really stops. The others end in an explicit `Done` or
`Exited` stutter, or, in `readiness`, never end: Redis goes and comes.

## 4. Fairness

- `RateLimiter`, `UsersService`: weak fairness of the step of each request and
  of the expiry of each key. Node runs the continuation of a settled promise,
  Redis and the database settle what they were sent, and Redis drops a key some
  time after its expiry. Faults are never fair, arrivals neither. `WindowEnds`
  and `StaleEntryDisappears` rest on it.
- `Lifecycle`: weak fairness of `ForceExit` and `PrismaTerminate`. A due timer is
  run by the event loop, and `$disconnect` of the shipped instance settles at
  once; the second is all that ends a process signalled before
  `bindLifecycleGuards`. Requests, Redis and the drain may hang for ever, and
  `TriggerLeadsToExit` holds all the same.
- `Readiness`: weak fairness of the steps of each probe, for the same reason as
  above, and none of Redis coming back: a command waits for it without a limit.
  `ProbesAnswered` says exactly what may then hold a probe for ever: an unreachable
  Redis, or a client that was told to quit before the command was sent.
- `Sessions`, `AuthFlows`, `Bootstrap`: none; their properties are safety properties.

## 5. What the checks found

Five places where a comment or a document of the repository says more than the
code does; each has a run that finds the counterexample.

- **A deactivated profile may be served as active** (`users_service_stale`). A
  read that found the row before the write caches it after the eviction.
  `StaleHasCause` lists all causes of a stale entry, and `StaleEntryDisappears`
  says that it goes with the entry's expiry.
- **Two Redis clients in one process** (`redis_singleton`). `getClient` does not
  test again after its await.
- **Requests cut off by a clean exit** (`lifecycle_drain`). The Prisma hook
  exits with 0 on a signal while the lifecycle manager is draining. The ordering
  property `TeardownInOrder` therefore excludes exits by the hook.
- **The error boundary covers no route** (`bootstrap_errors`). It is set inside a
  plugin, and stays in that plugin's context; so do the request tracing hooks.
- **A replayed token ends nothing** (`auth_replay`). Comments of
  `refresh.controller.ts` (lines 18, 37, 42, 44) say that showing a spent token
  again purges the user's tokens, or the session family. The handler revokes the
  spent token a second time; its successor stays live, with or without a race.
  `LostSessionHasCause`, which lists what ends a session, therefore does not list a
  replay: it describes the code, against these comments.

The causes that the passing properties list are worth reading too:

- A process that dies between INCR and EXPIRE, an EXPIRE that fails or an INCR
  whose answer is lost leaves a counter that never expires, and its client locked
  out at the limit. `UndatedKeyHasCause` and `WindowEnds` say that there is no
  other way.
- Two refreshes of one token that both pass the check turn one session into two
  (`raced` in `OneLivePerSession`); a process that dies or fails between revoking
  the spent token and storing the new one ends the session
  (`LostSessionHasCause`).
- A probe that overlaps one of another millisecond answers 503 on a healthy
  system (`UnreadyHasCause`), and during an outage of Redis it does not answer
  503 but hangs (`ProbesAnswered`).
- A client that hung up may lose its command to the closing of Redis, and only
  such a one (`OnlyHungUpLoseCommands`): `fastify.close()` no longer waits for it,
  while its handler goes on sending, also after QUIT.

More disagreements that are left without a run:

- The authentication hook uses `this.userRepo` (`auth.middleware.ts:43`), but is
  passed on without its class (`users.routes.ts:22`), so that a valid token is
  answered 500, where a test of the routes expects success for an
  administrator's (`test/api/endpoints.test.ts:77`). No request passes the guards of
  the users routes as shipped; `UsersService` models what is behind them, which
  its tests call directly. `Bootstrap` models the 500 (`Authenticate`).
- `jwt.service.ts:80` promises "strict constant-time signature validation checks";
  without `digest()` the comparison does not depend on the token's claims.
- `rate-limit.middleware.ts:63`: "Gracefully pass traffic to keep service available
  if Redis cluster encounters severe downtime"; while Redis is unreachable the
  INCR waits, and with it the request.
- `docs/operations/troubleshooting-runbook.md` explains a 503 of `/ready` by the
  database; as shipped only the cache check can cause it.
- The "7-Day absolute session window limit" of
  `docs/security/authentication-design.md` starts again with each rotation.

## 6. Proofs

All theorems hold for any sets of requests, keys, users and so on, any limit and
any subset of the faults, under the assumptions the modules name (`ASSUME`):
that constants are of their type, that marker values (`NoValue`, `NoUser`,
`Unset`, `None`, ...) are no ordinary ones, and that the seeded table is one the
database can hold. Key builders are any functions into the keys.

| Module | Theorems (and the property each states) |
|---|---|
| `RateLimiter_proofs` | `TypeCorrect`, `QuotaHolds` (`WindowQuota`), `RejectionsAreEarned`, `UndatedKeysHaveCause`, `WindowsNotExtended` (`WindowNotExtended`, an action property) |
| `RateLimiterQuota_proofs` | `QuotaImplemented` (`ImplementsQuota`: the refinement of `RequestQuota`) |
| `UsersService_proofs` | `TypeCorrect`, `ProfilesUnderOwnKey` (`CacheHoldsOwnKey`), `StalenessHasCause`, `EmailsUnique`, `AuditFollows` (`AuditFollowsTable`), `NothingUnchecked` (`NothingUncheckedGetsIn`), `OnlyEntitled` (`OnlyEntitledWrites`), `DirectoryImplemented` (`ImplementsDirectory`: the refinement of `UserDirectory`) |
| `Sessions_proofs` | `TypeCorrect`, `SessionsAlwaysExpire`, `NothingComesBack` (`NoResurrection`), `RevocationsAreFinal`, `AnswersMatchFootprint` |
| `AuthFlows_proofs` | `TypeCorrect`, `RotationKeepsOne` (`OneLivePerSession`), `LossesHaveCause` (`LostSessionHasCause`), `EndingIsFinal` (`EndedMeansEnded`), `OrphansHaveCause`, `AuditTrailHolds` (`AuditMatchesLedger`), `RotationImplemented` (`ImplementsRotation`: the refinement of `RotationChain`) |
| `Lifecycle_proofs` | `TypeCorrect`, `TeardownOrdered`, `ExitCodesTell`, `TeardownBeginsOnce`, `LostCommandsExplained` (`OnlyHungUpLoseCommands`), `ExitImplemented` (`ImplementsOrderlyExit`: the refinement of `OrderlyExit`) |
| `Readiness_proofs` | `TypeCorrect`, `UnreadinessHasCause`, `StrayClientsExplained` |
| `Bootstrap_proofs` | `TypeCorrect`, `ServingIsValidated` (`ServesOnlyValidated`), `BootStopsForCause` (`OptionalPackagesNeverStopBoot`), `BootEndIsEarned` (`BootEndsForCause`, both), `LimiterComesFirst` (`LimitedBeforeAnything`) |

Each of these modules states an inductive invariant, `IInv`, as a conjunction of
named parts, and has lemmas that a step, or a group of steps that leave the same
state alone, preserves it; the theorems follow by PTL. What the properties rest
on, and why they are not inductive by themselves:

- `RateLimiter`. A number belongs to a window that is over or is at most the
  counter (`TicketsCounted`), so the next INCR draws a number no call of the
  window has (`TicketsDistinct`); passed calls hold numbers from 1 to the limit
  (`VerdictsRight`), so the admitted calls of a window inject into
  `1..MaxLimit`. That numbers drawn are on record (`CounterDrawn`,
  `TicketsDrawn`) gives that rejections are earned.
- The refinement of `RequestQuota`. It guards with cardinalities. `QInv` adds that the
  numbers drawn in a window are at most its counter (`DrawsCounted`) and bounded
  (`WindowsBounded`), hence finitely many although the calls need not be; that
  they are exactly `1..n` makes the abstract count of charges the concrete
  counter. Each action is then a step of the quota or a stutter.
- `UsersService`. What a request holds across an await is the row of the table
  still, or a write came in between (`Holding`, `overlapped`); with `Course`
  (which calls reach which place) and `Recorded` (who has committed, and who
  says so), the cached entries agree with the rows but for the listed causes
  (`Cached`, `Explained`).
- The refinement of `UserDirectory`. `Quiet` adds to the invariant that nobody is
  told anything before its end, that a request which comes to its audit holds a
  record, and that a stub commits nothing. A step is then silent (`Silent`: what
  it tells is no success of a write), a commit, whose row passed the checks and
  the index (`ChangeStep`, also where an error hides it), or a confirmation by a
  request that is committed (`ConfirmStep`).
- `Sessions`. A session is stored under its own key only, has not been stored
  before its call, and one that a call set out to end is about to be deleted or
  is gone (`StoredUnderOwnKey`, `NotYetStored`, `DoomedIsEnded`).
- `AuthFlows`. Facts of one request (where it may be, that a token in the hands of
  a client has a row, that the row it was shown is in its family, what a late
  request may still do, what it has recorded) and `OneCarrier`: in a family that no
  two refreshes raced in, one request at most holds the live token or the right to
  issue the next. A lost session has a cause because the step that revokes
  its last live token, or the failure after it, is one of the causes and none
  of these is ever undone.
- The refinement of `RotationChain`. A step of a request is classed by where the
  request goes: nowhere it claims a token (`ClaimsEnd`), on with the claim it has
  (`ClaimsStay`), or to a claim (`ClaimsGrow`). That a successor is issued only
  after its predecessor is spent is a fact of the request that is about to store
  it (`ShownRow`); that no other token of its session is live is `OneCarrier`; and
  that no login opens a session that has tokens follows from `Rooted`: a token in
  a session means that the session's login has been answered.
- `Lifecycle`. HTTP is drained for good before Redis is touched, Redis is closed
  before the database (`Progress`), and the code of a teardown is that of its first
  trigger (`Codes`). A handler that goes on during the teardown runs for a client
  that hung up, since no other is in flight then; so what it sends on a closing
  or closed client is no waiting client's command (`HandlerLoses`), nor is what
  QUIT throws away. `Progress` and `Codes` carry the refinement of `OrderlyExit`
  too: they say in which phases a request can wait and an exit can come about, and
  the steps of the Redis client under the teardown are steps of its phase or
  stutters.
- `Readiness`. A probe between its two commands finds its own token unless it was
  disturbed (`Probed`); a client is closed, and a command cut off, only when a
  teardown has begun (`Parted`); an import that goes on while an instance is cached
  has overlapped the import of that instance (`Imports`), and only such an import
  replaces the client that QUIT was sent to (`Torn`).
- `Bootstrap`. Every step after the check keeps the environment that passed it
  (`Passed`), and the port is the environment's (`Listening`). Before the limiter is
  added no context has a `preHandler` hook, afterwards each has the limiter and
  nothing else (`HooksInPlace`); what ran for a request is a prefix of its chain
  (`Walked`), in which the limiter comes after the `onRequest` hooks and the body
  and before everything else (`ChainShape`). What ends a request before the limiter
  is therefore an error of the CORS plugin or of the body (`SeenFirst`,
  `RefusedForCause`).

Only model-checked: the liveness properties (`WindowEnds`,
`StaleEntryDisappears`, `TriggerLeadsToExit`, `ProbesAnswered`), which TLAPS does
not prove, and the counterexamples of section 5.

## 7. Not modelled

- Registration: the service is an empty file.
- What no route or flow calls: `database-health.service.ts`, `exists` and
  `decrement` of the cache service, `hasAnyRole`, `hasAllPermissions`, the other
  two files on the environment, creation and update in `user.repository.ts`.
- The cases of the error handler for domain, Prisma and prefixed errors: no
  route lets such an error escape its controller.
- Pure output: logs, metrics, the masking of audit metadata, the documentation
  pages, the texts of answers. No other part reads what they produce.
- Values handed to the framework: headers, cookie options, timeouts, the body limit.
- The signing and encoding of access tokens, and the derivation of password
  hashes: cryptography, taken by what its callers rely on.
- A Redis restart that loses the counters or sessions, and the 64-bit limit of a
  counter.

What would come next: a register with bounded staleness as the abstract
specification of the users cache, and the sessions of a restarted Redis.
