# TLA+ verification of the backend starter

This directory holds TLA+ models of the backend in `../src`, the TLC
configurations that model-check them, and theorems about them that the TLAPS
proof system checks. Paths below are relative to the repository; line numbers
refer to the same commit.

## 1. The system

The program is an Express API with pluggable adapters, a background worker and
two scripts. All of it runs on Node.js: within a process only one piece of code
runs at a time, and every `await` is a point where other requests, timers and
signals get in between. Several replicas of the API share one PostgreSQL
database; the in-memory repositories exist for one process only.

| Component | State it keeps | Operations | What is hard about it | What makes it correct |
|---|---|---|---|---|
| Accounts and sessions: `services/auth.service.ts`, `services/user.service.ts`, `scripts/seedAdmin.ts` | none of its own: locals across awaits | register, login, refresh, logout, create, seedAdmin | check-then-act across awaits, racing requests on one refresh token, a crash between consuming a session and storing the next | refresh tokens are used once, rotation never forks, e-mails are unique, tokens go to active accounts |
| Repositories: `repositories/InMemory*`, `infrastructure/database/prisma/*` | users, refresh sessions | find, create, consume, revoke, revokeAllForUser, deleteExpired | operations of the database that fail, or are applied although the answer is lost; a restart that loses memory | consume is atomic; an ended session never returns |
| Tokens and passwords: `infrastructure/auth/*` | none | sign, verify, hash, compare | whole seconds in a JWT, milliseconds in the session | a session outlives the JWT it belongs to |
| Circuit breaker: `resilience/CircuitBreaker.ts` | state, failure and success counters, time of opening | execute, state | operations that settle in another state than the one they were admitted in | counter and state agree; no probe before a quiet reset timeout; it is probed again |
| Outbound retries: `resilience/retry.ts`, `resilientFetch.ts` | attempt number | resilientFetch | a retry that meets an open circuit; requests that must not be repeated | bounded sends, nothing sent while open, every call ends |
| Shutdown registry: `shutdown/ShutdownRegistry.ts` | tasks, `shuttingDown` | register, closeAll | a close that fails; a registration that comes late | every task is tried, by descending priority |
| API lifecycle: `server.ts`, `index.ts` | one shutdown promise, its timer, the once listeners, `process.exitCode` | startServer, shutdown | signals, exceptions, the timeout, live connections and slow closes in any order | requests end before resources do; the exit code is honest; the shutdown ends |
| Worker lifecycle: `workers/background.worker.ts` | the same registry | start, close | no timeout at all, and commands that wait for Redis without a limit | jobs end before Redis is closed; the shutdown ends if Redis stays reachable |
| Job queue and e-mail: `infrastructure/queue/*`, `infrastructure/email/*` | jobs in Redis, the handler table | enqueue, process | at-least-once delivery, five attempts with backoff, idempotency keys, a worker that dies in a job | delivery is at least once, bounded, and final; one key, one job |
| Request pipeline: `app.ts`, `middlewares/*`, `routes/*`, `controllers/*` | per-request locals, rate-limit counters | the middleware chain | clients that leave at any await; errors raised before the middleware that answers them is installed | a service runs only for a caller it may run for; a client is limited for its own requests only; every request ends |
| Metrics: `observability/metrics/*` | gauge of active requests | httpMetrics, the metrics route | `finish` and `close` in either order, or `close` before anyone listens | the gauge counts the requests that wait, each of them once; not so under an asynchronous CORS policy (section 3) |
| Readiness: `services/health.service.ts` | none | readiness | dependencies that turn while they are checked; a check that never settles | the answer is true of a moment of the request |
| File storage: `infrastructure/storage/*` | files or objects | upload, open, delete | uploads and deletes of one key that race; a body that breaks half-way; a crash | what was answered is whole, and part of a body is never an answered file |
| Configuration: `config/environment.ts` | constant after start | parse | interplay of settings | production rejects development adapters |
| Composition root: `bootstrap/container.ts` and the factories | the adapters | createContainer | adapters the application brings along | what is opened is closed, after everything that needs it |
| Logging, tracing, error monitoring, audit | none that the program reads | | | not modelled |

Interactions: controllers call one service method each; services await
repositories, the hasher and the token provider; `server.ts` owns the HTTP
server and calls `closeAll` of the registry that the composition root
(`bootstrap/container.ts`) filled, with one task for each adapter the settings
select; the settings also decide what the pipeline mounts and what readiness
checks; `resilientFetch` calls `CircuitBreaker.execute` inside `retry`.

## 2. Modules

```
RotatingTokens      what rotation promises (abstract)
  ^ implemented by
AuthSessions        accounts, sessions, the calls that race on them
  AuthSessionsProofs, RotationProofs, MCAuthSessions

CircuitBreaker      one breaker, concurrent callers
  ^ EXTENDS
ResilientFetch      the retry loop of each caller over that breaker
  ResilientFetchProofs (of both)

GracefulShutdown    what both processes promise of their shutdown (abstract)
  ^ implemented by ApiLifecycle and BackgroundWorker

ShutdownRegistry    register and closeAll
  ^ EXTENDS
ApiLifecycle        the API process around it: traffic, signals, timeout, exit
  ApiLifecycleProofs (with CompositionRootProofs), MCApiLifecycle

AtLeastOnceQueue    what the job queue promises (abstract)
  ^ implemented by
JobQueue            enqueue, BullMQ, and the slots that run jobs
  ^ EXTENDS (and ShutdownRegistry)
BackgroundWorker    the worker process around it: start, signals, exit, restart
  BackgroundWorkerProofs (with CompositionRootProofs), MCBackgroundWorker

Configuration       which settings are accepted
  ^ EXTENDS
CompositionRoot     what those settings open, check and close
  CompositionRootProofs
  ^ EXTENDS (also by MCApiLifecycle and MCBackgroundWorker)
RequestPipeline     requests in the middleware chain
  RequestPipelineProofs, MCRequestPipeline

AtomicUploads       what both storage providers promise (abstract)
  ^ implemented by
FileStorage         uploads and deletes through one storage provider
  FileStorageProofs, MCFileStorage
```

Operators marked `\* fault:` state a plausible bug of the operator they stand
before. No specification uses them; they are there to replace that operator and
show that the properties notice.

### AuthSessions

A *call* is a request in progress, or a run of seedAdmin. Its record holds the
locals of the handler, and `pc` names the await it is suspended on:

| `pc` | suspended in | action that continues |
|---|---|---|
| `hash` | register: scrypt, then `users.create` | RegisterCreate, CreateConflict |
| `create` | UserService.create: `users.create` | UserCreate, CreateConflict |
| `compare` | login: scrypt | LoginCompare |
| `consume` | refresh: `sessions.consume` | RefreshConsume |
| `load` | refresh: `users.findById` | RefreshLoad |
| `issue` | issueTokens: signing | IssueSign |
| `store` | issueTokens: `sessions.create` | IssueStore |
| `seed` | seedAdmin: update or create | SeedUpdate, SeedCreate, CreateConflict |

The first read of a handler and what follows it up to the next await are one
action (RegisterFind, LoginFind, RefreshVerify, UserCreateFind, SeedFind):
before it the call has no effect. Reads that answer at once with an error
change nothing and have no action. A repository operation takes effect in one
step, as an SQL statement or a synchronous Map operation does. With
`Persistent = TRUE` it may also fail without effect (DatabaseFailure) or take
effect and lose its answer (Replies), and the `new Date()` that is an argument
of it may be older than the moment it runs (ArgumentTimes). With
`Persistent = FALSE` a restart (Crash) loses users and sessions and keeps the
tokens the clients hold. revokeAllForUser and deleteExpired have no caller in
the services; they may run at any time.

`sessions` is indexed by token, as the table is by `tokenHash` (unique).
`claims` is what a token pair carries (user, roles, `iat`) and whether a
client has it; `claims[t].root` is history, the login a token descends from.
`uses` and `seen` are history too. The refresh tokens a client presents are ones
it was given: signatures are taken to be unforgeable. `clock` counts ticks,
`TicksPerSecond` of which make the second that a JWT is cut to.

### CircuitBreaker and ResilientFetch

`openedAt` and `now()` appear as their difference `sinceOpened`, which is all
the code compares; it stops at `ResetTimeout + 1`, and `failures` stops one
above the threshold, since nothing larger is told apart. `execute` is two
steps, Admit or Reject, and Succeed or Fail, because the operation is awaited in
between. `sinceFailure` is history. ResilientFetch adds the retry loop of each
caller: `calling`, `waiting` for fetch, `backoff`. Delays have no length. The
breaker has no other user in the repository, so that the run of ResilientFetch
checks both.

### ShutdownRegistry and ApiLifecycle

Tasks are numbered in the order of registration, so that the stable sort is the
relation `Before`. A failing close may release its resource or not
(`failed`, `leaked`). `phase` follows the async function inside `shutdown`:
`draining` (awaiting `closeHttpServer`), `closing` (awaiting `closeAll`),
`over`. A connection is `busy` while a handler runs on it; when the client
leaves, or the timeout destroys the socket, the handler goes on without it
(`orphan`). `LifecycleInit` has two states, one in which `listen` failed and
`bootstrap` has set the exit code. Node.js is modelled by what this code relies
on: once listeners, default termination without a listener, `server.close`
waiting for connections, an exit when nothing holds the event loop
(`Anchored` names the tasks whose open resource does).

GracefulShutdown is the promise: work is done only before the first resource
begins to close; then resources close one at a time, by descending priority,
each once. For the API process the workers are the connections whose client
waits, and closing begins with closeAll, when the server is closed. What the
priorities and the names of phases mean is left to the two processes.

### JobQueue and BackgroundWorker

`call` is a call of `enqueue` (QueuedEmailProvider gives no idempotency key,
an application may). The command it sends to Redis takes effect in one step,
Add, and may be sent again when the connection is lost before the reply
(Resend), without a limit, since `maxRetriesPerRequest` is null. A job's
identifier is its key (`safeJobId`, taken to be injective) or a fresh one. A
`known` job has a type the worker has registered a handler for.

BullMQ is external, and modelled by what this code needs to know of it: a job
is locked by the slot that runs it; the outcome is written under that lock, or
not at all; a lock expires when it is not renewed, whether its holder is dead
or only slow; the stalled check of a live worker gives such a job out again, at
most `MaxStalls` times; identifiers that exist are not added again;
`worker.close()` takes no further job and settles when the slots are free. Time
is left out: a delayed job, one that backs off and one that is not picked up
yet are `waiting`. Jobs are not removed: the horizon of the model lies within
the retention (`removeOnComplete`, `removeOnFail`).

A slot is `running` until the handler's promise settles and `settled` until its
outcome is written. `sent` is history: the jobs for which the mail server has
accepted an e-mail. A handler can fail after that (Deliver), which is why
delivery is at least once and not exactly once. A key keeps a second job from
being added; it does not keep the one job from being run again.

The worker process (`phase`, `ready`, `listeners`, `exitCode`) is started, may
be killed at any moment (Die), and is started again `Lives` times; down, it has
no memory. `reachable` says whether Redis answers it (RedisTurns): while it does
not, no job is taken or taken back and no outcome is written, a handler that
runs goes on, and whatever waits for a command, `worker.close()` included, waits
without a limit (`maxRetriesPerRequest` null, `RedisConnection.ts:6`).

AtLeastOnceQueue is the promise: a job for which enqueue has returned is there
until it is done or given up, is done only after its e-mail was accepted, given
up only after `Attempts` or `MaxStalls + 1` runs, whichever is less, and run
`Attempts + MaxStalls` times at most. `JobState` forgets the lock and whether a
job waits or is active; slots, calls and the worker's process do not show in it
at all, so that a crash and a restart are steps in which nothing happens. As a
GracefulShutdown the worker's slots are the workers, and closing begins when
the close of `worker` itself, the first task, has settled: until then slots may
still be busy. Boot is one step, since `startWorker` awaits nothing between
telemetry and the listeners. A rejected `waitUntilReady` sets the exit code and
leaves the process running; it takes no jobs.

### Configuration and CompositionRoot

`Settings` are the parsed values that the other models read; a text that the
code only asks to be given or not is a BOOLEAN, and a secret is shorter than 32
characters, the default, or an operator's own (`Secrets`). `Accepted` is
`superRefine`. Two settings interact in an odd way there, and the model keeps
it: with authentication off, secrets are not looked at.

`ApiTasks`, `WorkerTasks` and the priorities are what `createContainer`,
`startServer` and `startWorker` register; `Opened` is what they open, `Needs`
which resource works with which other. An application may bring adapters of its
own (`given`), with or without `check` and `close`. The lifecycle runs take
their tasks and priorities from here.

### RequestPipeline

`req[r]` holds what the chain knows of a request, and `pc` names the await it is
suspended on. Code between two awaits is one step, of however many middlewares:

| `pc` | suspended in | action that continues |
|---|---|---|
| `cors` | an asynchronous CORS policy (in the deployments of `Awaiting`) | CorsAnswered |
| `body` | `express.json`, `express.urlencoded` | BodyRead |
| `limit` | the limiter's store | Count |
| `verify` | the verification of an access token | Verify |
| `service` | a service behind a controller | Serve |
| `checks` | the checks of a readiness request | CheckSettles |
| `render` | the registry's rendering of the metrics | Render |
| `answered`, `flushed` | `finish`, `close` of the response | Flush, Close |

`open` says whether the client is still connected: it may leave at each await
(ClientLeaves), and the handler goes on. `installed` says that `apiResponse`
has put `res.success` and `res.fail` on the response; an error before that
reaches an error handler which calls a function that is not there. `recorded`
is the status a request is counted under, once `finish` or `close` has run the
listener of httpMetrics, and `late`, which is history, that the client had left
before the listener was installed. The limiter has a count per key (`hits`),
the client's address or, when the proxy is not trusted, the proxy's; a window
of it ends at any time. `own`, `met` and `missed` are history: the requests a
client itself has sent in the window, and the dependencies that were up, or
down, at a moment of a readiness request.

A request is what decides its way: route, token, body, whether the input is
valid, whether it comes with an `Origin`. The services succeed, refuse with an
AppError, or break; what they do is AuthSessions. Dependencies come and go
(DependencyTurns). A command to a Redis that is down is queued until it
returns, since `maxRetriesPerRequest` is null; the other checks fail. Express,
cors, body-parser and express-rate-limit are modelled by what this code relies
on.

### FileStorage

`file[k]` names the upload whose file, or object, the key has, and `call[u]` is
both the call and what it has written. The local provider awaits `mkdir` and
`open` with flag `wx` (`opening`), the pipeline (`writing`), and `stat` of
whatever the path names by then (`closing`). The S3 provider sends parts and
completes them into an object in one step, which replaces the one before. A
body breaks at any point (Breaks), an answer of S3 is lost (Completed), the
process dies (Crash), and anyone may delete a key meanwhile (Delete).
`displaced` is history. Keys are taken to be inside the root, which
`resolve` sees to.

AtomicUploads is the promise: between its call and its answer an upload takes
effect at one moment, all of it, or never. The moment is the completion of the
object with S3, the last chunk with the local provider (`PhaseOf`); `WholeFile`
hides a file that is not whole, and PartialIsUnanswered says where those come
from. An upload of the local provider replaces no whole file, and one that was
deleted while it was written takes effect without being seen.

## 3. Runs

| Run | Checks | Bounds and why they are enough |
|---|---|---|
| AuthRotation | SessionInv, SingleUse, OneSessionPerLogin, SessionOutlivesJwt, EndedForGood, LogoutIsFinal, ImplementsRotation | 2 calls, 1 account, 3 token pairs: a login, its refresh and a race of two calls on either token; clock 0..2 with 2 ticks per second and lifetimes of 1 s, so that what is signed within a second expires in whole seconds, and its session half a second later |
| AuthAccounts | IssuedToActive, EmailUnique, TokenRolesHeld, EveryCallEnds, RotationSettles | 2 calls, 2 accounts, 2 e-mails: two creations of one e-mail, seedAdmin and a registration of the administrator's, or a login or refresh beside either; 2 token pairs, a login and its refresh, and 1 tick of time, at which both expire; no symmetry, because of liveness |
| AuthDuplicateEmail | EmailUnique is violated | in-memory adapter, 2 calls, 1 e-mail |
| Fetch | FetchInv, SendsBounded, HalfOpenIsQuiet, NothingSentWhileOpen, EveryFetchEnds, OpenIsProbedAgain | 3 callers (two stragglers and a probe), 2 attempts, thresholds 2 and 2, reset timeout 2: the circuit opens within one call's retries or between two calls |
| Lifecycle | LifecycleInv, RequestsKeepResources, NothingForgotten, ExitIsHonest, ImplementsShutdown, DrainEnds, ShutdownEnds | 5 tasks (a tie of priorities, one that registers late), 2 connections, all signals |
| LifecycleTimeout | TimeoutBounds is violated | 2 tasks, 1 connection |
| Worker | WorkerInv, RunsBounded, ImplementsQueue, ImplementsShutdown, JobsSettle, WorkerCloses | one job, under a key (the theorems cover those without, whose identifier is fresh); Redis comes and goes; 2 slots, so that one holds an expired lock while the other runs the job again; 2 attempts (5 in the code), 1 stall, 2 lives, a signal and an exception; one resource besides the worker itself, since the order among several is what Lifecycle checks with five. Several jobs share nothing but slots; that the safety properties hold for any number of them, and for several calls with one key, is what the theorems say |
| Pipeline | PipelineInv, ActiveCountsWaiting, ServicesAreGuarded, ReadinessIsTrue, RefusedForOwnRequests, EveryRequestEnds | 2 requests, 2 clients, 13 inputs that reach every branch of the chain between them, a limit of 1, a deployment with everything off, one with a trusted proxy, BullMQ and a metrics token, and one with an asynchronous CORS policy, which ActiveCountsWaiting excludes; requests share only the gauge, the limiter and the dependencies, for each of which two make all the difference |
| PipelineMalformed | ErrorsHaveEnvelope is violated | 1 request |
| ReadinessHangs | FailedDependencyIsReported is violated | 1 request |
| GaugeLeaks | GaugeComesDown is violated | 1 request |
| Storage | StorageInv, PartialIsUnanswered, ImplementsStore | 3 uploads of 2 keys, bodies of 0 to 2 chunks, either provider: a file that is opened, deleted and opened again while its first upload writes, with a third upload in between |

Symmetry is used in safety runs only: of the calls in AuthSessions, whose
tokens and accounts are numbers, since their order matters, and of the uploads
in Storage. Deadlock is checked in the runs of AuthSessions, Fetch and Pipeline;
the processes of Lifecycle and Worker end, uploads are made once, and the three
violation runs of the pipeline serve one request.

The five violations are disagreements between the code and its documents:

- **A duplicate e-mail** (`services/auth.service.ts:34`). "Reject a duplicate
  email." (`docs/BEGINNER_GUIDE.md:128`) holds with PostgreSQL, by its unique
  index; with the in-memory repository two registrations that have both passed
  `findByEmail` both succeed, since scrypt is awaited in between.
- **The shutdown timeout** (`server.ts:28`). "The process enforces
  `SHUTDOWN_TIMEOUT_MS` as an upper bound." (`docs/OPERATIONS.md:67`): the
  timer closes connections and sets the exit code, and does not end the process
  when a resource does not close. The worker lacks the bound altogether: it
  reads no timeout and sets no timer (`workers/background.worker.ts:36-42`), so
  that with Redis away and a job in a slot its shutdown does not end before
  Redis is back. No run shows that; WorkerCloses assumes the opposite by name.
- **A body that does not parse** (`app.ts:78`). "If any layer throws an error,
  the global error handler produces the error response."
  (`docs/BEGINNER_GUIDE.md:68`): `express.json` fails before `apiResponse` has
  installed `res.fail`; the error handler throws a TypeError, and Express
  answers 500 without the envelope.
- **Readiness without Redis** (`services/health.service.ts:17`). "A failed
  required dependency returns HTTP 503." (`docs/OPERATIONS.md:51`): the ping is
  queued until Redis returns, and the request is not answered at all.
- **The gauge of active requests** (`observability/metrics/httpMetrics.ts:7`).
  "HTTP requests currently being processed"
  (`observability/metrics/MetricsService.ts:28`): a client that leaves while an
  asynchronous CORS policy decides (`app.ts:67`) is gone before httpMetrics
  listens for `close`; the request is counted up and, although it ends, never
  down.

### Fairness

- `FairSpec` (AuthSessions): weak fairness of `Continue(c)`, for each call. The
  event loop runs every continuation that is ready, and scrypt and the database
  answer or fail. Nothing is assumed of new requests, operators, time or
  crashes.
- `FairFetchSpec`: each call proceeds, as timers fire and every fetch is
  answered or aborted (`AbortSignal.timeout`). OpenIsProbedAgain is conditional:
  on time that passes and on callers that keep coming.
- `LoopSpec` (ApiLifecycle): the timeout fires and continuations run. Nothing is
  assumed of clients, handlers, or `close()` of a resource. `SettlingSpec`
  adds that every `close()` settles; ShutdownEnds needs it, DrainEnds does
  not.
- `FairWorkerSpec`: handlers settle (the SMTP transport has connection and
  socket timeouts) and locks of the dead expire; while Redis is reachable, a
  live worker takes jobs and writes outcomes, the stalled check runs and closes
  settle. Nothing is assumed of producers, signals, starts, or of Redis being
  reachable: JobsSettle is conditional on a worker that, from some moment on,
  stays up with Redis reachable, WorkerCloses on a Redis that stays reachable.
  Should it come and go for ever, neither is promised.
- `FairPipelineSpec`: each request proceeds. Continuations run, policies,
  bodies, services and sockets settle; a check of Redis can settle only while
  Redis is up, and then, should Redis come and go for ever, need not.
  Nothing is assumed of clients, windows or dependencies: EveryRequestEnds is
  conditional on a Redis that, from some moment on, stays up.

## 4. Proofs

All theorems hold for every value of the constants that the named assumptions
admit (`IdAssumption`, `NoneAssumption`, `EmailAssumption`, `TimeAssumption`,
`PersistentAssumption`; `ThresholdAssumption`, `AttemptsAssumption`;
`TaskAssumption`, `BootAssumption`; `QueueAssumption`, `RunnerAssumption`,
`SignalsAssumption`; `RequestAssumption`, `InputAssumption`,
`PolicyAssumption`, `DeploymentAssumption`; `NoUploadAssumption`,
`ProviderAssumption`, `ChunkAssumption`, `KeyAssumption`).

- **AuthSessionsProofs**: `SessionInvariance`, and from it `TypeCorrectness`,
  `RefreshTokensAreSingleUse`, `RotationNeverForks`, `DeliveredTokensAreStored`
  and `EndedSessionsStayEnded`. OneSessionPerLogin alone is not inductive: that
  a new session does not join a live one needs to know that the refresh which
  stores it holds its family alone, that a login's family is empty until its
  session is stored (`FreshFamily`), that a signed token belongs to one call,
  and what a call has in hand at each await (`CallShape`, `TokenShape`).
  `SessionInv` is the conjunction; there is one lemma for each group of actions.
  The proof does not depend on Persistent: it covers both adapters.

  `AccountInvariance` is a second invariant, inductive together with the first:
  at each await a call knows the account it acts for, roles that are among the
  account's, whether it has seen it ACTIVE, and a time at which it signed
  (`CallKnows`); a signed token names an account and roles it has, and its
  session is stored for at least `(iat + RefreshTtl) * TicksPerSecond`
  (`TokenKnows`). The account part rests on `UsersMove`: no step changes an
  e-mail or takes a role away. It yields `TokensGoToActiveAccounts`,
  `TokensClaimHeldRoles`, `SessionsOutliveJwts` and, only where Persistent
  holds, `EmailsStayUnique`: AuthDuplicateEmail shows that the assumption is
  needed.
- **RotationProofs**: `RotationIsImplemented`, the refinement that AuthRotation
  checks. A step is sorted by what it does to a family of tokens: it opens one
  (a login stores its session), begins a rotation (consume), ends it (the next
  session is stored), closes families (sessions end, refreshes break off), or
  shows in none. `FamilyInv` adds that a refreshed token descends from a login
  whose session was stored; `LiveFamily` and `OtherFamily` compute the mapped
  variables, a family's one live session being its token by
  OneSessionPerLogin. And `LogoutsAreFinal`: a logout that finds the token a
  login is at closes the login, since with a live session no refresh of it can
  be under way, and a closed family never opens again.
- **ResilientFetchProofs**, of the breaker: `BreakerInvariance`,
  `BreakerTypeCorrectness`, `TrippedByCount`, `ProbingIsQuiet`. HalfOpenIsQuiet
  needs that an OPEN circuit measures its reset timeout from the last failure of
  any operation, a straggler's included. Of the retry loop:
  `FetchImplementsBreaker` (a step of the retry loop
  is a step of the breaker or leaves it alone), hence
  `BreakerSafeUnderRetries`; `FetchInvariance`, which adds that a caller's
  operation is pending in the breaker exactly while it waits for fetch;
  `RequestsSentBounded`, from `SendInv`; and
  `OpenCircuitIsRespected`, since every attempt is a new admission.
- **ApiLifecycleProofs**: `LifecycleInvariance`, and from it
  `ResourcesClosedInOrder`, `ResourcesOutliveRequests`, `EveryResourceTried`,
  `ExitCodeIsHonest`. The strengthening says what each phase knows: closeAll has
  begun only when the server is closed and no connection is left, and nothing
  brings one back; an exit code of 0 in the end means that no close failed.
  What it knows of the timer gives `TimeoutFreesTheDrain`, the safety half of
  DrainEnds: while the server drains, the timeout is still to come or has left
  no connection to wait for.
  `ApiShutsDownGracefully` is the refinement of GracefulShutdown; a step of the
  traffic begins or ends work, closeAll begins the closing, and a turn of its
  loop closes or settles one resource (`StageMoves` computes the mapped stages).
- **BackgroundWorkerProofs**: `WorkerInvariance`, and from it
  `ResourcesOutliveJobs`, `DeliveredAtLeastOnce`, `DeliveriesBounded`,
  `FinishedJobsStay`. That no resource closes under a job needs the order of
  the registry, that the slots are free when the worker's own close settles
  (assumed of BullMQ), and what each phase knows of the tasks. The bound on
  deliveries counts each run of a job as an attempt, a stall, or the one that
  is going on or was the last (`Ran`). `RunnerAssumption` states what
  `startWorker` registers: the worker's priority is the highest.
  `QueueIsImplemented` is the refinement of AtLeastOnceQueue. The
  delicate step is the report of a slot, which is a completion, a retry that
  stays pending, or the end of the job: for these the invariant must count the
  runs behind the attempts (`JobShape`) and know that a slot which settled well
  has delivered (`SlotShape`). `WorkerShutsDownGracefully` is the refinement of
  GracefulShutdown: a crash is its Restart, whatever was open, closing or busy.

- **CompositionRootProofs**: for all settings and options, `OpenedIsClosed`
  (what a process opens has a task, given that adapters an application brings
  along are its own affair), `DependentsCloseFirst` (a task has a higher
  priority than every task it needs) and `ProductionIsDurable` (accepted
  production settings lose no accounts and no jobs at a restart).
  Together with the order of closing, which both lifecycles prove for every
  table of priorities, they give `NeededByApiIsOpen` and `NeededByWorkerIsOpen`
  (in ApiLifecycleProofs and BackgroundWorkerProofs): if the tasks and
  priorities are those of some settings and options, then all that a waiting
  request, a running job, or a resource that is open or closing works with is
  open. The lifecycle runs use one such table each.
- **RequestPipelineProofs**: `PipelineInvariance`, and from it
  `GaugeCountsWaiting`, `ServicesStayGuarded`, `ReadinessStaysTrue`; and
  `RefusalsAreEarned`. The gauge is the cardinality of a set of requests, so
  each step is one of four: the set stays, gains or loses one request, or is
  not concerned. That it loses a request at most once rests on `MeterShape`: a
  request is not recorded exactly as long as it is open and not flushed. The
  invariant counts the requests that left too early as well
  (`ActiveCountsCounted`); only an asynchronous CORS policy makes such, so that
  GaugeCountsWaiting, with its condition, follows, and GaugeLeaks shows that
  the condition is needed.
  Readiness needs that the checks of a request are accounted for (`CheckShape`):
  each is pending, has failed, or has met its dependency. The limiter needs
  that, per address, it counts no more than the client has sent.
- **FileStorageProofs**: `StorageInvariance`, and from it `AnswersAreTrue` and
  `PartsAreUnanswered`. The invariant relates the two directions: which key
  names an upload that is at some step (`CallShape`), and how far an upload is
  that a key names (`FileShape`). `UploadsAreAtomic` is the refinement of
  AtomicUploads. Each step changes one call and one key at most, or ends calls:
  `PhaseMoves` and `WholeFileMoves` say what that does to the mapped variables,
  and the invariant what cannot happen: that a chunk completes a file another
  upload owns, or that a call ends in success on part of its body.

Model-checked only: the nine liveness properties (`EveryCallEnds`,
`RotationSettles`, `EveryFetchEnds`, `OpenIsProbedAgain`, `DrainEnds`,
`ShutdownEnds`, `JobsSettle`, `WorkerCloses`, `EveryRequestEnds`), since
fairness is out of the prover's reach. Every invariant, every action property
and every refinement that a passing run checks is proved.

Proved, and in no run under its own name: `ClosedInOrder` and
`JobsKeepResources`, which are parts of LifecycleInv and WorkerInv or follow
from ImplementsShutdown; `DoneMeansSent` and `FinalIsFinal`, which
ImplementsQueue implies; `AnsweredIsStored`, which StorageInv implies;
`DrainIsBounded`; `AccountInv` and `FamilyInv`.

## 5. Plan

The inline queue next to BullMQ, as a second implementation of AtLeastOnceQueue,
the idempotency keys aside, which the inline adapter does not honour
(`infrastructure/queue/InlineQueueProvider.ts:9`); and of the limits of the
model the removal of old jobs, after which a key may be used again.

## 6. Not modelled

Logging, audit records, tracing and error monitoring change nothing the program
reads. Cryptography is abstracted: tokens cannot be forged, hashes do not
collide, and access and refresh tokens are not confused. Schema validation
and the normalisation of e-mails are left out: `Emails` holds normalised
addresses, and seedAdmin, which does not normalise, is given one. Deletion of
accounts does not exist in the code. Delays, TTL defaults and connection pools
have no counterpart beyond the constants named above.

- Inline queue: it awaits the handler in the caller and keeps no job, so that
  there is nothing that interleaves but the handler itself.
- Jobs that BullMQ removes, and what their keys allow afterwards.
- Routes, checks and adapters that an application adds; a denied preflight is
  passed on to a path that no router knows.
- Headers, request ids, the values of histograms, the wording of answers.
- `getDownloadUrl`, `check` and `createReadStream` of the storage providers:
  they change nothing.
- A clock that is set back (`resilience/CircuitBreaker.ts:29`), and roles in an
  access token that outlive a change of the account until it expires.
- The start of telemetry, and what an exporter does with it.
