# A TLA+ verification of the LLM gateway

The gateway (`src/index.ts`, a Hono application on Node.js) stands between
OpenAI-style clients and local model servers (Ollama, and Apfel on a Mac). It
authenticates bearer tokens, limits rates, forwards Chat Completions and relays
their streams; an administration API changes keys and starts and stops models;
a bootstrap script writes its configuration, and deployment scripts replace the
running gateway on a phone and on a Mac.

This directory holds TLA+ modules of its parts, TLC configurations that check
them on small instances, and proofs that TLAPS checks for every instance. Paths
below are relative to the repository.

    tlc -config MCStreamRelay.cfg MCStreamRelay      # one run
    tlapm StreamRelayProofs.tla                      # one module of proofs

## 1. Inventory

Node.js runs one JavaScript continuation at a time. Everything between two
`await`s is atomic; everything else (other requests, the network, the clock, the
file system as other programs write it, the end of the process) may happen at an
`await`. This is what decides what a single action is in every module of the
gateway. The deployment scripts are processes of their own.

| Component | State | Operations | What is hard |
|---|---|---|---|
| **Chat Completions stream relay** `src/proxy/openaiCompatibility.ts` | the buffer, the validator (`sawChunk`, `sawDone`), the queue of prefetched outputs, the reader, the stream given to the client, the abort controller | prefetch until the first chunk, `pull`, `cancel`, failure event | reads that settle after a cancellation, cuts at any byte, errors before and after the status line went out, the event limit, backpressure |
| **Rate limiter** `src/middleware/rateLimit.ts` | a token bucket per key id | the middleware, `getStatus`, `resetBucket`, `clearAll` | limits that change between two requests, ids used twice, a clock set back, rounding of `Retry-After` |
| **API key store and key administration** `src/keys/manager.ts`, `src/admin/keyRoutes.ts`, `src/middleware/auth.ts` | `config/keys.json`, the table in memory, the watcher | `loadKeys`, `saveKeys`, `validate`, `watchForChanges`, the create, update and delete routes | writing in place, crashes, half-written files, edits by hand beside administration, a failing save |
| **Request proxy** `src/proxy/ollama.ts` | `known-models.json`, per request an abort controller and a timer | `forward`, model lists, health check, settings of the key applied to the body | three abort sources, which error a client sees, cleanup of the upstream |
| **Gateway pipeline** `src/server.ts` | the key found by the authentication, kept for the whole request | CORS, trusted proxy, authentication, rate limit, log, forward | a key that changes or goes away while its request runs |
| **Model runtime manager** `src/models/runtime.ts`, `src/models/serviceController.ts` | maps of starts, stops and launches in flight, one shared tags and one shared running request | `checkModel`, `startModel`, `stopModel` | starts and stops that cross, answers older than the action they are to confirm |
| **Host service controller** `src/models/hostController.ts`, `src/modelServiceController.ts` | the child process | `control`, the HTTP endpoint | a `brew` that finishes after it was given up |
| **Administrator login** `src/admin/index.ts`, `src/admin/auth.ts` | failed attempts per client | `POST /admin/login`, tokens | the counter is tested before and raised after an `await` |
| **Trusted proxies** `src/middleware/trustedProxy.ts` | none | CIDR matching, the client's address | shifts by the width of a word, two spellings of one address |
| **Setup and configuration loading** `scripts/bootstrap.mjs`, `src/config/appConfig.ts`, `src/index.ts` | `config.json`, `admin.json`, `keys.json` | write what is missing, pull a model; load and check at the start | a run killed between creating a file and writing it, two runs at once, a gateway started in between |
| **Phone installer** `scripts/deploy/phone-install.sh` | the application directory, its backup, the service, a lock directory, shell variables | deploy, rollback, signal handler, cleanup | any command fails, signals between any two commands, two deployments at once |
| **Deployment from a workstation** `scripts/deploy-gateway.mjs` | a lock directory on the workstation, a staging directory on the phone, old and candidate container on the Mac | upload and start of the installer; swap transaction, recovery, signal handler | a lost connection with the installer going on, a staging directory shared by all deployments of a revision, a failing step of the swap or of its recovery |
| **Errors and request log** `src/lib/errors.ts`, `src/logging/logger.ts` | none | formatting | — |
| **Semantic operation catalog** `src/semantic/operationCatalog.ts` | none | reads a constant file | — |
| **Admin UI** `public/admin/` | browser page | playground, key forms | a pending test answer after a reset |
| **CI evidence scripts** `scripts/pr-evidence-lib.mjs` | none | checks texts of pull requests | — |

How they interact: a `/v1` request passes authentication (reads the key table),
the rate limiter (keeps the key's limits beside its bucket), then `forward`,
which fetches from the model server under a signal that combines the client's
request, a timer of five minutes and the gateway's own controller, and for a
streamed request hands the body to the relay. Administration requests write
`keys.json` through the key manager, whose watcher reads it back when someone
else writes it. The runtime manager talks to the same model servers and, through
HTTP, to the host controller. The login and everything that asks for a client's
address go through the trusted proxies. The bootstrap script meets the gateway
in its three configuration files. A deployment starts an installer on the phone
from what it staged there, and waits for it over a connection that may be lost;
both meet the gateway only through its files, its service and its health
endpoints.

What makes each component correct:

- *Relay*: what a client receives is a faithful, validated prefix of what the
  upstream sent, ends in a recognisable way, and leaves no upstream connection
  behind; the upstream is read no faster than the client reads.
- *Rate limiter*: no key is admitted more than its burst and rate allow in any
  stretch of time; a client that waits as told is admitted.
- *Key store*: what an administrator was told of a key stays true; nothing
  appears or disappears unasked; memory and file come together.
- *Proxy and pipeline*: one answer per request, the right error, a released
  upstream; a key's rights are those of the moment of authentication.
- *Runtime manager*: a reported status was true at some moment of the request;
  a model is started or stopped at most once at a time.
- *Login*: guesses are bounded in any stretch of time, and nobody is locked out
  for what another did; a client is who the trusted proxies say.
- *Setup*: no file is overwritten, a setup that says it is complete is, and one
  that was cut off can be completed.
- *Deployments*: after any failure the previous release serves again, what is
  printed is true, two deployments never mix, and what was checked is what is
  installed.

The hazards behind these, at their lines, are in `PROJECT.json`.

## 2. Plan

Order: the relay first, being the core and the most concurrent part; then the
limiter and the keys, which every request passes; then the deployments, whose
mistakes are the most expensive; then models and pipeline; then login and setup.

| Module | Models | State |
|---|---|---|
| `StreamEvents` | kinds of SSE events and the validator's verdicts | done |
| `StreamRelay`, `StreamRelayProofs` | one streamed response | done, proved |
| `StreamContract` | what the client is promised; abstract, implemented by `StreamRelay` | done, implementation proved |
| `RateLimiter`, `RateLimiterProofs` | token buckets | done, proved |
| `KeyStore`, `KeyStoreProofs` | keys, file, watcher, administration | done, proved |
| `Setup`, `SetupProofs` | the bootstrap script and the start of the gateway | done, proved |
| `ClientAddress` | addresses, networks and the client's address, against a reference | done, proved in `AdminLoginProofs` |
| `AdminLogin`, `AdminLoginProofs` | the attempt counter with parallel logins, on `ClientAddress` | done, proved |
| `PhoneInstall` | the installer script | done, proved |
| `MacSwap` | the container swap and its recovery | done, proved in `DeployGatewayProofs` |
| `DeployGateway`, `DeployGatewayProofs` | invocations of the deployment script, composed with `PhoneInstall` and `MacSwap` | done, proved |
| `ModelRuntime`, `ModelRuntimeProofs` | start, stop and status requests with their sharing, the host controller | done, proved |
| `Gateway`, `GatewayProofs` | the way of a request through authentication, limit and `forward`; the file of known models | done, proved |

"Proved" is about safety; that fairness makes steps happen is only
model-checked. Left to do: the
request parser and the validator of whole responses against a reference.

Parameters are constants with named assumptions, every operation is an action,
what is recursive is a recursive function, so that every module can be proved
about.

## 3. The modules and the code

Every module that TLC runs has an `MC...` module that gives its constants
values. Definitions marked "A mistake" in the modules are plausible bugs of the
definition that follows; no specification uses them. They record what each
property is able to notice.

### StreamEvents, StreamRelay, StreamContract

`prepareChatCompletionStream` as one response of the gateway with three more
actors: the upstream and its network, the client, and the signals of the fetch.

- `wire` is what the upstream sends, `received` and `partial` how much of it a
  `read()` delivered: `partial` counts parts of an event *and of the blank line
  that ends it*, so a cut can fall anywhere. Text is abstracted to a kind (what
  the validator tells apart) and a length.
- `pc` names the `await` at which the gateway is suspended; `scan0` and `scan`
  are its two loops, during which nothing else runs (`~Running`).
- One action per stretch between awaits: `PrefetchRead`, `PrefetchEvent`,
  `PrefetchDrained`, `Refuse` before the response; `PullPrefetched`, `Pull`,
  `PullEvent`, `PullDrained`, `PullRead`, `Close` in `pull()`; `ClientCancel` is
  `cancel()`. `PullReadAfterCancel` is the read that settles, in any way, after
  the client left.
- `sent` records positions in `wire`, so that order, repetition and loss show.
- A response without a body (`body === null`, refused at once) is a wire without
  events, whose first read finds the end: the client sees the same refusal.
- `ConnectionFails` stands for a broken connection, the five-minute timer and the
  client's abort before the response: the reader cannot tell them apart.

`StreamContract` says the same from the client's side, step by step, without
buffer, queue, reads or connection. `StreamRelay` is shown to implement it with
`outcome` mapped from `pc`, `sent` and `cancelled`, fairness included.

### RateLimiter

`Admit` and `Deny` are the middleware up to its decision (no `await`), with the
key's configuration of that request; `Offered` is `getBucket` followed by
`refillBucket`. Tokens are integers of `1/Unit` token, exact where the code uses
floating point. `SetBack` is a clock set back by a tick: the code computes with
negative elapsed time and the model does too. `elapsed` counts real time.
`window` and `denial` are observers: the first counts admissions since an
arbitrary moment, the second remembers the last 429.

### KeyStore

`file` is `config/keys.json`: a table, text that does not parse (`Broken`), or
JSON whose list of keys breaks off at an element that is no key, or is missing
(`Cut`): `loadKeys` clears the table first, so that the keys before the break are
what is left. `Stat` and `Reload` are the two halves of
`watchFile` (the poll and its callback), with the file free to change in between.
Each administration route is one action because `getKeys` to `saveKeys` runs
without an `await`; its save succeeds or fails at one of three places
(`SaveFails`). `Crash` may hit inside `writeFileSync`. `Start` reads the file
and fails if it cannot. `told` and `edit` are observers.

`Mishaps` selects what goes wrong: `"open"`, `"write"`, `"read"`, and
`"startup"`, an edit between the first load and the watcher's first poll. The
observer `missed` is set by the two after which nothing makes the gateway read
the file again: a reload that failed to read it, and a change before the first
poll.

### Setup

`scripts/bootstrap.mjs` step by step for several runs, and `src/index.ts`, which
reads the same three files. A file is absent, a part that does not parse, or
complete; a complete one remembers who wrote it and the settings that a check
tells apart: the port, and whether the host is an http URL (`ParseArgs`,
`ValidConfig`). `Look` is `readJsonIfPresent`, `Open` and `Fill` the two halves
of `writeJson`, whose flag `wx` makes the creation decide. `GetAdminPassword`
lies between the look and the creation, as the prompt does. `Kill` ends a run
between any two steps, `Fails` stands for every failure outside (npm, the disk,
the prompt, Ollama). The operator runs the script again when all runs ended
(`Rerun`) and removes what does not parse (`Repair`). `LoadConfig`, `LoadAdmin`
and `LoadKeys` are the gateway's start; without a `config.json` its settings
come from the environment (`Environments`), where the port may be wrong.
`disturbed` is an observer.

### ClientAddress, AdminLogin

`ClientAddress` has the operators of `trustedProxy.ts` on octets of `OctetBits`
and groups of `GroupBits` bits instead of 8 and 16. `Masked` keeps what the shift
does: its count is taken modulo the width of the word. An IPv6 address is the
list of its groups or the two lists around the gap, which `ExpandIPv6` fills,
and `Bits` and `First` are the strings that are compared. `Mapped` is the dotted
`::ffff:a.b.c.d`, of which the code leaves the IPv4 address; `Unwrapped` is what
it leaves of an IPv6 address that begins the same way, and `PlainAddresses` are
those that do not. `Belongs` is the reference: the number the address stands for
(`Value`) lies in the range of the network. An address is `NoHeader` when the
connection was closed before it was asked for. `Empty` is a header without text:
an empty `CF-Connecting-IP` hides `X-Forwarded-For` and names nobody, so that the
connection counts.

`AdminLogin` is `POST /admin/login`: `Arrive` tests the count, the body and the
password are awaited (`BodyArrives`, `PasswordVerified`), and a failure is
counted after that. `attempts` keeps the time that is left instead of
`resetAt`, so that the clock needs no bound. `failed` is an observer: the
failures of a client by age, since its last success.

### PhoneInstall

One action per command of the script that matters to the host; `pc` names the
next command. The work inside the work directory is two steps that pass or fail,
because each opens the staged artifact: digest and fingerprint (`Prepare`),
extraction and what is done to the candidate (`Extract`). The attempts of
`checks_pass` are another (`Verify`). `Failing` says which commands may fail,
and a failing command does what it would: `mv` onto an existing directory, for
instance, leaves the application as it was. A trap runs between two commands
(`Interrupt`); before the traps are set a signal ends the shell (`KillEarly`).
An assignment to `swapped` or `service_stopped` is a command like the others
(`MarkStopped`, `MarkSwapped`, `ClearStopped`, `Commit`), because a trap may run
before or after it. `exitTrap` is the trap on `EXIT`, which runs once, after the
handler too. `before` and `excused` are observers: the release that was there
when the lock was taken; and that the service was down or not the application's
then, that a start of the service or a move back failed, or that a signal came
where the variables do not tell what was done (`Behind`).

### ModelRuntime

`checkModel`, `startModel` and `stopModel` as concurrent calls; `pc` says what a
call awaits. `tags` and `ps` are the two requests that several calls share,
`inFlight` the maps of starts and stops, `launching` the services being started.
A request has three moments, which an answer that is older than the question
needs: it is sent, the service serves it (`TagsServed`, `PsServed`,
`ControlServed`), its answer, an error or its timeout arrives (`TagsSettled`,
`PsSettled`, `ControlAnswered`, `ControlFails`). An answer that is shared wakes
every call that awaits it, and each decides (`Decide`) before anything else
runs. The attempts after a launch or a control are `Wake` and `polls`. The
services belong to others too: `Changed` loads, unloads, stops and starts them.
The host controller is the other end of Apfel's `control` and `Confirmed`. Both
targets are configured; a gateway without one answers `not_configured` at once. The
observer `seen` notes what was true since a control was sent, and since it was
answered.

### MacSwap

A step is one `docker` command. All of them block the event loop; so the signal
handler (`Interrupted`) runs only at the two awaits of `createCandidate`, and a
creation under way then is served at any later time (`CreateServed`). `Failing`
commands fail without effect, `Torn` ones after theirs. A second signal of the
kind ends the process (`Killed`), because the handler was installed once.
`verified` is an observer: the candidate passed.

### DeployGateway

`scripts/deploy-gateway.mjs --apply` for several invocations, one installer
each: `DeployGateway` extends `PhoneInstall`, whose `Run` steps are those of the
installers that were started (`InstallerRuns`), and instantiates `MacSwap` for
`applyMac`. `step` is an invocation's next statement of `applyPhone`;
`localLock` the lock directory of each workstation; `staged` whose artifact lies
in the staging directory, which all deployments of a revision share. `Reading`
ties the installer to it: its checks find an artifact, the digest is that of its
own, the extraction takes what is there then. The upload of the installer
(`UploadInstaller`) and its start (`Launch`) are steps of their own. `Await`
ends with the installer, or with a lost connection, after which the installer
goes on until its terminal hangs up (`InstallerSignalled`). `Die` is a signal to
the script, which has no handler on this path, so that its lock and the staging
directory stay.

### Gateway

`pc` names the await of each request. `Arrive` is one step, up to the first
await: authentication (`Unauthorized`), where `validate()` answers anything
(`KeyStore` says what it answers), the limiter (`Limited`), which may refuse
(`RateLimiter` says when), and the beginning of `forward` (`ForwardBegins`,
`PublicModels`). `key` holds the rights found, `gone` and `late` the signals of
the client and of the timer; the third, the gateway's own controller, aborts
inside `Prefetched` and `Catch`. `Discard` is the cancellation of a body that is
not wanted, an await of its own. From "prefetch" on the stream itself is
`StreamRelay`. `Remember` is `rememberModel`, whole, because nothing awaits
between its read and its write; the file may be unreadable, or the write fail or
be cut short (`Torn`). `promised` is an observer: what was on record when a list
began, less what the file lost since.

## 4. Runs

| Run | Question | Instance | Distinct states |
|---|---|---|---|
| `relay` | is the client's stream faithful, validated, ended, quiet after its end, is the upstream released and read on demand, and is the contract implemented, liveness included | every upstream of up to 3 events of every kind, both profiles, every cut, failure and cancellation | 99 850 |
| `rate_limiter` | are admissions bounded and is `Retry-After` honest | one id, two configurations, 6 ticks, the clock set back twice | 65 573 |
| `keys` | do the administrator's answers hold, does nothing change unasked, do memory and file come together | 2 secrets, 2 ids, every file content, every mishap | 92 789 |
| `keys_hot_reload` | *finding*: is every edit by hand loaded | the same, without mishaps | — |
| `setup` | is no file overwritten, is a complete setup complete, does administration come with the keys, does trying again complete it | 2 runs, 4 command lines, 2 environments, 2 mishaps, any file there before | 171 093 |
| `login` | how many guesses are there, who is locked out, is an address in a network iff it has its prefix | 2 parallel logins of 5 requests, a trusted proxy or none, limit and window of 2; every address and network of 2 × 2 and 3 × 1 bits | 1 207 653 |
| `deploy` | does the lock keep installers apart, are status and report true, does a signal leave a gateway running, is the artifact kept, is no deployed release lost, does everything end and free its lock; on the Mac, is a gateway container kept and the evidence true | 2 invocations on one workstation or on two, any noticed command failing, one of them hit by a signal, a lost connection or a kill; or one deployment to the Mac, every command failing, all but two with effect, one signal and a second | 1 139 208 |
| `phone_signal` | *finding*: is the previous release restored when a signal comes | 2 installers, a bad candidate, one signal each | — |
| `phone_mutex` | *finding*: do two installers ever work together | 3 installers, one signal each | — |
| `runtime` | are duplicates coalesced, is a control's success true, does every call end and nobody wait for nothing | 2 calls, a model of Ollama and one of Apfel, launches and host control, one change by others | 674 070 |
| `runtime_stale_stop` | *finding*: is a failed stop really one | 2 calls, one model, one change by others | — |
| `gateway` | one version of the rights, no connection left, complete lists, an end | 2 requests of 6 sorts, 3 sorts of key that change in between, every fault of the file | 703 717 |

`runtime`, `deploy`, `gateway` and `login` take two to three minutes each with two
workers, the others less than one.

What the properties say is at each of them in the modules. In short:

- `EndsWithDone`, `FaithfulPrefix`, `UpstreamReleased`, `ReadsOnDemand`,
  `QuietAfterEnd`, `NoFalseAlarm`, `ImplementsContract`, `Terminates` for the
  relay. `NoFalseAlarm` is the strongest statement about the limit that is true:
  no legal upstream is refused as long as its events *with their separators* fit.
  `ReadsOnDemand` bounds what is read ahead of the client: bytes are taken in only
  when the client waits and was handed all it may see of what arrived. It excepts
  an upstream that has sent nothing but comments: before the first chunk those are
  queued, without a bound, while the gateway reads on (`openaiCompatibility.ts:387`).
- `AdmissionBound` and `RetryIsHonest` for the limiter. The first holds with the
  clock set back, because the negative elapsed time takes away what the later
  movement gives again. The second speaks of a clock that is not set back.
- `AnswersHold`, `OnlyAsked` and `Converges` for the keys. `OnlyAsked` has no
  exception: a key in memory changes only to what the file says of it, up to where
  a list that breaks off does.
- `NeverOverwritten`, `SetupIsComplete`, `AdminComesWithKeys` and
  `SetUpInTheEnd` for the setup. `AdminComesWithKeys` leaves out a gateway that
  is started while a run writes: both go through the files in the same order.
- `AttemptBound`, `LockedOutForCause` and `MatchIsMembership` for the login.
  The bound is what the code keeps, not its limit: parallel logins all pass the
  test, so that each window may be exceeded by as many as are under way, and two
  windows meet in a stretch of the length of one.
- `OneAtATime`, `StatusIsHonest`, `HandlerRestores`, `ArtifactIsKept`,
  `NothingDeployedIsLost` and `Finishes` for deployments to the phone.
  `StatusIsHonest` and `NothingDeployedIsLost` speak of a host that no signal
  disturbs; they and `HandlerRestores` are checked where the stop and the move of a
  failed candidate work in the rollback: the script ignores their failure and may
  then print `rolled_back` with the candidate in place. `HandlerRestores` is what
  the signal handler achieves: a run that a signal ended leaves the previous release
  or the candidate it committed in place and running. It is excused from the two
  places where a variable is assigned after the command it tells of (a stopped
  service that `service_stopped` does not know of yet is not started again; an
  application moved before `swapped=1` is not moved back), from the time after a
  restore, which is `RestoresPrevious`, and from a start or a move back that fails.
  Between
  `swapped=1` and `service_stopped=0` both are set, and the handler is right because
  it asks for `swapped` first; a release that was printed as deployed is rolled back
  by a signal before `swapped=0`. `ArtifactIsKept` is about one workstation and
  connections that last. From two workstations, one deployment may replace or
  remove what another staged between its installer's digest and extraction; no
  document promises otherwise, so that it is stated here and not a finding.
  `Finishes` excepts kills, which leave a lock on the workstation, and signals
  before the installer's traps, which leave one on the phone. `RestoresPrevious`
  is what the documentation says without these conditions; `phone_signal` refutes
  it.
- `EntriesExact`, `NobodyStranded`, `ControlIsHonest` and `Answered` for the
  runtime manager. `ControlIsHonest` is about calls that sent a control: what
  they report was true at some moment since then, for Apfel since the control was
  answered. (A start on Ollama may answer `idle` from a list of loaded models that
  was served before the load.) After the launch of a service alone, the check may
  join a request from before.
- `OneVersion`, `Released`, `ListIsRight` and `Answered` for the pipeline. That
  504, 408 and 503 name the timer, the client and the upstream is one expression of
  the code and no property; where the code is less exact, a model list that fails
  after the status, the timeout included, is told as an error of the upstream
  (`ollama.ts:81`).
- `NeverLost` and `ReportIsHonest` for the Mac. Each excepts one command that
  fails after it took effect: a `docker rm` of the old container, after which
  recovery removes the candidate too, and a `docker stop`, after which
  `not-needed` is printed.

### Bounds and why they are enough

- *Relay*: the loops treat one event at a time and look at the state
  (`sawChunk`, `sawDone`, the queue) only; three events are enough for a hidden
  event or a first chunk, a second output, `[DONE]` and something after it, with
  the prefetch ending before or after any of them. With `MaxEvent` =
  2 and `Separator` = 2, lengths 1, 2 and 3 are below, at and above the limit,
  and a cut can fall inside the event, at its end and inside the separator. The
  proofs cover every upstream and length.
- *Rate limiter*: buckets of different ids share nothing, so one id suffices.
  The two configurations differ in both fields, in opposite directions. With
  `Unit` = 4 a rate of 3 does not divide a token, so rounding happens. Six
  ticks fill the bucket from empty at either rate. The proofs lift the bounds.
- *Keys*: two secrets and two ids allow an id used twice, a key that is changed
  while another is saved, and a deletion of several keys. No bound on the number
  of steps is needed.
- *Setup*: two runs meet only in the files, of which each has one at a time. The
  ports are 0, 1, the largest and one more. One mishap cuts a setup off, the
  second cuts off the next attempt. The proofs lift the bounds.
- *Login*: clients meet only where they share a key, which two logins under way
  and a proxy suffice for; a limit of 2 has a first failure and a last one, a window
  of 2 an age that counts and one that does not any more. Octets of two bits have
  every prefix below, at and above a boundary between them, and 0; three groups
  have a gap at either end, in the middle and none. The proofs lift the bounds.
- *Deployments*: two installers meet only through the locks, the staging
  directory, the application and the service; the third in `phone_mutex` is the
  one that finds the lock gone. One mishap at a time: the proofs have any number.
- *Model runtime*: one call works, the other joins it or shares its requests; one
  change is enough to make an old answer wrong. One attempt instead of eight is
  the first and the last. The proofs have any number of calls, attempts and
  changes; only `Answered` rests on the instance.
- *Gateway*: requests meet only through the file of known models, two at a time:
  one that writes it and one that lists or writes. Each of the six sorts takes
  another branch of `forward`.
- *Mac*: the swap is one process, so nothing is bounded but the signals: a
  first, and a second that kills.

`MaxTime` and `MaxBack` (limiter), `MaxEvents` (relay, in `MCStreamRelay`),
`MaxSignals` (phone), `MaxMishaps` (setup, deployments) and `MaxChanges`
(runtime) are the only artificial bounds; `MaxPolls`, `MaxLoginAttempts`,
`LoginWindow` and `MaxPort` are constants of the code, made smaller.

`CHECK_DEADLOCK FALSE` stands where the system stops: a response that ended,
requests and calls that are all answered, runs and deployments that are done.
Calls of `ModelRuntime` and logins are interchangeable, and the runs of theirs that
check no liveness use that symmetry.

### Fairness

- `StreamRelay`: weak fairness of `Gateway` (the event loop runs a continuation
  that is ready), of `ClientRead` (the HTTP server goes on pulling until the
  client leaves, when it cancels) and of `ConnectionFails` (the timer of
  `AbortSignal.timeout(300000)` fires in the end). None of the upstream, which
  may stay silent for ever, and none of `ClientCancel`.
- `StreamContract`: weak fairness of its next step, the promise that a response
  does not hang.
- `KeyStore`: weak fairness of `Stat` and `Reload` (the timer of `watchFile` and
  its callback). None of crashes, restarts, edits or administration.
- `Setup`: weak fairness of each run's next step and of trying again, strong
  fairness of the operator's removing a file that does not parse, which is
  possible only between runs: that the operator does not give up is assumed,
  because nothing in the code promises an end without.
- `DeployGateway`: as long as some invocation or installer has a command to run,
  one is run: commands end. None of signals, lost connections or kills, and none
  of the Mac: a request to the Docker API has no timeout.
- `ModelRuntime`: weak fairness of `Gateway`, which always has a way on: every
  request is under an `AbortSignal.timeout` and every pause is a timer. None of
  the services, which may be silent for ever.
- `Gateway`: weak fairness of the five-minute timer, of the rejection of an
  await that was aborted, of `cancel()` and of the two requests of a list, which
  give up after five seconds. None of upstreams, bodies or clients.

## 5. Proofs

TLAPS checks these for every value of the constants that satisfies the named
assumptions.

**StreamRelayProofs** — `TypeCorrect`, `EndsWithDoneCorrect`,
`FaithfulPrefixCorrect`, `UpstreamReleasedCorrect`, `QuietAfterEndCorrect`,
`ReadsOnDemandCorrect`, `NoFalseAlarmCorrect`, `ImplementsContractSafety`, from
`WiresAssumption`, `SeparatorAssumption` and `MaxEventAssumption`. The invariant
`IInv` adds to the properties what the code relies on without saying it:
`Phases` (what each await implies about stream, queue and demand), `Flags`
(`sawChunk` and `sawDone` say which kinds the taken events have), `Ending` (a
terminal output stands last and then the gateway only waits to close),
`Connection` (when the body may still be open) and `Kept` (every visible event
among the taken ones is sent or queued). `FaithfulPrefix` alone is not
inductive: nothing in it says that the events still to be taken come after the
queued ones. `ReadsOnDemand` needs `Drained`, that whoever awaits a read has taken
all whole events, and `Exact` below, by which only comments were taken before the
first chunk. `NoFalseAlarm` needs the converse of `Flags` too: `Exact` says
that while the relay goes on, the flags tell exactly which kinds it passed and
what it passed is legal, so that an event refused by the flags is illegal by the
wire; and `InPart` bounds a partial event by its whole.
`ImplementsContractSafety` shows that every step is a step of `StreamContract`
or changes nothing a client sees: `HeadIsNext` and `LastOfPrefix` turn "all
visible events are among the outputs" into "the next output is the next visible
event".

`ResponseIsFinite` is the safety half of `Terminates`: no read waits for an
upstream that ended or that the gateway cancelled (`ReadsSettle`), and every step
takes in bytes of the wire, which is finite, or lowers `Effort`, a natural number
to which a read adds at most one. `Effort` weighs the end of the body, the closing
of the stream, the client's leaving and the events still to be taken or sent
(`Load`) above the place in the loops (`Way`) and the demand yet to be stated.

**RateLimiterProofs** — `TypeCorrect`, `AdmissionBoundCorrect` and
`RetryIsHonestCorrect`, from `UnitAssumption` and `ConfigsAssumption`. The bound
becomes inductive as `Credit`: what was admitted, *plus the tokens the bucket
holds or will hold when it is next refilled*, is at most burst plus rate times
time. It is kept by a change of configuration because the window's burst and
rate are the largest seen, and by a clock set back because a bucket's last
refill and the clock are compared through the real time that passed.
`RetryIsHonest` has `Waiting`: while the clock was never set back no bucket is
in debt, and that of a denied id earned, or is full by, what its configuration
earns since the denial; `WaitEarnsToken` shows that the rounding of
`Retry-After` is enough.

**KeyStoreProofs** — `TypeCorrect`, `AnswersHoldCorrect` and `OnlyAskedCorrect`,
from `EditsAssumption`. `AnswersHold` is not inductive: a reload of a file whose
list breaks off (`Cut`) forgets the rest of the keys, and only `CutIsEdited` says
that the administrator was told nothing since such a file was written.

`ChangesAreNoticed` is the safety half of `Converges`. `Watched` says that while
memory is behind the file the watcher has a change before it, to notice or to
load, unless the file was unreadable or changed before the first `stat()`
(`missed`); each step of the watcher leaves it less to do (`Due`), and memory that
holds what the file says keeps it until someone writes the file.

**SetupProofs** — `TypeCorrect`, `NeverOverwrittenCorrect`,
`SetupIsCompleteCorrect`, `AdminComesWithKeysCorrect`, from `NamesAssumption` and
`BoundsAssumption`, for any number of runs and mishaps, any command lines and
environments. `Writers` says that a file being written is a
part, and that nobody else writes it, which is why `Fill` overwrites nothing;
`Passed` that the files a run has passed are complete and that it knows the
`config.json` that is there; `KeysLast` and `Seen` carry the order of the files
over to the gateway that reads them.

**DeployGatewayProofs** — `DeployTypeCorrect`, `DeployedOneAtATime`,
`StatusIsHonestCorrect`, `HandlerRestoresCorrect`, `ArtifactIsKeptCorrect`,
`NothingDeployedIsLostCorrect`, `NeverLostCorrect`, `ReportIsHonestCorrect`, for
any number of invocations, workstations, signals and mishaps, and that a
deployment implements both parts it is composed of (`ImplementsPhoneInstall`,
`ImplementsMacSwap`), by which their theorems hold of it. Of the installers:
`LockIsOwn` says why a run without a signal comes to `cleanup()` once and still
holds the lock there; `SwapIsLast` why a run that gives up before the swap has
nothing to roll back; `Placed` where the two releases are at each command, which
with `ServesRoot` makes every status true. `HandlerRestores` has `InHand`: for
the holder of the lock that is not excused, `HostAt` says what each command
finds on the host and in the variables, in the handler as well as in the main
program, and `LeftAt` what it leaves when it comes to its end, while nobody else
works. `StatusIsHonestCorrect`, `HandlerRestoresCorrect` and
`NothingDeployedIsLostCorrect` assume `RollbackWorks`, which the run's `Noticed`
grants too. Of the Mac: `MacPhases` says for each command, whichever fail with
or without effect, under which name each container is and which of the two flags
is set. Of the invocations: `Covered` says that an installer that is not done
has the local lock over it, whether its invocation waits or was killed, so that
nobody else uploads or removes. From `NamesAssumption`, `FailingAssumption`,
`SignalsAssumption`, `PlacementsAssumption`, `MishapsAssumption` and
`MacAssumption`.

**ModelRuntimeProofs** — `TypeCorrect`, `EntriesExactCorrect`,
`NobodyStrandedCorrect`, `ControlIsHonestCorrect`, from `ModelsAssumption`,
`NamesAssumption` and `BoundsAssumption`, for any number of calls and attempts.
`Core` strengthens the first three with `Phases`: which kinds of calls reach
which await, and that whoever works owns its operation. `ControlIsHonest` needs
`Fresh`, which says why a status after a control is no older than the sending of
the control: it is sent right after a request for the loaded models settled, so the
one that confirms it, shared or not, was not yet served then.

`WaitsAreBounded` is the safety half of `Answered`, and what README.md:240 means by
bounded requests: `Remaining` counts, by the await a call is at (`Place`) and the
polls it has left, the steps until its answer. It is at most `Farthest`, no step
of anyone raises it, not even one that settles a request shared by several calls,
and every step of `Gateway` lowers it for some call.

**AdminLoginProofs** — `AttemptBoundCorrect`, `LockedOutForCauseCorrect`,
`MatchIsMembershipCorrect`, with `TypeCorrect` and `LoginInvariant`, for any
limit, window, number of logins, requests and networks, and for octets and groups
of any number and width, from `WidthsAssumption`, `RequestsAssumption`,
`ListsAssumption` and `LimitsAssumption`.

- *The count.* Neither property is inductive: the table forgets, and the bound
  is on failures that were counted in two entries, one of them gone. `WindowInv`
  says what the table still knows of each client: with no entry it did not fail
  at all; an expired entry leaves `Most` failures at the most and none of this
  instant; an open window counted exactly the failures younger than itself
  (`Younger` at its age), what is older was one window's, and what it counted
  *plus the logins let in and not yet decided* is at most `Most`, the limit less
  one and the number of logins. That sum is what a login keeps when it fails
  (one more counted, one fewer under way), and the test on arrival is what
  bounds it. `KeysMatch`, that each request is counted under its own client, is
  where the matching of addresses comes in.
- *The addresses.* `MatchIsBelonging`: a mask leaves what a division by the size
  of the network leaves (`V4Matches`; for prefix 0, where the shift cannot,
  because the code asks for it), and the first p bits of the string agree
  exactly when the numbers divided by the rest do (`PrefixIsLeading`, from
  `LeadingGrows`: one bit more doubles the quotient and adds the bit). `Expanded`
  and `ExpandedNumber` are the gap, of any length and at any place.
- *Induction.* What `Power2`, `Numbers` and `Younger` compute is proved for all
  arguments. The library's induction rules take an operator, which no prover
  here instantiates; `NatInduces` and `UpToInduces` are about a set instead, and
  follow from the well-foundedness of < on the naturals; `SomethingFollows` and
  `FollowersAgree` give a recursion its value.

That no connection comes from an address that is not plain is assumed: without
it the proof fails, and rightly (section 6).

**GatewayProofs** — `TypeCorrect`, `OneVersionCorrect`, `ReleasedCorrect`,
`ListIsRightCorrect`, from `ModelsAssumption`,
`AsksAssumption` and `GrantsAssumption`, for any number of requests. `Phases`
says what each await implies about connection, signals and answer; `Recorded`,
that what a list was promised is on record until the list has it, which
`RememberKeeps` shows of every write.

`TypeOK` of the relay, the pipeline, the setup and the login, and `DeployTypeOK` of
the deployments, are proved and not among what the runs check.

Only model-checked is liveness (`Terminates`, `Converges`, `SetUpInTheEnd`,
`Finishes`, both `Answered`, and the fairness of the contract in
`ImplementsContract`): that fairness makes an enabled step happen takes ENABLED,
which is beyond this prover. What the argument needs besides, a measure that the
steps lower and no step raises, is proved where the code loops or shares its
waits (`ResponseIsFinite`, `WaitsAreBounded`, `ChangesAreNoticed`); a request of
`Gateway` and a deployment go through their awaits and commands once, and
`SetUpInTheEnd` rests on the fairness of an operator who tries again. Every
safety property that a run expects to hold is proved.

## 6. Findings

1. *An edit of `keys.json` can be lost* (`keys_hot_reload`). An administrator's
   save writes the table in memory over the file, an edit the watcher has not
   yet seen included.
2. *A signal during a rollback undoes it* (`phone_signal`). `swapped` stays 1,
   so the handler rolls back again: it moves the restored application away and
   finds no backup.
3. *A run that a signal ends removes the lock twice* (`phone_mutex`). The handler
   cleans up and exits, and the trap on `EXIT` cleans up again; a run that took
   the lock in between works on without it.
4. *A stop that worked may be reported as failed* (`runtime_stale_stop`). The
   check after the unload joins the request for the loaded models that another
   check sent before it.

Assumed rather than checked, because no document promises otherwise: a reload
that fails is not tried again before the next change (`"read"`), a change before
the watcher's first poll is not noticed (`"startup"`), a file whose list of keys
breaks off leaves the keys before the break, and a signal before the traps are set
leaves the lock.

The proof about addresses met a limit of another kind: the prefix `::ffff:` is
taken off any IPv6 address that begins with it (`trustedProxy.ts:48`), although
the comment above that line speaks of mapped IPv4 addresses only. What is left of
one without a dotted address, such as `::ffff:0:a00:1`, is found in no network it
lies in, and a proxy there would not be trusted. `PlainAddresses` leaves these
out.

## 7. Not modelled, and why

- *Parsing and formatting*: the request parser, the validator of responses that
  are not streamed, error bodies, headers and the log have no state. What an SSE
  event looks like is abstracted to its kind.
- *Catalog, CI and evidence scripts, docker preflight*: sequential and
  stateless checks of texts.
- *Admin UI*: a page in a browser; its races are noted in
  `docs/UI_AUDIT_FOLLOWUPS.md`.
- *Login and trusted proxies*: what a token is good for afterwards; networks and
  addresses that are not well formed, which the code does not check either.
- *Setup*: the wording of prompts and of the summary; the check that Ollama
  answers, which is part of `PullModel`; symbolic links and permissions.
- *Pipeline*: CORS and static pages; the settings of a key that are applied to a
  body, which no other step reads; the 500 that `new URL` would cause, since the
  configuration is checked at the start. A key with an empty list of models,
  which the administration refuses and only an edit by hand could bring.
- *Deployments*: the plan mode, which only reads; the checks of `applyMac` before
  the old container is stopped, and its transfer of the image, which change
  nothing that serves.
- *Key fields* other than id, secret and enabled flag; two gateways on one key
  file, which the code does not support.
- *Floating point* in the token buckets: the model's tokens are exact.
