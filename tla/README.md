# A verification project for vibesdk

TLA+ models of the parts of this repository (Cloudflare VibeSDK: a Worker with
Durable Objects, the tools inside its sandbox containers, a client SDK and a web
frontend) whose correctness depends on the order in which things happen, the TLC
configurations that check them, and TLAPS proofs about them. Paths are relative
to `src/`, the repository.

Contents: [inventory](#1-inventory) · [plan](#2-plan) ·
[Deployment](#3-deployment) · [ProcessMonitor](#4-processmonitor) ·
[SdkConnection](#5-sdkconnection) · [Vault](#6-vault) ·
[Generation](#7-generation) · [Inference](#8-inference) ·
[RateLimit](#9-ratelimit) · [runs](#10-runs) · [proofs](#11-proofs) ·
[what is not modelled](#12-what-is-not-modelled).

## 1. Inventory

A user describes an app; an *agent* (a Durable Object) writes its files with LLM
calls, deploys them into a *sandbox* (a container with a dev server), reads errors
back and goes on. Clients follow over a WebSocket.

```
 frontend / SDK  --WebSocket-->  agent (codingAgent, behaviors)  --> LLM, git (SQLite)
   |   ^ ticket (HTTP)              |  deployToSandbox              \-> vault (Durable Object)
   |                                v
   |                         DeploymentManager --> sandbox service --> container:
   |                                                                   cli-tools + ProcessMonitor
   +-- vault WebSocket --> UserSecretsStore (Durable Object)           + log file, SQLite of errors
```

| Component (source) | State | Operations | What is hard | What makes it correct | Status |
|---|---|---|---|---|---|
| Sandbox deployment (`worker/agents/services/implementations/DeploymentManager.ts`) | session id and instance id (persisted), client cache, health timer, `currentDeploymentPromise` | `deployToSandbox` with a retry loop, health ticks, static analysis, session reset | two nested timeouts that stop the waiting and not the work; callers that join; eviction of the object | one deployment at a time, everyone answered, client and instance of the current session | modelled, exceptions in section 12 |
| Process monitor (`container/process-monitor.ts`, `container/cli-tools.ts`) | state, restart count, timers, child process, port health | start, restart, stop, cleanup, health check, exit and error handlers | every log line is an await between a check of the state and its use; SIGTERM/SIGKILL escalation; overlapping health checks | one process, a state that tells the truth, no hang, no orphan | modelled, exceptions in section 12 |
| Sandbox log file and locks (`process-monitor.ts`) | file, lock file, in-process mutex, ring buffer | append, trim, clear | stale-lock takeover by two processes, rename under a writer | no appended line is lost or doubled | planned |
| Sandbox error storage (`container/storage.ts`) | SQLite | store, list, clear | none beyond SQLite's | – | not modelled |
| Sandbox service client (`worker/services/sandbox/sandboxSdkClient.ts`) | none of its own | calls to the container | external failures | its answers are the environment of Deployment | environment |
| Agent lifecycle (`worker/agents/core/behaviors/base.ts`, `codingAgent.ts`, `websocket.ts`, four tools) | generation and debug promises, pending user inputs, abort controller, analysis cache | generate, stop, resume, user messages, deep debug | a promise that is not cleared on one error path; one abort controller shared by several inferences; requests that come as a build ends | no request stranded, a stop that stops, every message handled | modelled with an abstract `build()`, exceptions in section 12 |
| `AgentCore.ts` | session status | process, terminate, recover | a status overwritten by a call that was still running | a terminated session stays terminated | not modelled: nothing exported uses it |
| Vault (`worker/services/secrets/UserSecretsStore.ts`, `SecretsClient.ts`, handlers in `codingAgent.ts`, `src/contexts/vault-context.tsx`) | session key in memory, waiters of unlock prompts, per-agent client, sockets of the tabs | open/close session, request secret, lock, expiry alarm | sockets that end late and in any order; clients replaced while somebody waits on them; unlock notification before the waiter is registered | a session ends with its socket, no waiter waits in vain | modelled, exceptions in section 12 |
| Rate limits (`worker/services/rate-limit/*`) | buckets in a Durable Object or in KV | increment, read, cleanup, reset | window rounding; cleanup; lost instances; read-modify-write on KV | accepts and rejects as a rolling window does, up to a bucket | the Durable Object store modelled; KV left in the plan |
| SDK connection and session (`sdk/src/ws.ts`, `session.ts`) | socket, queue, reconnect timer, session state | connect, send, close, reconnect | tickets fetched asynchronously, events of old sockets, a bounded queue, listeners that send | one attempt at a time, credentials first, messages in order | modelled, exceptions in section 12 |
| WebSocket tickets (`worker/utils/wsTicketManager.ts`) | map in memory | create, consume | expiry | a ticket serves once | a ticket request in SdkConnection succeeds or fails |
| Git storage and file manager | SQLite, map of files | commit, read | few | – | not modelled |
| Inference and tools (`worker/agents/inferutils/*`, `tools/resources.ts`) | attempt, depth and messages of a chain; tool calls of a response | request, retry, recurse, execute tools, abort | parallel groups; a rejected `Promise.all` that leaves its tools running; an abort against retries | interfering tools never overlap, every call answered, an abort ends it | modelled, exceptions in section 12 |
| Authentication, the rest of the frontend, scripts | – | – | external services, data handling, React state | – | not modelled (section 12) |

How they interact: the agent calls `DeploymentManager` (several operations at
once); its health timer calls back into it; the sandbox service starts
`cli-tools` inside the container, which owns a `ProcessMonitor`; a client reaches
the agent over the connection that `ws.ts` keeps up; the agent asks the vault for
secrets and waits for the browser to unlock it. The components share no memory,
so each gets a module of its own, and what one sees of another is an action of
its environment (an answer that may not come, a process that may exit).

`PROJECT.json` lists the hazards, each at its line, with the properties for it. Where
the code does go wrong and a property holds only with that case excepted (a history
variable names it: `late`, `disturbed`, `misled`, `missed`, `cut`), the hazard's note and
the section of the module say so.

## 2. Plan

The order is the importance of the behaviour for a user: an app that is never
deployed, a dev server that hangs or is orphaned, a client that loses messages.

1. **Deployment** with **SingleFlight**, the abstract specification of what
   `deployToSandbox` promises its callers. *Done; types and all its safety
   properties but the finding proved, the refinement and the liveness too.*
2. **ProcessMonitor**. *Done; all its safety invariants but the two findings proved, and
   its liveness.*
3. **SdkConnection**. *Done; all its safety invariants but the finding proved.*
4. **Vault**. *Done; both safety properties and the liveness proved.*
5. **Generation**. *Done; both safety properties and the liveness proved.* Left out: the static
   analysis cache, whose property is about the order of file changes and analyses
   inside `build()`.
6. **Inference** with **Resources** (the declared accesses and the conflict rule)
   and **ToolSchedule**, the abstract specification of which tool calls may run
   side by side. *Done; safety and refinement proved.*
7. **RateLimit** with **SlidingWindow**, the abstract specification of a rolling
   window, and **SumTheorems**, facts about sums over finite sets. *Done; the cleanup's
   invariant and the refinement proved.* Left: the KV store against the same
   specification with interleaved requests.
8. **LogFile**: two writers, the trimmer and the stale-lock rule of `FileLock`.
   *Left.* To check: mutual exclusion and no lost line; where it fails, a finding.

## 3. Deployment

`DeploymentManager` runs in a Durable Object: one thread, so a step of the model
runs from one await to the next. What interleaves is *callers* (operations and
health ticks that wait in `deployToSandbox`), *loops* (executions of
`executeDeploymentWithRetry`) and *jobs* (executions of `deploy()`). `withTimeout`
only races a promise against a timer, so a loop outlives its caller and a job
outlives its attempt; both stay in the model when nobody waits for them.

| Model | Code |
|---|---|
| `mgr.session`, `.instance` | `state.sessionId`, `state.sandboxInstanceId`, persisted |
| `mgr.client` | `cachedSandboxClient`, by the session it was made for |
| `mgr.interval` | `healthCheckInterval`, by the instance it watches |
| `promise`, `waits`, `role` | `currentDeploymentPromise`; which loop's promise a caller awaits, as owner or joined |
| `loop[l]` | stage, `attempt` modulo 3 (only `attempt % 3` is read), `redeploy`, first attempt or not |
| `job[j]` | the await `deploy()` is in, who waits for it, client, instance, `redeployed` |
| `mgr.home`, `job[j].late`, `deployed`, `disturbed` | history: the session of the instance; a `deploy()` that created its instance after its attempt had timed out; a success since the start; something outlived its timeout, or a health check answered into a deployment |

`Call`, `HealthTick`, `TickHealthy`, `TickUnhealthy`, `MasterTimeout` are the
callers; `StatusHealthy/Unhealthy`, `TokenReady`, `InstanceCreated`,
`JobSucceeds`, `JobFails`, `AbandonedEnds` follow `deploy()` through its awaits;
`AttemptTimeout`, `SetupDone`, `SetupFails`, `BackoffDone` the loop; `Restart` is
the eviction of the Durable Object, which keeps only persisted state.

Properties. `SingleOwner`, `NoOneWaitsOnTheDead` and `ImplementsSingleFlight` say
that callers see one deployment at a time although loops run on behind their
backs. `ClientTracksSession` says that the client cache never outlives a session
reset. `MeetingsExplained` says when two executions of `deploy()` work in one sandbox:
nothing in the code forbids it, but it takes an abandoned one that created the sandbox
after its attempt had timed out (its late answer becomes the agent's instance, which
the next attempt finds healthy), or an older loop that runs on without its owner. A
sandbox that an attempt already had when it timed out is never found again.
`InstanceOfSession` and `SteadyState` say that instance,
session and health timer agree once a deployment has succeeded, as long as nothing
outlived a timeout. `EveryCallAnswered` and `PromiseReleased` are the liveness of
the callers.

Why `disturbed`: when a deployment outlives its timeout, its late answer is stored
in whatever state it finds (finding `SessionOwnsInstance`), and a health tick that
answers *unhealthy* while another deployment is in its setup clears the timer that
this deployment has just started, so that the new instance is left unwatched. The
properties state what holds without those.

Bounds: two callers, two loops, two jobs; a session reset every second failure
instead of every third (every third in `deployment_session`). The ids are bounded
by what can refer to them: at most four variables refer to an instance and at
most four to a session other than the new one (a client is fixed in the create
stage only), so with five of each (four with one job) the guards `Unused... # {}`
never block and a new id is really new (for sessions `SessionIdsSuffice` proves it). `VIEW UpToIds` replaces ids by what can be
told apart: absent, current, past. That is sound because ids are compared for
equality only, a past id never becomes current again, and no action or property
compares two past ids. The symmetry sets permute callers, loops and jobs, which no
action distinguishes; the liveness run uses no symmetry.

Fairness (`FairSpec`): the three timers fire (master timeout, attempt timeout,
backoff). Nothing is assumed of the sandbox service, which may never answer:
every caller's wait is bounded by the first of them, every attempt by the second.

Where comments and docs say otherwise, without a run: `docs/llm.md:3832` says an
unhealthy instance resets the session id (it does not: the next attempt creates a
new instance in the same session); `docs/llm.md:3934` says a timeout does (only
every third failure); `DeploymentManager.ts:335` reports "all retries exhausted"
although the loop still runs.

## 4. ProcessMonitor

`ProcessMonitor` with its caller `ProcessRunner`: the monitor is started once, and
the first signal stops it, cleans up (which stops it again) and exits. A step runs
from one await to the next; most awaits are log lines.

| Model | Code |
|---|---|
| `mon.state`, `.restarts`, `.timer`, `.ticking` | `state`, `restartCount`, `restartTimer`, `healthCheckTimer` |
| `mon.startup` | where `start()` is: called by the timer callback, at its first log line (*starting*), or at the log line about a stable run before `spawn()` (*stable*) |
| `mon.shutdown`, `.pass` | the await the shutdown is in; `stop()` called by `stop` or by `cleanup` |
| `child` | the process: alive, sent SIGTERM, sent SIGKILL, gone |
| `health`, `check[k]` | port health fields; health checks in flight (they may overlap, the interval does not wait) |
| `orphaned`, `raced`, `health.misled` | history: a live process was replaced; a restart was in flight at the shutdown; a check set `healthRestartInProgress` at the *stable* log line, after `start()` had cleared it |

`Shutdown`, `StopLogged`, `StopCancelled`, `StopKillTimeout`, `StopFinished`,
`Exit` follow the shutdown; `RestartTimerFires`, `Resume`, `StartLogged`, `StableLogged`,
`Started` a start (`StartLogged` clears the health tracking and, unless the last run
was stable and that is logged first, spawns); `ChildExits`, `FatalError`, `ErrorEvent` the child; `CheckBegins` to
`HealthKillTimeout` a health check.

Abstractions: a signal before the handlers are installed kills the program and is
left out; ESRCH on a signal coincides with the exit event; consecutive log awaits
between which nothing is read are one, and so are the two log lines of a successful
probe (of its answer, and of the failures it forgets); a run may be found stable
whenever there has been one; a port is expected; the lifecycle events sent to the CLI are left out, apart
from the success it waits for.

Properties. `OneRestart` and `NothingOrphaned`: a restart follows the exit of what
it replaces. `RunningIsLive`, `StoppedIsDead`, `HealthFlagIsHonest`: the state says
the truth at every await, with health checks that kill and a stop that escalates.
`HealthFlagIsHonest` has one exception, `misled`, described below.
`ShutdownKills`: nothing survives a shutdown unless a restart was in flight when
it came; `ShutdownAlwaysKills` says it without the exception, and the code
violates it. `ShutdownEnds`, `RestartHappens`, `HungProcessEnds`: nothing waits
forever, not even for a process that ignores SIGTERM.

Bounds: two overlapping health checks, two restarts, failure threshold 2 (the
code's). The two violation runs use one check. `CHECK_DEADLOCK FALSE` because the
program exits.

Fairness: log writes return and timers fire (`StopStep`, `StartStep`, the two
steps of a health check that kills), and SIGKILL ends a process. Nothing is
assumed of a process that has only been sent SIGTERM, nor of the port.

What the code does, met while modelling: `start()` clears `healthRestartInProgress`
(`process-monitor.ts:411`) and then, after a run of more than five minutes, awaits a
log line (419) before it spawns. A health check of the last process that comes back
from its own log line there (1163-1167) sets the flag again, finds nobody to kill, and
the new process runs with the flag set: if it hangs, no health check restarts it until
its port has answered once.

## 5. SdkConnection

A `BuildSession` and the connections it creates. `close()` drops a connection and
`connect()` makes the next; the timers, ticket requests and sockets of the old one
go on, and its listeners still refer to the session.

| Model | Code |
|---|---|
| `session` | `this.connection`, `state.connection` |
| `conn[c]` | `closedByUser`, `isOpen`, `ws`, `reconnectAttempts`, `reconnectTimer`, pending calls of `getUrl`, `pendingSends` of one `createAgentConnection` |
| `sock[s]` | a WebSocket until its close event; the kind of the first frame it carried |
| `next`, `handed` | the program's messages, numbered; those handed to an open socket |
| `echo` | history: a dropped connection has called a listener |

`Connect`, `Send`, `Close` are the API; `TimerFires`, `UrlArrives`, `UrlFails` are
`connectNow`; `Opens`, `ServerCloses`, `SocketEnds`, `SocketFails` the events.
`session_init` and `get_conversation_state`, which the open listener sends
together, are one frame, the greeting. The listener greets on the *session's*
connection, which the model keeps: it may be a later one than the one that opened.

Properties. `OneAttempt`: no two timers, requests or sockets of a connection side
by side. `NeverStranded`, `QueueSettles`: a session keeps trying until its retries
are used up (they are unlimited by default), and a queue is sent, dropped by
`close()` or left only then. `CredentialsFirst`: the first frame on every socket
is the greeting, also with a full queue. `InOrder`: nothing overtakes, nothing is
sent twice. `OpenIsHonest`: `isOpen` and `ws` agree with the socket. `ShownIsTrue`:
the shown state is the real one until a dropped connection's listener is called.
`CloseIsFinal`: a closed session has no open socket, which the code violates when
`close()` comes while a ticket is fetched.

Assumption on the runtime: the error event of an open socket comes in the same
task as its close event (WHATWG); a socket that never opened may fire an error
alone. A runtime that delayed the close event beyond the backoff could give a
connection two sockets.

Bounds: two connections (the current one and a dropped one), three sockets (each
connection refers to at most one dead socket while it has one live, so a free
socket always exists for the one that needs it), two retries, a queue of two and
three messages, so that the queue overflows. Sending to an agent and reconnecting
share no state beyond this, so more of either repeats the same cases.

Fairness: timers fire; ticket requests and handshakes end one way or the other
(`fetch` rejects when its connection is lost, and a WebSocket that cannot open
fires an error: the code has no timeout of its own for either and relies on the
runtime's); a closing socket fires its close event. A socket that is open may stay
open forever, and the program need not send.

## 6. Vault

A user's secrets are encrypted with a key that only the browser has. Unlocking
opens a WebSocket to `UserSecretsStore`, which keeps a session in memory; an agent
that needs a secret asks the store, and when it is locked prompts the user and
waits. Three parties, each with its own idea of whether the vault is open.

| Model | Code |
|---|---|
| `session`, `stale` | `UserSecretsStore.session`, by the socket whose `vault_session_init` opened it; not used for `SESSION_TIMEOUT_MS` |
| `sock[s]` | a vault WebSocket, with the messages the store has still to handle and `vault_session_ready` under way |
| `tab[t]` | `status`, `vaultWsRef` and the unlock under way of a `VaultProvider` |
| `chat[t]`, `leaving` | `vault_unlocked`/`vault_locked` and close events under way to the agent |
| `current`, `unlock` | the agent's `secretsClient`; clients with a pending `unlockPromise` and its timer |
| `getter[g]` | a call of `getDecryptedSecret` |

`Handle`, `TabUses`, `Expire`, `Forget` are the store; `Unlock` to
`ChatReconnects` a tab; `ChatArrives`, `ChatCloses` the agent's handlers; `Get`,
`StoreAnswers`, `RequestUnlock`, `Retry`, `RpcFails`, `UnlockTimesOut` the client.
`StoreAnswers` and `RequestUnlock` are two steps, since an unlock may be notified
between the answer *vault_locked* and the promise. The values of secrets, a
missing secret and a failed decryption are the same answer to the waiting.

Properties. `SessionHasSocket`: a session never outlives the socket that opened
it, except until the store has handled that socket's end, although the code keeps
no relation between them. `WaitersPrompted`: who waits, waits on a pending promise
with its timer, also on a client that the agent has replaced since, and no promise
is left pending that nobody awaits. `EveryGetEnds`: every request for a secret
returns, by the timer if by nothing else.

Bounds: one tab that opens two sockets (the second while the first is still
closing, or after it was dropped, is what the code must tell apart; a socket in use
by the store or a tab is never reused), two clients (the current one and a replaced
one), two requests, one message of the tab to the agent in flight. No deadlock: a tab
can always reload.

Fairness: RPCs are answered and timers fire. Nothing is assumed of users, sockets
or messages.

What the code does, met while modelling: an unlock between the store's answer and
the promise is lost and the request waits for the next one or its 120 s
(`SecretsClient.ts:98`); an expired session answers `session_expired`, for which
the client does not prompt (`SecretsClient.ts:55`); `vault_session_ready` after the
tab's 10 s opens the session while the tab shows a locked vault
(`vault-context.tsx:153`); a second unlock leaves the first socket open, whose end
later closes the second's session (`UserSecretsStore.ts:96`).

## 7. Generation

An agent is one Durable Object; its handlers are async functions that share its
fields. `build()` is abstract: the behaviors that `codingAgent.ts` refers to
(phasic, agentic) are not in the repository in the form it imports, so the model
lets it fetch requests, infer, mark the product done, and return with no request
left or throw.

| Model | Code |
|---|---|
| `gen` | `generationPromise` (none, or set), by the await of `buildWrapper`; *stuck*: rejected and never cleared |
| `loaded`, `mvp` | `templateDetailsCache`, `state.mvpGenerated` |
| `pending` | length of `state.pendingUserInputs` |
| `should`, `asked` | `state.shouldBeGenerating`; the `finally()` of generate_all |
| `message[m]`, `debugged` | a user message's conversation and the tool it waits in; `callCount` of deep_debug |
| `current`, `signal[h]` | `currentAbortController`; the signal each inference holds |
| `cut`, `missed` | history: inferences whose controller a generation's end forgot; requests no build looks for |

`TemplateReady` to `Closed` are `buildWrapper`; `GenerateAll`, `Resume`, `Stop`
the WebSocket requests; `MessageArrives` to `MessageFails` a message with its
tools; `Evict` the loss of everything not in the persisted state.

Properties. `RequestsServed`: an idle agent has no queued request, except one
`missed`, which names the ways: queued while the promise was being cleared
(`base.ts:455-462`), or after a failure of template, build, conversation or object.
`StopReaches`: `stop_generation` aborts every inference under way; the exceptions
are those under which a generation's `finally` cleared the shared controller
(`base.ts:453`). `EveryMessageEnds`: every message is handled although its tools
wait for generations and debug sessions that others keep starting.

Bounds: two messages, two pending requests. One more message only repeats what the
second does (waiting, debugging, starting); `pending` is compared with zero only.

Fairness: template fetch and database update end; `build()` ends (at most
`MAX_PHASES` phases, `core/state.ts:30`); a debug session and a conversation end
(tool call depth, `constants.ts:124-136`). A conversation's end is strongly fair,
because it may be waiting in a tool again and again, at most its depth times.

What the code does, met while modelling: a template that cannot be fetched leaves
`generationPromise` rejected and set, and the agent never generates again until it
is evicted (`base.ts:441`); a stop between two inferences finds no controller and
only clears a flag; nothing clears `shouldBeGenerating` after a resume; a
deep_debug refused because of a generation has used up the one call of its turn, although
its answer says to wait and retry (`deep-debugger.ts:40-48`); deep_debug
checks for a generation at its start only, and one may start beside it; when
`executeDeepDebug` fails before its first await, `deepDebugPromise` is set after it
was cleared (`base.ts:526`) and left so until somebody waits for it.

## 8. Inference

`executeInference` tries `infer` up to `retryLimit` times; `infer` asks the LLM,
runs the tool calls of the response and calls itself with their results. The tools
of one response run in parallel groups computed from what they declare to access.

| Model | Code |
|---|---|
| `req` | where the chain is; `attempt`, `depth`; tool calls and results in its messages; whether a schema is wanted |
| `aborted` | the abort signal |
| `batch`, `started`, `ended`, `useful` | tool calls of the response and `executeToolCallsWithDependencies` |
| `orphans` | tools still running after `Promise.all` rejected |
| `late` | history: responses with tool calls since the abort |

`RateLimited` to `AnswerObject` are the ways through a request; `StartGroup`,
`ToolEnds`, `ToolRejects`, `ToolAborts`, `ToolsDone` the tools; `Abort` is
`cancelCurrentInference`. **Resources** has `mergeResources` and
`hasResourceConflict` as operators on records; **ToolSchedule** says what the
groups are for: a call starts when every earlier call it *interferes* with is
over, interference being stated in what is written and read (a commit reads every
file, the sandbox is shared for reading only) and not by the code's rule.

Properties. `ImplementsSchedule`: the groups keep that promise. `ChainAnswered`:
every tool call in the messages that go to the LLM has its result there, although
results are dropped in three ways. `AbortBites`: after an abort at most one more
response has its tools run, whatever retries and recursion were left.
`OrphansAfterTheEnd`: abandoned tools never run beside a later step of their
inference. `InferenceEnds`: it ends, or waits for a tool that does not.

Bounds: responses of up to three calls of eight sorts (one of each the conflict
rule tells apart, an undefined tool, a completion tool), depth 2, two attempts.
Three calls give every shape of groups with a dependency; the counters are only
compared with their limits. `CHECK_DEADLOCK FALSE` because an inference ends.

Fairness: the steps of the inference itself, timers, and the LLM's client, which
has its own timeout. Nothing is assumed of tools.

What the code does, met while modelling: `common.ts:215-219` aborts the request's
controller and throws an error "to trigger retry logic in executeInference", whose
retry then uses the aborted signal and ends as cancelled; any error that speaks of
an abort counts as the user's (`core.ts:709`); an abort while a response streams
ends the stream quietly and the tool calls received are run; "Missing tool
definitions -> Warn and skip" (`toolExecution.ts:22`) rejects instead, with its
neighbours running; two calls with one id keep `toolExecution.ts:86` looping (the
model's calls have distinct ids); two commits are not exclusive
(`tools/resources.ts:92-98`); a retry runs the tools of the earlier attempt again;
the recursion drops `runtimeOverrides` (`core.ts:889-926`); an orphan may still run
when the next inference of the same agent starts.

## 9. RateLimit

`DORateLimitStore` counts the credits of one key in buckets. The buckets of a
window that began before it are counted whole, old buckets are deleted every five
minutes, and the object may be evicted between calls.

| Model | Code |
|---|---|
| `buckets` | `state.buckets`, by the start of the bucket |
| `lastCleanup`, `stored` | `state.lastCleanup`; a state is in storage |
| `now`, `answer`, `spent` | `Date.now()`; the last result; history: credits accepted at each time |

`Accept` and `Reject` are `increment` with its cleanup, `ResetLimit` `resetLimit`,
`Restart` an eviction with `ensureInitialized`. **SlidingWindow** has no buckets:
it accepts when every window that ends now has credit left, and rejects when some
window, seen `Slack` longer, has none; the implementation has
`Slack = BucketSize - 1`.

`ImplementsSlidingWindow` is that refinement: rounding, cleanup (by the time of a
bucket's *last* credit) and lost instances never make it accept too much or reject
for credits older than window and bucket. As in the code, a request that costs more
than what is left is accepted as long as something is left.

Credits are natural numbers. The costs of LLM calls are fractions (`creditCost` in
`worker/agents/inferutils/config.types.ts`, from 0.36 to 20): limits and costs counted
in hundredths are natural numbers, and every comparison is the same. What this leaves
out is floating-point rounding of the summed buckets, which can decide a comparison
only when the sum is exactly at the limit.

Bounds: times 0 to 10, buckets of 2, a main window of 3 and a daily one of 6 with
limits 3 and 4, costs 0 and 2, a cleanup every 3: windows that are and are not
multiples of the bucket, and several cleanups in a run. The longest window of the model is
that of the limits in force; the code also counts an unused burst window's default,
which only keeps buckets longer. No fairness: nothing has to happen.

## 10. Runs

| Run | Question | Result |
|---|---|---|
| `deployment_safety` | Deployment's invariants, `MeetingsExplained`, refinement of SingleFlight | holds, about 643,000 states up to symmetry (which of two symmetric states is kept depends on the order of exploration) |
| `deployment_liveness` | is every caller answered by timers alone | holds, 107,520 states |
| `deployment_session` | does an instance always belong to the agent's session | violated: a late `createInstance` |
| `process_monitor` | ProcessMonitor's invariants and liveness | holds, 63,396 states |
| `process_exit` | does a shutdown always kill the dev server | violated: shutdown against a restart in flight |
| `process_health` | does a health kill always lead to a restart | violated: exit code 0 after SIGTERM |
| `sdk_connection` | SdkConnection's invariants and `QueueSettles` | holds, 89,688 states |
| `sdk_close` | is `close()` final | violated: `close()` during `getUrl()` |
| `vault` | Vault's invariants and `EveryGetEnds` | holds, 538,180 states |
| `generation` | Generation's invariants and `EveryMessageEnds` | holds, 68,478 states |
| `inference` | Inference's invariants, `InferenceEnds`, refinement of ToolSchedule | holds, 134,410 states |
| `rate_limit` | refinement of SlidingWindow | holds, 31,900 states |

Each passing property has a mutant in `PROJECT.json`: a change of one definition
that a plausible slip in the code would make, kept as an operator beside the
definition it changes and marked *Mutant*, under which TLC finds the property
violated.

## 11. Proofs

The proofs hold for all values of the constants that satisfy the ASSUMEs of the
modules: any number of callers, loops, jobs, checks, connections, sockets, tabs, clients,
messages and tool calls, any restart limit, queue limit, depth and number of retries,
any windows and bucket size. Checked by TLAPS (SMT, Zenon, PTL).

Fairness in the theorems about liveness. TLAPS does not reason about ENABLED, which
WF and SF are defined by. These theorems therefore assume, in place of `FairSpec`,
`Spec` and the same fairness with the states written out in which the action can be
taken: `[]<>~P \/ []<><<A>>_vars` for `WF_vars(A)`, `<>[]~P \/ ...` for `SF_vars(A)`.
The assumption is named and stands beside the theorem. TLC has confirmed on the
instances of section 10 that `FairSpec` implies each of them; that `P` implies
ENABLED A for all constants can be read off the guards but is not proved. Each of
these proofs is a chain of leads-to steps in propositional temporal logic, over
safety lemmas of the form *if P holds, it goes on to hold until A is taken or the
goal is reached*.

**DeploymentProofs.**
- `TypeCorrect`, `ClientIsCurrent` from `Typed == TypeOK /\ ClientTracksSession`,
  inductive as it stands once `Sound(m)` states it for the intermediate manager
  records the helpers pass on.
- `AtMostOneOwner`, `WaitersAreServed` from `Ownership`: a waiting caller waits on
  a busy loop, an owner waits on the current promise, and owners are unique. That
  an orphaned loop cannot clear a later promise is what makes it more than typing.
- `FlightImplemented`: `Spec => ImplementsSingleFlight`, step by step: a launch is
  `Open`, a join `Join`; a settled loop, a master timeout or an eviction is an
  `Answer` to a set of callers, and the rest stutters.
- `TwoWritersExplained`: the action property `MeetingsExplained`, from `Placements`: a
  `deploy()` has a sandbox only while it checks it or writes to it, an abandoned one has
  the agent's instance only if it was late (`Placed`), and those that loops await
  belong to different loops, each in its attempt. An attempt that fails or times out
  clears the agent's instance, so that the next one does not find it; a late answer is
  the one way back in.
- `InstanceIsTheSessions` and `TimerWatchesInstance`, from `Calm`, the invariant of
  a manager nothing has disturbed: only the promised loop runs and at most one
  `deploy()`, which that loop awaits (`OneAtWork`); what that `deploy()` is about to
  store, write to or put the timer on is the manager's session and instance
  (`JobFits`); a loop that runs setup commands has the timer on the instance and one
  that waits has no instance (`LoopFits`). `OneAtWork` is what an attempt timeout or
  an owner that gives up destroys, so the induction shows why `disturbed` is needed.
- `EveryoneIsAnswered` and `PromiseIsReleased`: a flight is early (its loop is in its
  first attempt) or late, the sixty seconds of the attempt make an early one late,
  and in a late one the five minutes of every caller can end. Both use
  `SessionIdsSuffice`: an attempt timeout may reset the session, which needs an id
  that nobody holds, and `EnoughSessions` (finitely many jobs, and more ids than
  jobs plus two, or ids without end) provides one, by counting who can hold one.

**ProcessMonitorProofs.** One inductive invariant, `Safe`: `TypeOK`;
`RestartFollowsExit` (while a restart is pending or under way, the last process is
gone and the state allows it); `Honest` (the four properties of the state);
`QuietShutdown` (what the shutdown has achieved at each of its awaits, unless a
restart raced); `KillHasTarget` (whoever waits for an exit waits for a process that
lives). The last two are needed because `stop()` writes *stopped* without looking at
the process. From it: `MonitorTypes`, `OneRestartAtATime`, `RestartsReplaceTheDead`,
`RunningMeansLive`, `StoppedMeansDead`, `HealthFlagStandsForAKill`,
`QuietShutdownKills`. For the health flag `Honest` also says that at the *stable* log line
the flag is set only by a check that came back there: the reset is one step before, and
only that await lies between it and the new process. `KilledProcessesRestart` is the part of the violated
`HealthKillRestarts` that holds: a process that had to be sent SIGKILL is started
again while restarts are left. Liveness: `ShutdownsEnd` counts the awaits ahead
(`AwaitsLeft`, nine at most), each of which every other step leaves alone;
`HungProcessesEnd` follows a health check through SIGTERM, its timeout and SIGKILL;
`RestartsHappen` follows the restart from its timer to *running*, and needs
`StoppingInShutdown` (only a shutdown makes the monitor *stopping*).

**SdkConnectionProofs.** One inductive invariant, `Safe`: `TypeOK`; `Lifecycle`
(only the session's connection has a queue or a timer); `Exclusive` (the attempts
of a connection exclude one another, said without cardinalities); `Retrying`
(without an attempt the retries are used up); `LastSocket` (a live socket of a connection is its `ws`, and an
open one of the session's has been greeted); `OwnSocket`; `Sent` (numbers below
`next`); and the properties themselves. `AttemptsCount` relates `Exclusive` to the
cardinality in `OneAttempt`. From it: `ConnectionTypes`, `OneAttemptAtATime`,
`SessionsAreNeverStranded`, `CredentialsComeFirst`, `MessagesStayInOrder`,
`OpenMeansOpen`, `SessionShowsTheTruth`. `CloseEndsTheConnection` is the part of the
violated `CloseIsFinal` that holds: when no `getUrl()` is in flight, `close()` leaves
nothing of the connection but close events, and nothing comes back.

**VaultProofs.** `VaultTypeOK`. `VaultWaitersPrompted`: `WaitersPrompted` is
inductive with the types; settling a promise takes exactly its waiters away
(`SettlePrompted`). `VaultSessionHasSocket` from `SocketInv`: a closed socket's
last undelivered message is its close, an open one has none (`Heard`), the socket
of an unlocked tab is its own and open, and a session's socket is open or closed
but never reused. The close being *last* is what makes the session survive no
socket. `EveryRequestReturns`: a call is asking, locked, waiting or retrying; RPCs
take it to the next of these, the timer of the promise it waits on (which
`WaitersPrompted` says it has) out of the wait, and nothing leads it back.

**GenerationProofs.** `GenerationTypeOK`. `GenerationStopReaches`: `StopReaches`
is inductive. `GenerationRequestsServed` from `Served`: a request is in the hands
of a build that has not ended or of a conversation that has not, or it was missed.
`GenerationWaitersAwaited`: whoever waits for a generation or a debug session waits
for one that goes on, and neither waits for a message, so that no wait is circular.
`EveryMessageIsHandled` rests on it; a conversation comes back from its waits again
and again, hence the strong fairness of its end.

**InferenceProofs.** About Resources alone, for any set of files and any accesses:
`ConflictSymmetric`; `ConflictIsInterference`, by which the code's rule covers
everything that interferes; `MergeKeepsConflicts`, by which a call with several
resources conflicts with all that one of them does, unless a read follows an
exclusive sandbox operation (of two the merge keeps the last). About the inference: `InferenceTypeOK` from `Shape`
(what the stage says about the batch and the depth); `InferenceChainAnswered`,
`InferenceAbortBites`, `InferenceOrphansAfterTheEnd` from `ChainInv` (calls and
results balance at every stage before the end; the batch received after an abort is
followed by no request). `InferenceImplementsSchedule` shows the refinement for
batches of any length: a group's calls depend only on started calls, all of which
are over when a group starts, and what does not depend does not interfere.
`InferencePlanHasNoCircle`: dependencies point to earlier calls only, so some
waiting call is always free and the fallback for circles is dead code.
`InferenceAlwaysCloser`: every step decreases a lexicographic measure of retries
left, depth left, stage and tools at work, whatever the LLM answers.

**RateLimitProofs.** `RateLimitTypeOK`, and `RateLimitCreditsKept`: a credit that a
window may still count is in a bucket that no cleanup removes, with `SpentBefore`
(credits are spent in the past). `RateLimitImplementsWindow`, from `CountsTrue`: the
count of a bucket is at most what was spent while it was filled, and at least what of
that the longest window still sees (a reset empties both, a cleanup removes only what
no window sees). Summed over the buckets of a window this puts the code's count
between the credits of the window and those of a window `Slack` longer, which is what
the abstract `Admit` and `Refuse` ask. `RateLimitNeverOverspends` bounds what a
window has accepted: less than its limit and one request of the dearest sort.

**SumTheorems.** The facts about `SumFunctionOnSet` on finite sets that this needs: it
is a natural number, grows with the summand and the set, adds up over disjoint parts.
The library's induction theorems have an operator parameter and its fold is defined by
CHOOSE of a recursive function, so the module first proves an induction over the
subsets of a finite set whose hypothesis is a *set* of good subsets
(`SubsetInduction`), with it that the function exists, and from there its equations.

Only model-checked: the step from the WF and SF of `FairSpec` to the fairness the
theorems assume (ENABLED, see above); `InferenceEnds` and `QueueSettles`, whose proofs
would need a temporal induction over an unbounded number of retries
(`InferenceAlwaysCloser` is the safety half of the first, `SessionsAreNeverStranded` of
the second). The four violated properties of section 10 have no theorem, but for
two of them one says where they hold.

## 12. What is not modelled

- Of Deployment: callbacks that throw, the files a joiner asked to deploy (they are
  dropped by the code), `deployToCloudflare` beyond its use of the client, the
  choice of files.
- Of ProcessMonitor: error parsing, the log file, the other CLI commands.
- Of the SDK: applying messages to the workspace and session state, `waitFor`, the
  HTTP client, programs that send from their own listeners or keep the connection
  object after `close()`, the error event of an overflowing queue.
- Of the vault: the secrets and their encryption, setting up and recovering a
  vault, several agents of one user (each has its own client and sees the store
  only through its answers).
- Of the agent: what `build()` does, conversation contents (two overlapping
  messages lose one of their conversations, `base.ts:1640-1686`), the static
  analysis cache, images, deployments (Deployment), exports.
- Of the inference: stream assembly, schema formats, the choice of models, loop
  warnings, what the tools do.
- Of rate limiting: `getRemainingLimit`, which only reads; the KV store, which no
  default setting uses (`config.ts:61-87`; it loses concurrent increments and
  passes the increment as the number of retries, `KVRateLimitStore.ts:64`); the
  service that fails open on errors.
- The log file and its locks: section 2.
- `AgentCore.ts`, which nothing exported uses (its `terminateSession` does not stop
  `processSession`, which overwrites the status, line 189).
- Authentication (independent queries behind request handlers), the frontend (React
  state; its connection logic is close to the SDK's), the sandbox service client
  (the environment of Deployment), scripts and debug tools: no protocol that a model
  checker would tell more about than a test.
