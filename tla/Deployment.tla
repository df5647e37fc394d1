------------------------------ MODULE Deployment ------------------------------
(***************************************************************************)
(* worker/agents/services/implementations/DeploymentManager.ts: the        *)
(* sandbox deployment of one agent.  The code is single threaded, so a     *)
(* step runs from one await to the next; what interleaves is               *)
(*                                                                         *)
(*   - callers: agent operations and health-check ticks that call          *)
(*     deployToSandbox and share currentDeploymentPromise;                 *)
(*   - loops: executions of executeDeploymentWithRetry.  The master        *)
(*     timeout only stops a caller waiting, so a loop may outlive it;      *)
(*   - jobs: executions of deploy().  The attempt timeout only stops the   *)
(*     loop waiting, so a job may outlive its attempt.                     *)
(*                                                                         *)
(* Session and instance ids are compared for equality only and every new   *)
(* one is unique: a new id is one no variable refers to.                   *)
(***************************************************************************)
EXTENDS Naturals

CONSTANTS
  Callers,      \* concurrent activations that may call the manager
  Loops,        \* concurrent retry loops (bound)
  Jobs,         \* concurrent deploy() executions (bound)
  Sessions,     \* session ids
  Instances,    \* run ids the sandbox service gives to instances
  ResetEvery,   \* maxAttemptsBeforeSessionReset, 3 in the code
  UsesAiProxy,  \* the template needs an AI proxy token before createInstance
  None

ASSUME DeploymentAssumption ==
  /\ ResetEvery \in Nat \ {0}
  /\ UsesAiProxy \in BOOLEAN
  /\ Sessions # {}
  /\ None \notin Callers \cup Loops \cup Jobs \cup Sessions \cup Instances

VARIABLES
  mgr,       \* session and instance (persisted agent state), client and
             \* interval (fields of the manager): see Manager
  promise,   \* currentDeploymentPromise: the loop it belongs to, or None
  role,      \* what a caller is doing
  waits,     \* the loop whose promise a caller awaits, or None
  loop,      \* the retry loops
  job,       \* the deploy() executions
  deployed,  \* history: a deployment has succeeded since the last start
  disturbed  \* history: something outlived its timeout, see Undisturbed

vars == <<mgr, promise, role, waits, loop, job, deployed, disturbed>>

-------------------------------------------------------------------------------
(* Types *)

Manager == [session  : Sessions,
            instance : Instances \cup {None},  \* state.sandboxInstanceId
            home     : Sessions \cup {None},   \* history: its client's session
            client   : Sessions \cup {None},   \* cachedSandboxClient
            interval : Instances \cup {None}]  \* what the health timer watches

Roles == {"idle", "checking", "owner", "joined"}

RetryLoop == [stage : {"done", "attempt", "setup", "backoff"},
              tries : 1..ResetEvery,    \* attempt, modulo ResetEvery
              redeploy : BOOLEAN,
              retried : BOOLEAN]        \* past its first attempt

Deploy == [stage  : {"free", "status", "token", "create", "write"},
           loop   : Loops \cup {None},     \* None: its attempt has timed out
           client : Sessions \cup {None},  \* client that runs createInstance
           inst   : Instances \cup {None},
           fresh  : BOOLEAN,               \* redeployed, in the code
           late   : BOOLEAN]               \* history: it created its instance
                                           \* after its attempt had timed out

TypeOK ==
  /\ mgr \in Manager
  /\ promise \in Loops \cup {None}
  /\ role \in [Callers -> Roles]
  /\ waits \in [Callers -> Loops \cup {None}]
  /\ loop \in [Loops -> RetryLoop]
  /\ job \in [Jobs -> Deploy]
  /\ deployed \in BOOLEAN
  /\ disturbed \in BOOLEAN

DoneLoop == [stage |-> "done", tries |-> 1, redeploy |-> FALSE, retried |-> FALSE]

FreeJob == [stage |-> "free", loop |-> None, client |-> None,
            inst |-> None, fresh |-> FALSE, late |-> FALSE]

Init ==
  /\ mgr = [session |-> CHOOSE s \in Sessions : TRUE, instance |-> None,
             home |-> None, client |-> None, interval |-> None]
  /\ promise = None
  /\ role = [c \in Callers |-> "idle"]
  /\ waits = [c \in Callers |-> None]
  /\ loop = [l \in Loops |-> DoneLoop]
  /\ job = [j \in Jobs |-> FreeJob]
  /\ deployed = FALSE
  /\ disturbed = FALSE

-------------------------------------------------------------------------------
(* Helpers *)

BusyLoops == {l \in Loops : loop[l].stage # "done"}

IdleLoops == Loops \ BusyLoops

FreeJobs == {j \in Jobs : job[j].stage = "free"}

\* A deploy() whose attempt has timed out.
Abandoned(j) == job[j].stage # "free" /\ job[j].loop = None

\* Loops whose owner has given up.
OlderLoops == BusyLoops \ {promise}

UnusedInstances ==
  Instances \ ({mgr.instance, mgr.interval} \cup {job[j].inst : j \in Jobs})

UnusedSessions ==
  Sessions \ ({mgr.session, mgr.home, mgr.client} \cup {job[j].client : j \in Jobs})

GetClient(m) ==
  IF m.client = None THEN [m EXCEPT !.client = m.session] ELSE m

\* Mutant: the cached client outlives its session.
ResetKeepingClient(m) ==
  [m EXCEPT !.session = CHOOSE s \in UnusedSessions : TRUE,
            !.instance = None,
            !.home = None]

\* Mutant: the instance outlives its session.
ResetKeepingInstance(m) ==
  [m EXCEPT !.session = CHOOSE s \in UnusedSessions : TRUE,
            !.client = None]

ResetSessionId(m) ==
  [m EXCEPT !.session = CHOOSE s \in UnusedSessions : TRUE,
            !.client = None,
            !.instance = None,
            !.home = None]

StartHealthCheckInterval(m, i) == [m EXCEPT !.interval = i]

ClearHealthCheckInterval(m) == [m EXCEPT !.interval = None]

\* Mutant: the failed attempt's instance is kept for the next one.
AfterFailureKeeping(m, tries, sessionError) ==
  IF sessionError \/ tries = ResetEvery THEN ResetSessionId(m) ELSE m

\* The catch block of the retry loop, up to the backoff.
AfterFailure(m, tries, sessionError) ==
  [IF sessionError \/ tries = ResetEvery THEN ResetSessionId(m) ELSE m
     EXCEPT !.instance = None, !.home = None]

\* Mutant: the attempt count does not start over.
NextTryUnwrapped(tries) == tries + 1

NextTry(tries) == (tries % ResetEvery) + 1

\* deploy() reaching createNewInstance: the client is looked up after the token.
CreateNewInstance(l, m) ==
  IF UsesAiProxy
  THEN [FreeJob EXCEPT !.stage = "token", !.loop = l, !.fresh = TRUE]
  ELSE [FreeJob EXCEPT !.stage = "create", !.loop = l, !.fresh = TRUE,
                       !.client = GetClient(m).client]

\* The synchronous start of deploy(): ensureInstance up to its first await.
EnsureInstance(l, m) ==
  IF m.instance # None
  THEN [FreeJob EXCEPT !.stage = "status", !.loop = l, !.inst = m.instance]
  ELSE CreateNewInstance(l, m)

\* One attempt of loop l begins; m is the manager as the loop finds it.
BeginAttempt(l, redeploy, tries, retried, m) ==
  LET start == GetClient(IF redeploy THEN ResetSessionId(m) ELSE m)
  IN /\ UnusedSessions # {}
     /\ mgr' = start
     /\ \E j \in FreeJobs : job' = [job EXCEPT ![j] = EnsureInstance(l, start)]
     /\ loop' = [loop EXCEPT ![l] = [stage |-> "attempt", tries |-> tries,
                                     redeploy |-> redeploy,
                                     retried |-> retried]]

\* Mutant: any loop that ends clears currentDeploymentPromise.
SettleClearing(l) ==
  /\ loop' = [loop EXCEPT ![l] = DoneLoop]
  /\ promise' = None
  /\ role' = [c \in Callers |-> IF waits[c] = l THEN "idle" ELSE role[c]]
  /\ waits' = [c \in Callers |-> IF waits[c] = l THEN None ELSE waits[c]]
  /\ deployed' = TRUE

\* Mutant: only the owner hears of the outcome.
SettleOwnerOnly(l) ==
  LET told == {c \in Callers : waits[c] = l /\ role[c] = "owner"}
  IN /\ loop' = [loop EXCEPT ![l] = DoneLoop]
     /\ promise' = IF promise = l THEN None ELSE promise
     /\ role' = [c \in Callers |-> IF c \in told THEN "idle" ELSE role[c]]
     /\ waits' = [c \in Callers |-> IF c \in told THEN None ELSE waits[c]]
     /\ deployed' = TRUE

\* Loop l's promise settles: everyone who awaits it is answered, and the owner,
\* if it is still there, clears currentDeploymentPromise (the finally block).
Settle(l) ==
  /\ loop' = [loop EXCEPT ![l] = DoneLoop]
  /\ promise' = IF promise = l THEN None ELSE promise
  /\ role' = [c \in Callers |-> IF waits[c] = l THEN "idle" ELSE role[c]]
  /\ waits' = [c \in Callers |-> IF waits[c] = l THEN None ELSE waits[c]]
  /\ deployed' = TRUE

\* Loop l's current attempt throws.
FailAttempt(l, sessionError) ==
  /\ UnusedSessions # {}
  /\ mgr' = AfterFailure(mgr, loop[l].tries, sessionError)
  /\ loop' = [loop EXCEPT ![l].stage = "backoff"]
  /\ UNCHANGED <<promise, role, waits, deployed>>

-------------------------------------------------------------------------------
(* Callers *)

\* deployToSandbox called while a deployment is in progress.
JoinDeployment(c, m) ==
  /\ promise # None
  /\ mgr' = m
  /\ role' = [role EXCEPT ![c] = "joined"]
  /\ waits' = [waits EXCEPT ![c] = promise]
  /\ UNCHANGED <<promise, loop, job>>

\* deployToSandbox called while none is: the caller owns the new promise.
LaunchDeployment(c, redeploy, m) ==
  /\ promise = None
  /\ \E l \in IdleLoops :
       /\ BeginAttempt(l, redeploy, 1, FALSE, m)
       /\ promise' = l
       /\ waits' = [waits EXCEPT ![c] = l]
  /\ role' = [role EXCEPT ![c] = "owner"]

DeployToSandbox(c, redeploy, m) ==
  /\ JoinDeployment(c, m) \/ LaunchDeployment(c, redeploy, m)
  /\ UNCHANGED deployed

\* An agent operation (generation, preview tool, template import, a preview found
\* expired by deployToCloudflare, ...) deploys.
Call(c) ==
  /\ role[c] = "idle"
  /\ \E redeploy \in BOOLEAN : DeployToSandbox(c, redeploy, mgr)
  /\ UNCHANGED disturbed

\* The health-check timer fires: the tick asks for the instance's status.
HealthTick(c) ==
  /\ mgr.interval # None
  /\ role[c] = "idle"
  /\ role' = [role EXCEPT ![c] = "checking"]
  /\ mgr' = GetClient(mgr)
  /\ UNCHANGED <<promise, waits, loop, job, deployed, disturbed>>

\* The instance is healthy, or asking failed (logged only).
TickHealthy(c) ==
  /\ role[c] = "checking"
  /\ role' = [role EXCEPT ![c] = "idle"]
  /\ UNCHANGED <<mgr, promise, waits, loop, job, deployed, disturbed>>

\* The answer stops whatever timer is armed now, not only the one that fired.
TickUnhealthy(c) ==
  /\ role[c] = "checking"
  /\ DeployToSandbox(c, FALSE, ClearHealthCheckInterval(mgr))
  /\ disturbed' = (disturbed \/ BusyLoops # {})

\* runStaticAnalysis, fetchRuntimeErrors and deployToCloudflare create the client
\* if there is none; the last may then deploy again, which is a Call.
InspectInstance ==
  /\ mgr.instance # None
  /\ mgr' = GetClient(mgr)
  /\ UNCHANGED <<promise, role, waits, loop, job, deployed, disturbed>>

\* An owner's five minutes are not over in its loop's first attempt, which has
\* sixty seconds; when a caller that joined gives up is left open.
TimesOut(c) ==
  /\ waits[c] # None
  /\ role[c] = "owner" =>
       loop[waits[c]].stage # "attempt" \/ loop[waits[c]].retried

\* Mutant: no finally block, the promise stays set.
MasterTimeoutHolding(c) ==
  /\ TimesOut(c)
  /\ role' = [role EXCEPT ![c] = "idle"]
  /\ waits' = [waits EXCEPT ![c] = None]
  /\ disturbed' = (disturbed \/ role[c] = "owner")
  /\ UNCHANGED <<mgr, promise, loop, job, deployed>>

\* Mutant: callers that joined wait without a timeout.
MasterTimeoutOwnerOnly(c) ==
  /\ TimesOut(c)
  /\ role[c] = "owner"
  /\ role' = [role EXCEPT ![c] = "idle"]
  /\ waits' = [waits EXCEPT ![c] = None]
  /\ promise' = None
  /\ disturbed' = TRUE
  /\ UNCHANGED <<mgr, loop, job, deployed>>

\* Five minutes are over: the caller gets null, the loop keeps running.
MasterTimeout(c) ==
  /\ TimesOut(c)
  /\ role' = [role EXCEPT ![c] = "idle"]
  /\ waits' = [waits EXCEPT ![c] = None]
  /\ promise' = IF role[c] = "owner" THEN None ELSE promise
  /\ disturbed' = (disturbed \/ role[c] = "owner")
  /\ UNCHANGED <<mgr, loop, job, deployed>>

-------------------------------------------------------------------------------
(* deploy() *)

\* The rest of deploy() once the instance is known; clients are looked up only
\* when there are files to write or logs to clear.
WriteStage(j, m, i) ==
  /\ \E work \in BOOLEAN : mgr' = IF work THEN GetClient(m) ELSE m
  /\ job' = [job EXCEPT ![j] = [@ EXCEPT !.stage = "write", !.client = None,
                                         !.inst = i,
                                         !.late = job[j].fresh /\ Abandoned(j)]]
  /\ UNCHANGED <<promise, role, waits, loop, deployed, disturbed>>

StatusHealthy(j) ==
  /\ job[j].stage = "status"
  /\ WriteStage(j, mgr, job[j].inst)

StatusUnhealthy(j) ==
  /\ job[j].stage = "status"
  /\ job' = [job EXCEPT ![j] = CreateNewInstance(job[j].loop, mgr)]
  /\ mgr' = IF UsesAiProxy THEN mgr ELSE GetClient(mgr)
  /\ UNCHANGED <<promise, role, waits, loop, deployed, disturbed>>

TokenReady(j) ==
  /\ job[j].stage = "token"
  /\ mgr' = GetClient(mgr)
  /\ job' = [job EXCEPT ![j].stage = "create",
                        ![j].client = GetClient(mgr).client]
  /\ UNCHANGED <<promise, role, waits, loop, deployed, disturbed>>

\* createInstance answers: the new instance becomes the agent's, whoever asked.
InstanceCreated(j) ==
  LET i == CHOOSE k \in UnusedInstances : TRUE
  IN /\ job[j].stage = "create"
     /\ UnusedInstances # {}
     /\ WriteStage(j, [mgr EXCEPT !.instance = i, !.home = job[j].client], i)

\* Mutant: a recreated instance does not restart the health timer.
MustWatchIfIdle(j) == mgr.interval = None

\* Whether a successful deploy() (re)starts the timer and runs setup commands.
MustWatch(j) == job[j].fresh \/ mgr.interval = None

\* deploy() returns to the attempt that awaits it.
JobSucceeds(j) ==
  LET l == job[j].loop
  IN /\ job[j].stage = "write"
     /\ l # None
     /\ job' = [job EXCEPT ![j] = FreeJob]
     /\ mgr' = IF MustWatch(j)
               THEN GetClient(StartHealthCheckInterval(mgr, job[j].inst))
               ELSE mgr
     /\ \/ Settle(l)
        \/ /\ MustWatch(j)   \* there are setup commands to run
           /\ loop' = [loop EXCEPT ![l].stage = "setup"]
           /\ UNCHANGED <<promise, role, waits, deployed>>
     /\ UNCHANGED disturbed

\* Any await of deploy() throws in the attempt that awaits it.
JobFails(j) ==
  /\ job[j].stage # "free"
  /\ job[j].loop # None
  /\ job' = [job EXCEPT ![j] = FreeJob]
  /\ \E sessionError \in BOOLEAN : FailAttempt(job[j].loop, sessionError)
  /\ UNCHANGED disturbed

\* deploy() ends after its attempt has timed out: nobody looks at the outcome.
AbandonedEnds(j) ==
  /\ job[j].stage # "free"
  /\ job[j].loop = None
  /\ job' = [job EXCEPT ![j] = FreeJob]
  /\ UNCHANGED <<mgr, promise, role, waits, loop, deployed, disturbed>>

-------------------------------------------------------------------------------
(* The retry loop *)

\* Sixty seconds are over: the attempt fails, its deploy() runs on.
AttemptTimeout(l) ==
  /\ loop[l].stage = "attempt"
  /\ job' = [j \in Jobs |->
               IF job[j].loop = l THEN [job[j] EXCEPT !.loop = None] ELSE job[j]]
  /\ FailAttempt(l, FALSE)
  /\ disturbed' = TRUE

SetupDone(l) ==
  /\ loop[l].stage = "setup"
  /\ Settle(l)
  /\ UNCHANGED <<mgr, job, disturbed>>

\* Setup commands, or the package.json sync after them, fail or time out.
SetupFails(l) ==
  /\ loop[l].stage = "setup"
  /\ \E sessionError \in BOOLEAN : FailAttempt(l, sessionError)
  /\ UNCHANGED <<job, disturbed>>

BackoffDone(l) ==
  /\ loop[l].stage = "backoff"
  /\ BeginAttempt(l, loop[l].redeploy, NextTry(loop[l].tries), TRUE, mgr)
  /\ UNCHANGED <<promise, role, waits, deployed, disturbed>>

\* The Durable Object is evicted or crashes; only the agent state persists.
Restart ==
  /\ mgr' = [mgr EXCEPT !.client = None, !.interval = None]
  /\ promise' = None
  /\ role' = [c \in Callers |-> "idle"]
  /\ waits' = [c \in Callers |-> None]
  /\ loop' = [l \in Loops |-> DoneLoop]
  /\ job' = [j \in Jobs |-> FreeJob]
  /\ deployed' = FALSE
  /\ UNCHANGED disturbed

-------------------------------------------------------------------------------

CallerStep(c) ==
  \/ Call(c) \/ HealthTick(c) \/ TickHealthy(c) \/ TickUnhealthy(c)
  \/ MasterTimeout(c)

JobStep(j) ==
  \/ StatusHealthy(j) \/ StatusUnhealthy(j) \/ TokenReady(j)
  \/ InstanceCreated(j) \/ JobSucceeds(j) \/ JobFails(j) \/ AbandonedEnds(j)

LoopStep(l) ==
  AttemptTimeout(l) \/ SetupDone(l) \/ SetupFails(l) \/ BackoffDone(l)

Next ==
  \/ \E c \in Callers : CallerStep(c)
  \/ \E j \in Jobs : JobStep(j)
  \/ \E l \in Loops : LoopStep(l)
  \/ InspectInstance
  \/ Restart

Spec == Init /\ [][Next]_vars

\* Timers fire; the sandbox service may never answer.
FairSpec ==
  /\ Spec
  /\ \A c \in Callers : WF_vars(MasterTimeout(c))
  /\ \A l \in Loops : WF_vars(AttemptTimeout(l)) /\ WF_vars(BackoffDone(l))

-------------------------------------------------------------------------------
(* Properties *)

\* The cached sandbox client is always the one of the current session: no call
\* goes out through a client of a session that was reset (resetSessionId drops
\* the cache, and every await may be followed by a new lookup).
ClientTracksSession == mgr.client \in {None, mgr.session}

\* Single flight: a caller that waits as the owner owns the current promise, so
\* there is at most one owner, and its finally block never clears a promise
\* that belongs to a later deployment - although old loops may still run.
SingleOwner ==
  /\ \A c \in Callers : role[c] = "owner" => waits[c] = promise
  /\ \A c, d \in Callers : role[c] = "owner" /\ role[d] = "owner" => c = d

\* Nobody waits on a loop that has ended: a waiting caller can still be answered
\* by the loop and not only by its own timeout.
NoOneWaitsOnTheDead ==
  \A c \in Callers : waits[c] # None => waits[c] \in BusyLoops

\* deploy() j comes to work in sandbox i, in this step.
Enters(j, i) == job[j].inst # i /\ i # None /\ job'[j].inst = i

\* What happens when two deploy() executions come to work in one sandbox.  Nothing
\* in the code keeps them apart, but there are two ways only to get there: the one
\* that was there first is left over from an attempt that timed out, and created
\* the sandbox after that - its late answer becomes the agent's instance, and the
\* next attempt finds it healthy - or an older loop, whose owner gave up, goes on
\* next to the promised one.  A sandbox that an attempt had when it timed out is
\* never found again.
MeetingsExplained ==
  [][\A j, k \in Jobs :
       j # k /\ Enters(k, job[j].inst)
       => IF Abandoned(j) THEN job[j].late ELSE OlderLoops # {}]_vars

\* Nothing outlived a timeout, and no health check answered into a deployment.
Undisturbed == ~disturbed

\* While undisturbed, the agent's instance belongs to the agent's session.
InstanceOfSession ==
  Undisturbed /\ mgr.instance # None => mgr.home = mgr.session

\* What the session reset is for: the agent's instance belongs to the agent's
\* session ("Ensures deployment goes to correct container", docs/llm.md).  The
\* code keeps it only while undisturbed: an abandoned createInstance stores the
\* instance of a session that has been reset.
SessionOwnsInstance == mgr.instance # None => mgr.home = mgr.session

\* While undisturbed, after a success and with no deployment running, the
\* health timer watches exactly the agent's instance.
SteadyState ==
  Undisturbed /\ deployed /\ BusyLoops = {} =>
    mgr.instance # None /\ mgr.interval = mgr.instance

FlightRole ==
  [c \in Callers |-> IF role[c] \in {"owner", "joined"} THEN role[c] ELSE "idle"]

Flight == INSTANCE SingleFlight WITH role <- FlightRole, flying <- (promise # None)

\* Deployment implements the abstract single flight: whatever loops do behind
\* the callers' backs, callers see one deployment at a time, join it, and are
\* answered with its owner or by their own timeout.
ImplementsSingleFlight == Flight!FlightSpec

\* Everyone who asks for a deployment is answered, even when the sandbox
\* service never is: the master timeout covers owner and joiners alike.
EveryCallAnswered == \A c \in Callers : waits[c] # None ~> waits[c] = None

\* currentDeploymentPromise is never stuck: later deployments can start.
PromiseReleased == promise # None ~> promise = None

===============================================================================
