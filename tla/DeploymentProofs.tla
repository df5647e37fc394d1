--------------------------- MODULE DeploymentProofs ---------------------------
(***************************************************************************)
(* Theorems about Deployment, for all callers, loops, jobs and ids.        *)
(***************************************************************************)
EXTENDS Deployment, FiniteSetTheorems, TLAPS

-------------------------------------------------------------------------------
(* What the manager's helpers return *)

\* getClient only ever fills in the client, with the current session's.
LEMMA GetClientFacts ==
  ASSUME NEW m \in Manager
  PROVE  /\ GetClient(m) \in Manager
         /\ GetClient(m).session = m.session
         /\ GetClient(m).instance = m.instance
         /\ GetClient(m).home = m.home
         /\ GetClient(m).interval = m.interval
         /\ GetClient(m).client \in Sessions
         /\ m.client \in {None, m.session} => GetClient(m).client = m.session
  BY DeploymentAssumption DEF GetClient, Manager

\* resetSessionId: a session never used before, no client, no instance.
LEMMA ResetFacts ==
  ASSUME NEW m \in Manager, UnusedSessions # {}
  PROVE  /\ ResetSessionId(m) \in Manager
         /\ ResetSessionId(m).client = None
         /\ ResetSessionId(m).instance = None
         /\ ResetSessionId(m).home = None
         /\ ResetSessionId(m).interval = m.interval
  <1>1. (CHOOSE s \in UnusedSessions : TRUE) \in UnusedSessions
    OBVIOUS
  <1>2. UnusedSessions \subseteq Sessions
    BY DEF UnusedSessions
  <1>3. QED
    BY <1>1, <1>2 DEF ResetSessionId, Manager

\* The catch block: the instance is forgotten whether or not the session is.
LEMMA AfterFailureFacts ==
  ASSUME NEW m \in Manager, NEW tries, NEW e, UnusedSessions # {}
  PROVE  /\ AfterFailure(m, tries, e) \in Manager
         /\ AfterFailure(m, tries, e).instance = None
         /\ AfterFailure(m, tries, e).home = None
         /\ AfterFailure(m, tries, e).interval = m.interval
         /\ \/ /\ AfterFailure(m, tries, e).client = m.client
               /\ AfterFailure(m, tries, e).session = m.session
            \/ AfterFailure(m, tries, e).client = None
  <1>1. CASE e \/ tries = ResetEvery
    BY <1>1, ResetFacts DEF AfterFailure, Manager
  <1>2. CASE ~(e \/ tries = ResetEvery)
    BY <1>2 DEF AfterFailure, Manager
  <1>3. QED
    BY <1>1, <1>2

\* The manager as an attempt starts with it: the client is the session's.
LEMMA StartFacts ==
  ASSUME NEW m \in Manager, NEW r \in BOOLEAN, UnusedSessions # {},
         m.client \in {None, m.session}
  PROVE  LET s == GetClient(IF r THEN ResetSessionId(m) ELSE m)
         IN /\ s \in Manager
            /\ s.client = s.session
            /\ s.interval = m.interval
            /\ r => s.instance = None /\ s.home = None
            /\ ~r => /\ s.session = m.session
                     /\ s.instance = m.instance /\ s.home = m.home
  <1>1. CASE r
    BY <1>1, ResetFacts, GetClientFacts
  <1>2. CASE ~r
    BY <1>2, GetClientFacts
  <1>3. QED
    BY <1>1, <1>2

\* A new deploy() belongs to the attempt that started it; it either checks the
\* agent's instance or goes on to create one with the session's client.
LEMMA EnsureInstanceFacts ==
  ASSUME NEW m \in Manager, NEW l \in Loops \cup {None}, TypeOK
  PROVE  /\ CreateNewInstance(l, m) \in Deploy
         /\ CreateNewInstance(l, m).stage \in {"token", "create"}
         /\ CreateNewInstance(l, m).loop = l
         /\ CreateNewInstance(l, m).inst = None
         /\ CreateNewInstance(l, m).stage = "create"
              => CreateNewInstance(l, m).client = GetClient(m).client
         /\ EnsureInstance(l, m) \in Deploy
         /\ EnsureInstance(l, m).loop = l
         /\ EnsureInstance(l, m).stage \in {"status", "token", "create"}
         /\ EnsureInstance(l, m).inst = m.instance
         /\ EnsureInstance(l, m).stage = "status" <=> m.instance # None
         /\ EnsureInstance(l, m).stage = "create"
              => EnsureInstance(l, m).client = GetClient(m).client
  <1> USE DEF FreeJob, Deploy
  <1>1. GetClient(m).client \in Sessions
    BY GetClientFacts
  <1>2. /\ CreateNewInstance(l, m) \in Deploy
        /\ CreateNewInstance(l, m).stage \in {"token", "create"}
        /\ CreateNewInstance(l, m).loop = l
        /\ CreateNewInstance(l, m).inst = None
        /\ CreateNewInstance(l, m).stage = "create"
              => CreateNewInstance(l, m).client = GetClient(m).client
    BY <1>1 DEF CreateNewInstance
  <1>3. CASE m.instance # None
    BY <1>2, <1>3 DEF EnsureInstance, Manager
  <1>4. CASE m.instance = None
    BY <1>2, <1>4 DEF EnsureInstance
  <1>5. QED
    BY <1>2, <1>3, <1>4

-------------------------------------------------------------------------------
(* Types, and the client of the current session *)

Typed == TypeOK /\ ClientTracksSession

\* A manager as Typed wants it.
Sound(m) == m \in Manager /\ m.client \in {None, m.session}

LEMMA SoundGetClient ==
  ASSUME NEW m, Sound(m)
  PROVE  Sound(GetClient(m))
  BY GetClientFacts DEF Sound

LEMMA SoundFailure ==
  ASSUME NEW m, Sound(m), NEW tries, NEW e, UnusedSessions # {}
  PROVE  Sound(AfterFailure(m, tries, e))
  <1>1. m \in Manager
    BY DEF Sound
  <1>2. QED
    BY <1>1, AfterFailureFacts DEF Sound

LEMMA NextTryType ==
  ASSUME NEW t \in 1..ResetEvery
  PROVE  NextTry(t) \in 1..ResetEvery
  BY DeploymentAssumption DEF NextTry

LEMMA BeginAttemptTyped ==
  ASSUME TypeOK, NEW l \in Loops, NEW r \in BOOLEAN, NEW t \in 1..ResetEvery,
         NEW again \in BOOLEAN, NEW m, Sound(m), BeginAttempt(l, r, t, again, m)
  PROVE  Sound(mgr') /\ job' \in [Jobs -> Deploy] /\ loop' \in [Loops -> RetryLoop]
  <1> DEFINE start == GetClient(IF r THEN ResetSessionId(m) ELSE m)
  <1>1. m \in Manager /\ m.client \in {None, m.session}
    BY DEF Sound
  <1>2. UnusedSessions # {} /\ mgr' = start
    BY DEF BeginAttempt
  <1>3. PICK j \in FreeJobs : job' = [job EXCEPT ![j] = EnsureInstance(l, start)]
    BY DEF BeginAttempt
  <1>4. start \in Manager /\ start.client = start.session
    BY <1>1, <1>2, StartFacts
  <1>5. Sound(mgr')
    BY <1>2, <1>4 DEF Sound
  <1>6. job' \in [Jobs -> Deploy]
    <2>1. EnsureInstance(l, start) \in Deploy
      BY <1>4, EnsureInstanceFacts
    <2>2. QED
      BY <1>3, <2>1 DEF TypeOK, FreeJobs
  <1>7. loop' \in [Loops -> RetryLoop]
    BY DEF BeginAttempt, TypeOK, RetryLoop
  <1>8. QED
    BY <1>5, <1>6, <1>7

LEMMA SettleTyped ==
  ASSUME TypeOK, NEW l \in Loops, Settle(l)
  PROVE  /\ promise' \in Loops \cup {None}
         /\ role' \in [Callers -> Roles]
         /\ waits' \in [Callers -> Loops \cup {None}]
         /\ loop' \in [Loops -> RetryLoop]
         /\ deployed' \in BOOLEAN
  BY DeploymentAssumption DEF TypeOK, Settle, Roles, RetryLoop, DoneLoop

LEMMA FailAttemptTyped ==
  ASSUME Typed, NEW l \in Loops, NEW e \in BOOLEAN, FailAttempt(l, e)
  PROVE  /\ Sound(mgr')
         /\ loop' \in [Loops -> RetryLoop]
         /\ UNCHANGED <<promise, role, waits, deployed>>
  <1>1. Sound(mgr)
    BY DEF Typed, TypeOK, ClientTracksSession, Sound
  <1>2. Sound(mgr')
    BY <1>1, SoundFailure DEF FailAttempt
  <1>3. loop' \in [Loops -> RetryLoop]
    BY DEF FailAttempt, Typed, TypeOK, RetryLoop
  <1>4. QED
    BY <1>2, <1>3 DEF FailAttempt

LEMMA WriteStageTyped ==
  ASSUME TypeOK, NEW j \in Jobs, NEW m, Sound(m), NEW i \in Instances \cup {None},
         WriteStage(j, m, i)
  PROVE  /\ Sound(mgr')
         /\ job' \in [Jobs -> Deploy]
         /\ UNCHANGED <<promise, role, waits, loop, deployed, disturbed>>
  <1>1. Sound(mgr')
    BY SoundGetClient DEF WriteStage
  <1>2. job' \in [Jobs -> Deploy]
    <2> DEFINE late == job[j].fresh /\ Abandoned(j)
    <2>1. late \in BOOLEAN
      OBVIOUS
    <2>2. job' = [job EXCEPT ![j] = [@ EXCEPT !.stage = "write", !.client = None,
                                             !.inst = i, !.late = late]]
      BY DEF WriteStage
    <2> HIDE DEF late
    <2>3. QED
      BY <2>1, <2>2 DEF TypeOK, Deploy
  <1>3. QED
    BY <1>1, <1>2 DEF WriteStage

LEMMA DeployTyped ==
  ASSUME TypeOK, NEW c \in Callers, NEW r \in BOOLEAN, NEW m, Sound(m),
         DeployToSandbox(c, r, m)
  PROVE  /\ Sound(mgr')
         /\ promise' \in Loops \cup {None}
         /\ role' \in [Callers -> Roles]
         /\ waits' \in [Callers -> Loops \cup {None}]
         /\ loop' \in [Loops -> RetryLoop]
         /\ job' \in [Jobs -> Deploy]
         /\ UNCHANGED deployed
  <1>1. CASE JoinDeployment(c, m)
    BY <1>1 DEF JoinDeployment, DeployToSandbox, TypeOK, Roles
  <1>2. CASE LaunchDeployment(c, r, m)
    <2>1. PICK l \in IdleLoops :
            /\ BeginAttempt(l, r, 1, FALSE, m)
            /\ promise' = l
            /\ waits' = [waits EXCEPT ![c] = l]
      BY <1>2 DEF LaunchDeployment
    <2>2. l \in Loops /\ 1 \in 1..ResetEvery
      BY DeploymentAssumption DEF IdleLoops
    <2>3. /\ Sound(mgr')
          /\ job' \in [Jobs -> Deploy]
          /\ loop' \in [Loops -> RetryLoop]
      BY <2>1, <2>2, BeginAttemptTyped
    <2>4. role' \in [Callers -> Roles]
      BY <1>2 DEF LaunchDeployment, TypeOK, Roles
    <2>5. QED
      BY <2>1, <2>2, <2>3, <2>4 DEF TypeOK, DeployToSandbox
  <1>3. QED
    BY <1>1, <1>2 DEF DeployToSandbox

LEMMA TypedCaller ==
  ASSUME Typed, NEW c \in Callers, CallerStep(c)
  PROVE  Typed'
  <1> USE DEF Typed, ClientTracksSession, Sound
  <1>1. Sound(mgr)
    BY DEF TypeOK
  <1>2. CASE Call(c)
    <2>1. PICK r \in BOOLEAN : DeployToSandbox(c, r, mgr)
      BY <1>2 DEF Call
    <2>2. QED
      BY <1>1, <1>2, <2>1, DeployTyped DEF TypeOK, Call
  <1>3. CASE HealthTick(c)
    <2>1. Sound(GetClient(mgr))
      BY <1>1, SoundGetClient
    <2>2. QED
      BY <1>3, <2>1 DEF HealthTick, TypeOK, Roles
  <1>4. CASE TickHealthy(c)
    BY <1>4 DEF TickHealthy, TypeOK, Roles
  <1>5. CASE TickUnhealthy(c)
    <2>1. Sound(ClearHealthCheckInterval(mgr))
      BY <1>1 DEF ClearHealthCheckInterval, Manager
    <2>2. DeployToSandbox(c, FALSE, ClearHealthCheckInterval(mgr))
      BY <1>5 DEF TickUnhealthy
    <2>3. QED
      BY <1>5, <2>1, <2>2, DeployTyped DEF TypeOK, TickUnhealthy
  <1>6. CASE MasterTimeout(c)
    BY <1>6 DEF MasterTimeout, TypeOK, Roles
  <1>7. QED
    BY <1>2, <1>3, <1>4, <1>5, <1>6 DEF CallerStep

LEMMA TypedJob ==
  ASSUME Typed, NEW j \in Jobs, JobStep(j)
  PROVE  Typed'
  <1> USE DEF Typed, ClientTracksSession
  <1>1. Sound(mgr) /\ Sound(GetClient(mgr)) /\ GetClient(mgr).client \in Sessions
    BY SoundGetClient, GetClientFacts DEF TypeOK, Sound
  <1>2. job[j] \in Deploy
    BY DEF TypeOK
  <1>3. CASE StatusHealthy(j)
    <2>1. WriteStage(j, mgr, job[j].inst)
      BY <1>3 DEF StatusHealthy
    <2>2. QED
      BY <1>1, <1>2, <2>1, WriteStageTyped DEF TypeOK, Deploy, Sound
  <1>4. CASE StatusUnhealthy(j)
    <2>1. CreateNewInstance(job[j].loop, mgr) \in Deploy
      BY <1>1, <1>2, EnsureInstanceFacts DEF Sound, Deploy
    <2>2. QED
      BY <1>1, <1>4, <2>1 DEF StatusUnhealthy, TypeOK, Sound
  <1>5. CASE TokenReady(j)
    <2>1. [job[j] EXCEPT !.stage = "create", !.client = GetClient(mgr).client] \in Deploy
      BY <1>1, <1>2 DEF Deploy
    <2>2. QED
      BY <1>1, <1>5, <2>1 DEF TokenReady, TypeOK, Sound
  <1>6. CASE InstanceCreated(j)
    <2>1. PICK i \in Instances :
            WriteStage(j, [mgr EXCEPT !.instance = i, !.home = job[j].client], i)
      BY <1>6 DEF InstanceCreated, UnusedInstances
    <2>2. Sound([mgr EXCEPT !.instance = i, !.home = job[j].client])
      BY <1>1, <1>2, <2>1 DEF Sound, Manager, Deploy
    <2>3. QED
      BY <2>1, <2>2, WriteStageTyped DEF TypeOK, Sound
  <1>7. CASE JobSucceeds(j)
    <2>1. job[j].loop \in Loops
      BY <1>2, <1>7 DEF JobSucceeds, Deploy
    <2>2. Sound(mgr')
      <3>1. Sound(StartHealthCheckInterval(mgr, job[j].inst))
        BY <1>1, <1>2 DEF StartHealthCheckInterval, Manager, Sound, Deploy
      <3>2. QED
        BY <1>1, <1>7, <3>1, SoundGetClient DEF JobSucceeds
    <2>3. job' \in [Jobs -> Deploy] /\ UNCHANGED disturbed
      BY <1>7, DeploymentAssumption DEF JobSucceeds, TypeOK, FreeJob, Deploy
    <2>4. CASE Settle(job[j].loop)
      BY <2>1, <2>2, <2>3, <2>4, SettleTyped DEF TypeOK, Sound
    <2>5. CASE /\ loop' = [loop EXCEPT ![job[j].loop].stage = "setup"]
               /\ UNCHANGED <<promise, role, waits, deployed>>
      BY <2>1, <2>2, <2>3, <2>5 DEF TypeOK, Sound, RetryLoop
    <2>6. QED
      BY <1>7, <2>4, <2>5 DEF JobSucceeds
  <1>8. CASE JobFails(j)
    <2>1. PICK e \in BOOLEAN : FailAttempt(job[j].loop, e)
      BY <1>8 DEF JobFails
    <2>2. job[j].loop \in Loops
      BY <1>2, <1>8 DEF JobFails, Deploy
    <2>3. job' \in [Jobs -> Deploy] /\ UNCHANGED disturbed
      BY <1>8 DEF JobFails, TypeOK, FreeJob, Deploy
    <2>4. QED
      BY <2>1, <2>2, <2>3, FailAttemptTyped DEF TypeOK, Sound
  <1>9. CASE AbandonedEnds(j)
    BY <1>9 DEF AbandonedEnds, TypeOK, FreeJob, Deploy
  <1>10. QED
    BY <1>3, <1>4, <1>5, <1>6, <1>7, <1>8, <1>9 DEF JobStep

LEMMA TypedLoop ==
  ASSUME Typed, NEW l \in Loops, LoopStep(l)
  PROVE  Typed'
  <1> USE DEF Typed, ClientTracksSession
  <1>1. Sound(mgr) /\ loop[l] \in RetryLoop
    BY DEF TypeOK, Sound
  <1>2. CASE AttemptTimeout(l)
    <2>1. job' \in [Jobs -> Deploy] /\ disturbed' = TRUE
      BY <1>2 DEF AttemptTimeout, TypeOK, Deploy
    <2>2. FailAttempt(l, FALSE)
      BY <1>2 DEF AttemptTimeout
    <2>3. QED
      BY <2>1, <2>2, FailAttemptTyped DEF TypeOK, Sound
  <1>3. CASE SetupDone(l)
    BY <1>3, SettleTyped DEF SetupDone, TypeOK
  <1>4. CASE SetupFails(l)
    <2>1. PICK e \in BOOLEAN : FailAttempt(l, e)
      BY <1>4 DEF SetupFails
    <2>2. QED
      BY <1>4, <2>1, FailAttemptTyped DEF SetupFails, TypeOK, Sound
  <1>5. CASE BackoffDone(l)
    <2>1. BeginAttempt(l, loop[l].redeploy, NextTry(loop[l].tries), TRUE, mgr)
      BY <1>5 DEF BackoffDone
    <2>2. loop[l].redeploy \in BOOLEAN /\ NextTry(loop[l].tries) \in 1..ResetEvery
      BY <1>1, NextTryType DEF RetryLoop
    <2>3. QED
      BY <1>1, <1>5, <2>1, <2>2, BeginAttemptTyped DEF BackoffDone, TypeOK, Sound
  <1>6. QED
    BY <1>2, <1>3, <1>4, <1>5 DEF LoopStep

\* The initial, and final, state of a loop and of a deploy().
LEMMA EmptySlots == DoneLoop \in RetryLoop /\ FreeJob \in Deploy
  <1>1. 1 \in 1..ResetEvery
    BY DeploymentAssumption
  <1>2. DoneLoop \in RetryLoop
    BY <1>1 DEF DoneLoop, RetryLoop
  <1>3. FreeJob \in Deploy
    BY DEF FreeJob, Deploy
  <1>4. QED
    BY <1>2, <1>3

LEMMA TypedRest ==
  ASSUME Typed, InspectInstance \/ Restart \/ UNCHANGED vars
  PROVE  Typed'
  <1> USE DEF Typed, ClientTracksSession
  <1>1. CASE InspectInstance
    BY <1>1, SoundGetClient DEF InspectInstance, TypeOK, Sound
  <1>2. CASE Restart
    <2>1. mgr' \in Manager /\ mgr'.client = None
      BY <1>2 DEF Restart, TypeOK, Manager
    <2>2. QED
      BY <1>2, <2>1, EmptySlots DEF Restart, TypeOK, Roles
  <1>3. CASE UNCHANGED vars
    BY <1>3 DEF vars, TypeOK
  <1>4. QED
    BY <1>1, <1>2, <1>3

LEMMA TypedInvariant == Spec => []Typed
  <1>1. Init => Typed
    <2>1. (CHOOSE s \in Sessions : TRUE) \in Sessions
      BY DeploymentAssumption
    <2>2. Init => mgr \in Manager /\ mgr.client = None
      BY <2>1 DEF Init, Manager
    <2>3. QED
      BY <2>2, EmptySlots DEF Init, Typed, TypeOK, ClientTracksSession, Roles
  <1>2. Typed /\ [Next]_vars => Typed'
    BY TypedCaller, TypedJob, TypedLoop, TypedRest DEF Next
  <1>3. QED
    BY <1>1, <1>2, PTL DEF Spec

\* The variables keep their types in every behaviour, whatever the number of
\* callers, loops, deploy() executions and ids.
THEOREM TypeCorrect == Spec => []TypeOK
  <1>1. Typed => TypeOK
    BY DEF Typed
  <1>2. QED
    BY <1>1, TypedInvariant, PTL

\* No call goes out through the client of a session that was reset: the cached
\* client is the current session's, for any interleaving of retries, abandoned
\* attempts, health checks and restarts.
THEOREM ClientIsCurrent == Spec => []ClientTracksSession
  <1>1. Typed => ClientTracksSession
    BY DEF Typed
  <1>2. QED
    BY <1>1, TypedInvariant, PTL

-------------------------------------------------------------------------------
(* Single flight *)

\* The inductive invariant behind SingleOwner: who waits has a role and waits on
\* a running loop, and the current promise has an owner who waits on it.
Ownership ==
  /\ \A c \in Callers : waits[c] # None <=> role[c] \in {"owner", "joined"}
  /\ \A c \in Callers : waits[c] # None => waits[c] \in BusyLoops
  /\ promise # None => \E c \in Callers : role[c] = "owner"
  /\ SingleOwner

\* A new loop is nobody's yet.
LEMMA OwnershipDeploy ==
  ASSUME TypeOK, Ownership, NEW c \in Callers, waits[c] = None, NEW r \in BOOLEAN,
         NEW m, DeployToSandbox(c, r, m)
  PROVE  Ownership'
  <1> USE DEF Ownership, SingleOwner, BusyLoops, TypeOK
  <1>1. CASE JoinDeployment(c, m)
    BY <1>1 DEF JoinDeployment
  <1>2. CASE LaunchDeployment(c, r, m)
    <2>1. PICK l \in IdleLoops :
            /\ BeginAttempt(l, r, 1, FALSE, m)
            /\ promise' = l
            /\ waits' = [waits EXCEPT ![c] = l]
      BY <1>2 DEF LaunchDeployment
    <2>2. l \in Loops /\ l # None
      BY DeploymentAssumption DEF IdleLoops
    <2>3. /\ loop'[l].stage = "attempt"
          /\ \A k \in Loops : k # l => loop'[k] = loop[k]
          /\ l \in Loops
      BY <2>1, <2>2 DEF BeginAttempt
    <2>4. role' = [role EXCEPT ![c] = "owner"] /\ promise = None
      BY <1>2 DEF LaunchDeployment
    <2>5. \A d \in Callers : role[d] # "owner"
      BY <2>4
    <2>6. QED
      BY <2>1, <2>2, <2>3, <2>4, <2>5
  <1>3. QED
    BY <1>1, <1>2 DEF DeployToSandbox

LEMMA OwnershipSettle ==
  ASSUME TypeOK, Ownership, NEW l \in Loops, Settle(l)
  PROVE  Ownership'
  <1> USE DEF Ownership, SingleOwner, BusyLoops, TypeOK
  <1>1. /\ \A c \in Callers : waits[c] = l => role'[c] = "idle" /\ waits'[c] = None
        /\ \A c \in Callers :
             waits[c] # l => role'[c] = role[c] /\ waits'[c] = waits[c]
        /\ \A k \in Loops : k # l => loop'[k] = loop[k]
    BY DEF Settle
  <1>2. promise' = IF promise = l THEN None ELSE promise
    BY DEF Settle
  <1>3. l # None
    BY DeploymentAssumption
  <1>4. \A c \in Callers :
          /\ waits'[c] # None <=> role'[c] \in {"owner", "joined"}
          /\ waits'[c] # None => waits'[c] \in BusyLoops'
    BY <1>1
  <1>5. \A c \in Callers : role'[c] = "owner" =>
          role[c] = "owner" /\ waits[c] # l /\ waits'[c] = waits[c]
    BY <1>1
  <1>6. \A c \in Callers : role'[c] = "owner" => waits'[c] = promise'
    BY <1>2, <1>5
  <1>7. promise' # None => \E c \in Callers : role'[c] = "owner"
    BY <1>1, <1>2
  <1>8. QED
    BY <1>4, <1>5, <1>6, <1>7

\* A step that touches neither callers nor promise, and ends no loop.
LEMMA OwnershipFrame ==
  ASSUME TypeOK, Ownership, UNCHANGED <<promise, role, waits>>,
         \A l \in BusyLoops : l \in BusyLoops'
  PROVE  Ownership'
  BY DEF Ownership, SingleOwner, TypeOK

LEMMA OwnershipFail ==
  ASSUME TypeOK, Ownership, NEW l \in Loops, NEW e, FailAttempt(l, e)
  PROVE  Ownership'
  <1>1. loop' = [loop EXCEPT ![l].stage = "backoff"]
    BY DEF FailAttempt
  <1>2. \A k \in BusyLoops : k \in BusyLoops'
    BY <1>1 DEF BusyLoops, TypeOK, RetryLoop
  <1>3. QED
    BY <1>2, OwnershipFrame DEF FailAttempt

LEMMA OwnershipStep ==
  ASSUME TypeOK, Ownership, [Next]_vars
  PROVE  Ownership'
  <1>1. ASSUME NEW c \in Callers, CallerStep(c)
        PROVE  Ownership'
    <2>1. CASE Call(c)
      BY <2>1, OwnershipDeploy DEF Call, Ownership
    <2>2. CASE HealthTick(c)
      BY <2>2 DEF HealthTick, Ownership, SingleOwner, BusyLoops, TypeOK
    <2>3. CASE TickHealthy(c)
      BY <2>3 DEF TickHealthy, Ownership, SingleOwner, BusyLoops, TypeOK
    <2>4. CASE TickUnhealthy(c)
      BY <2>4, OwnershipDeploy DEF TickUnhealthy, Ownership
    <2>5. CASE MasterTimeout(c)
      BY <2>5, DeploymentAssumption
      DEF MasterTimeout, TimesOut, Ownership, SingleOwner, BusyLoops, TypeOK
    <2>6. QED
      BY <1>1, <2>1, <2>2, <2>3, <2>4, <2>5 DEF CallerStep
  <1>2. ASSUME NEW j \in Jobs, JobStep(j)
        PROVE  Ownership'
    <2>1. job[j] \in Deploy
      BY DEF TypeOK
    <2>2. CASE \/ StatusHealthy(j) \/ StatusUnhealthy(j) \/ TokenReady(j)
               \/ InstanceCreated(j) \/ AbandonedEnds(j)
      <3>1. UNCHANGED <<promise, role, waits, loop>>
        BY <2>2 DEF StatusHealthy, StatusUnhealthy, TokenReady, InstanceCreated,
                    AbandonedEnds, WriteStage
      <3>2. QED
        BY <3>1, OwnershipFrame DEF BusyLoops
    <2>3. CASE JobSucceeds(j)
      <3>1. job[j].loop \in Loops
        BY <2>1, <2>3 DEF JobSucceeds, Deploy
      <3>2. CASE Settle(job[j].loop)
        BY <3>1, <3>2, OwnershipSettle
      <3>3. CASE /\ loop' = [loop EXCEPT ![job[j].loop].stage = "setup"]
                 /\ UNCHANGED <<promise, role, waits, deployed>>
        <4>1. \A k \in BusyLoops : k \in BusyLoops'
          BY <3>1, <3>3 DEF BusyLoops, TypeOK, RetryLoop
        <4>2. QED
          BY <3>3, <4>1, OwnershipFrame
      <3>4. QED
        BY <2>3, <3>2, <3>3 DEF JobSucceeds
    <2>4. CASE JobFails(j)
      <3>1. job[j].loop \in Loops
        BY <2>1, <2>4 DEF JobFails, Deploy
      <3>2. QED
        BY <2>4, <3>1, OwnershipFail DEF JobFails
    <2>5. QED
      BY <1>2, <2>2, <2>3, <2>4 DEF JobStep
  <1>3. ASSUME NEW l \in Loops, LoopStep(l)
        PROVE  Ownership'
    <2>1. CASE AttemptTimeout(l)
      BY <2>1, OwnershipFail DEF AttemptTimeout
    <2>2. CASE SetupDone(l)
      BY <2>2, OwnershipSettle DEF SetupDone
    <2>3. CASE SetupFails(l)
      BY <2>3, OwnershipFail DEF SetupFails
    <2>4. CASE BackoffDone(l)
      <3>1. PICK r, t : BeginAttempt(l, r, t, TRUE, mgr)
        BY <2>4 DEF BackoffDone
      <3>2. \A k \in BusyLoops : k \in BusyLoops'
        BY <3>1 DEF BeginAttempt, BusyLoops, TypeOK
      <3>3. QED
        BY <2>4, <3>2, OwnershipFrame DEF BackoffDone
    <2>5. QED
      BY <1>3, <2>1, <2>2, <2>3, <2>4 DEF LoopStep
  <1>4. CASE InspectInstance \/ UNCHANGED vars
    <2>1. UNCHANGED <<promise, role, waits, loop>>
      BY <1>4 DEF InspectInstance, vars
    <2>2. QED
      BY <2>1, OwnershipFrame DEF BusyLoops
  <1>5. CASE Restart
    BY <1>5 DEF Restart, Ownership, SingleOwner, BusyLoops
  <1>6. QED
    BY <1>1, <1>2, <1>3, <1>4, <1>5 DEF Next

LEMMA OwnershipInvariant == Spec => []Ownership
  <1>1. Init => Ownership
    BY DEF Init, Ownership, SingleOwner, BusyLoops
  <1>2. TypeOK /\ Ownership /\ [Next]_vars => Ownership'
    BY OwnershipStep
  <1>3. QED
    BY <1>1, <1>2, TypeCorrect, PTL DEF Spec

\* Single flight: at most one caller owns a deployment, and what it owns is the
\* current promise, even while loops that outlived their master timeout run on.
THEOREM AtMostOneOwner == Spec => []SingleOwner
  <1>1. Ownership => SingleOwner
    BY DEF Ownership
  <1>2. QED
    BY <1>1, OwnershipInvariant, PTL

\* A caller that waits, waits on a loop that still runs.
THEOREM WaitersAreServed == Spec => []NoOneWaitsOnTheDead
  <1>1. Ownership => NoOneWaitsOnTheDead
    BY DEF Ownership, NoOneWaitsOnTheDead
  <1>2. QED
    BY <1>1, OwnershipInvariant, PTL

-------------------------------------------------------------------------------
(* Deployment implements SingleFlight *)

\* Answering the callers of S, in the terms of Deployment.
LEMMA AnswerStep ==
  ASSUME TypeOK, Ownership, NEW S \in SUBSET Callers,
         \A c \in S : waits[c] # None /\ role'[c] = "idle",
         \A c \in Callers \ S : role'[c] = role[c],
         role' \in [Callers -> Roles],
         (promise' # None) = (promise # None /\ \A c \in S : role[c] # "owner")
  PROVE  Flight!FlightNext
  <1>1. \A c \in S : FlightRole[c] = role[c] /\ FlightRole[c] # "idle"
    BY DEF Ownership, FlightRole
  <1>2. FlightRole' = [c \in Callers |-> IF c \in S THEN "idle" ELSE FlightRole[c]]
    BY DEF FlightRole
  <1>3. Flight!Answer(S)
    BY <1>1, <1>2 DEF Flight!Answer
  <1>4. QED
    BY <1>3 DEF Flight!FlightNext

LEMMA FlightDeploy ==
  ASSUME TypeOK, Ownership, NEW c \in Callers, waits[c] = None, NEW r, NEW m,
         DeployToSandbox(c, r, m)
  PROVE  Flight!FlightNext
  <1>1. FlightRole[c] = "idle"
    BY DEF Ownership, FlightRole
  <1>2. CASE JoinDeployment(c, m)
    <2>1. FlightRole' = [FlightRole EXCEPT ![c] = "joined"]
      BY <1>2 DEF JoinDeployment, FlightRole, TypeOK
    <2>2. Flight!Join(c)
      BY <1>1, <1>2, <2>1 DEF JoinDeployment, Flight!Join
    <2>3. QED
      BY <2>2 DEF Flight!FlightNext
  <1>3. CASE LaunchDeployment(c, r, m)
    <2>1. FlightRole' = [FlightRole EXCEPT ![c] = "owner"]
      BY <1>3 DEF LaunchDeployment, FlightRole, TypeOK
    <2>2. promise = None /\ promise' # None
      BY <1>3, DeploymentAssumption DEF LaunchDeployment, IdleLoops
    <2>3. Flight!Open(c)
      BY <1>1, <2>1, <2>2 DEF Flight!Open
    <2>4. QED
      BY <2>3 DEF Flight!FlightNext
  <1>4. QED
    BY <1>2, <1>3 DEF DeployToSandbox

LEMMA FlightSettle ==
  ASSUME TypeOK, Ownership, NEW l \in Loops, Settle(l)
  PROVE  Flight!FlightNext
  <1> DEFINE S == {c \in Callers : waits[c] = l}
  <1>1. l # None
    BY DeploymentAssumption
  <1>2. /\ \A c \in S : waits[c] # None /\ role'[c] = "idle"
        /\ \A c \in Callers \ S : role'[c] = role[c]
        /\ role' \in [Callers -> Roles]
    BY <1>1 DEF Settle, TypeOK, Roles
  <1>3. (promise' # None) = (promise # None /\ \A c \in S : role[c] # "owner")
    <2>1. CASE promise = l
      <3>1. \E c \in S : role[c] = "owner"
        BY <1>1, <2>1 DEF Ownership, SingleOwner
      <3>2. promise' = None
        BY <2>1 DEF Settle
      <3>3. QED
        BY <3>1, <3>2
    <2>2. CASE promise # l
      <3>1. \A c \in S : role[c] # "owner"
        BY <2>2 DEF Ownership, SingleOwner
      <3>2. promise' = promise
        BY <2>2 DEF Settle
      <3>3. QED
        BY <3>1, <3>2
    <2>3. QED
      BY <2>1, <2>2
  <1>4. QED
    BY <1>2, <1>3, AnswerStep

LEMMA FlightFrame ==
  ASSUME UNCHANGED <<promise, role>>
  PROVE  UNCHANGED Flight!flightVars
  BY DEF Flight!flightVars, FlightRole

LEMMA FlightStep ==
  ASSUME TypeOK, TypeOK', Ownership, [Next]_vars
  PROVE  Flight!FlightNext \/ UNCHANGED Flight!flightVars
  <1>1. ASSUME NEW c \in Callers, CallerStep(c)
        PROVE  Flight!FlightNext \/ UNCHANGED Flight!flightVars
    <2>1. CASE Call(c)
      BY <2>1, FlightDeploy DEF Call, Ownership
    <2>2. CASE HealthTick(c)
      BY <2>2 DEF HealthTick, TypeOK, Flight!flightVars, FlightRole
    <2>3. CASE TickHealthy(c)
      BY <2>3 DEF TickHealthy, TypeOK, Flight!flightVars, FlightRole
    <2>4. CASE TickUnhealthy(c)
      BY <2>4, FlightDeploy DEF TickUnhealthy, Ownership
    <2>5. CASE MasterTimeout(c)
      <3>1. /\ \A d \in {c} : waits[d] # None /\ role'[d] = "idle"
            /\ \A d \in Callers \ {c} : role'[d] = role[d]
            /\ role' \in [Callers -> Roles]
        BY <2>5 DEF MasterTimeout, TimesOut, TypeOK
      <3>2. (promise' # None) = (promise # None /\ \A d \in {c} : role[d] # "owner")
        BY <2>5 DEF MasterTimeout
      <3>3. QED
        BY <3>1, <3>2, AnswerStep
    <2>6. QED
      BY <1>1, <2>1, <2>2, <2>3, <2>4, <2>5 DEF CallerStep
  <1>2. ASSUME NEW j \in Jobs, JobStep(j)
        PROVE  Flight!FlightNext \/ UNCHANGED Flight!flightVars
    <2>1. CASE ~JobSucceeds(j)
      <3>1. UNCHANGED <<promise, role>>
        BY <1>2, <2>1
        DEF JobStep, StatusHealthy, StatusUnhealthy, TokenReady, InstanceCreated,
            JobFails, FailAttempt, AbandonedEnds, WriteStage
      <3>2. QED
        BY <3>1, FlightFrame
    <2>2. CASE JobSucceeds(j)
      <3>1. job[j].loop \in Loops
        BY <2>2 DEF JobSucceeds, TypeOK, Deploy
      <3>2. QED
        BY <2>2, <3>1, FlightSettle, FlightFrame DEF JobSucceeds
    <2>3. QED
      BY <2>1, <2>2
  <1>3. ASSUME NEW l \in Loops, LoopStep(l)
        PROVE  Flight!FlightNext \/ UNCHANGED Flight!flightVars
    <2>1. CASE SetupDone(l)
      BY <2>1, FlightSettle DEF SetupDone
    <2>2. CASE ~SetupDone(l)
      <3>1. UNCHANGED <<promise, role>>
        BY <1>3, <2>2
        DEF LoopStep, AttemptTimeout, SetupFails, BackoffDone, FailAttempt
      <3>2. QED
        BY <3>1, FlightFrame
    <2>3. QED
      BY <2>1, <2>2
  <1>4. CASE InspectInstance \/ UNCHANGED vars
    BY <1>4, FlightFrame DEF InspectInstance, vars
  <1>5. CASE Restart
    <2> DEFINE S == {c \in Callers : waits[c] # None}
    <2>1. \A c \in Callers \ S : FlightRole[c] = "idle"
      BY DEF Ownership, FlightRole
    <2>2. FlightRole' = [c \in Callers |-> IF c \in S THEN "idle" ELSE FlightRole[c]]
      BY <1>5, <2>1 DEF Restart, FlightRole
    <2>3. \A c \in S : FlightRole[c] # "idle"
      BY DEF Ownership, FlightRole
    <2>4. promise # None => \E c \in S : FlightRole[c] = "owner"
      BY DEF Ownership, FlightRole
    <2>5. Flight!Answer(S)
      BY <1>5, <2>2, <2>3, <2>4 DEF Restart, Flight!Answer
    <2>6. QED
      BY <2>5 DEF Flight!FlightNext
  <1>6. QED
    BY <1>1, <1>2, <1>3, <1>4, <1>5 DEF Next

\* Every behaviour of Deployment is one of SingleFlight: callers see a single
\* deployment in flight, join it and are answered, for any number of them and
\* any number of loops and deploy() executions left running behind it.
THEOREM FlightImplemented == Spec => ImplementsSingleFlight
  <1>1. Init => Flight!FlightInit
    BY DEF Init, Flight!FlightInit, FlightRole
  <1>2. TypeOK /\ TypeOK' /\ Ownership /\ [Next]_vars
          => [Flight!FlightNext]_Flight!flightVars
    BY FlightStep
  <1>3. QED
    BY <1>1, <1>2, TypeCorrect, OwnershipInvariant, PTL
    DEF Spec, ImplementsSingleFlight, Flight!FlightSpec

-------------------------------------------------------------------------------
(* How a deployment starts *)

\* What the start of an attempt of loop l, given the manager m, leaves behind:
\* the agent's instance is kept or forgotten, and one free job starts deploy().
Begun(l, m) ==
  \E k \in FreeJobs :
    /\ job' = [job EXCEPT ![k] = EnsureInstance(l, mgr')]
    /\ EnsureInstance(l, mgr') \in Deploy
    /\ EnsureInstance(l, mgr').loop = l
    /\ EnsureInstance(l, mgr').stage \in {"status", "token", "create"}
    /\ EnsureInstance(l, mgr').stage = "status" <=> mgr'.instance # None
    /\ EnsureInstance(l, mgr').inst = mgr'.instance
    /\ EnsureInstance(l, mgr').stage = "create"
         => EnsureInstance(l, mgr').client = mgr'.session
    /\ mgr'.interval = m.interval
    /\ \/ mgr'.instance = None /\ mgr'.home = None
       \/ /\ mgr'.instance = m.instance /\ mgr'.home = m.home
          /\ mgr'.session = m.session

LEMMA BeginAttemptFacts ==
  ASSUME Typed, NEW l \in Loops, NEW r \in BOOLEAN, NEW t, NEW again,
         NEW m, Sound(m), BeginAttempt(l, r, t, again, m)
  PROVE  Begun(l, m)
  <1> DEFINE start == GetClient(IF r THEN ResetSessionId(m) ELSE m)
  <1>1. UnusedSessions # {} /\ mgr' = start
    BY DEF BeginAttempt
  <1>2. PICK k \in FreeJobs : job' = [job EXCEPT ![k] = EnsureInstance(l, start)]
    BY DEF BeginAttempt
  <1>3. /\ start \in Manager
        /\ start.client = start.session
        /\ start.interval = m.interval
        /\ r => start.instance = None /\ start.home = None
        /\ ~r => /\ start.session = m.session
                 /\ start.instance = m.instance /\ start.home = m.home
    BY <1>1, StartFacts DEF Sound
  <1>4. GetClient(start).client = start.session
    BY <1>3, GetClientFacts
  <1>5. /\ EnsureInstance(l, start) \in Deploy
        /\ EnsureInstance(l, start).loop = l
        /\ EnsureInstance(l, start).stage \in {"status", "token", "create"}
        /\ EnsureInstance(l, start).inst = start.instance
        /\ EnsureInstance(l, start).stage = "status" <=> start.instance # None
        /\ EnsureInstance(l, start).stage = "create"
             => EnsureInstance(l, start).client = GetClient(start).client
    <2>1. l \in Loops \cup {None} /\ TypeOK /\ start \in Manager
      BY <1>3 DEF Typed
    <2>2. QED
      BY ONLY <2>1, EnsureInstanceFacts
  <1> HIDE DEF start
  <1>6. mgr' = start
    BY <1>1
  <1>7. QED
    BY <1>2, <1>3, <1>4, <1>5, <1>6 DEF Begun

\* An instance that has to be created is fresh, and a new deploy() is not late.
LEMMA CreatedIsFresh ==
  ASSUME NEW l, NEW m
  PROVE  /\ CreateNewInstance(l, m).fresh
         /\ ~CreateNewInstance(l, m).late
         /\ ~EnsureInstance(l, m).late
         /\ EnsureInstance(l, m).stage \in {"token", "create"}
              => EnsureInstance(l, m).fresh
  BY DEF EnsureInstance, CreateNewInstance, FreeJob

\* A deployment starts only while none is promised.
LEMMA DeployFacts ==
  ASSUME Typed, NEW c \in Callers, NEW r \in BOOLEAN, NEW m, Sound(m),
         DeployToSandbox(c, r, m)
  PROVE  \/ UNCHANGED <<job, loop>> /\ mgr' = m
         \/ /\ promise = None
            /\ \E l \in IdleLoops, t \in {1}, again \in {FALSE} :
                 BeginAttempt(l, r, t, again, m)
  BY DEF DeployToSandbox, JoinDeployment, LaunchDeployment

-------------------------------------------------------------------------------
(* Two deploy() executions in one sandbox *)

\* The deploy() executions under way.
Working == {j \in Jobs : job[j].stage # "free"}

\* A deploy() against the manager m: it has a sandbox while it checks it and
\* while it writes to it, and an abandoned one has the agent's only if it was late.
Placed(d, m) ==
  /\ d.inst # None => d.stage \in {"status", "write"}
  /\ d.stage \in {"token", "create"} => d.fresh
  /\ d.stage = "status" => ~d.late
  /\ d.stage # "free" /\ d.loop = None /\ d.inst # None /\ d.inst = m.instance => d.late

\* What makes MeetingsExplained inductive: the deploy() executions that loops
\* await belong to different loops, each in its attempt.
Placements ==
  /\ \A j \in Jobs : Placed(job[j], mgr)
  /\ \A j \in Working : job[j].loop # None => loop[job[j].loop].stage = "attempt"
  /\ \A j, k \in Working : job[j].loop # None /\ job[j].loop = job[k].loop => j = k

\* A step that keeps the deploy() executions, and the loops that await one.
LEMMA PlacementsFrame ==
  ASSUME Typed, Placements, job' = job, mgr'.instance \in {None, mgr.instance},
         \A l \in Loops : loop[l].stage = "attempt" => loop'[l].stage = "attempt"
  PROVE  Placements'
  <1>1. \A j \in Jobs : Placed(job'[j], mgr')
    BY DEF Placements, Placed
  <1>2. \A j \in Working : job[j].loop # None => job[j].loop \in Loops
    BY DEF Typed, TypeOK, Deploy, Working
  <1>3. QED
    BY <1>1, <1>2 DEF Placements, Working

\* An attempt begins: a new deploy() looks at the agent's instance.
LEMMA PlacementsBegin ==
  ASSUME Typed, Placements, NEW l \in Loops, NEW r \in BOOLEAN, NEW t, NEW again,
         NEW m, Sound(m), BeginAttempt(l, r, t, again, m),
         m.instance = mgr.instance, loop[l].stage # "attempt"
  PROVE  /\ Placements'
         /\ mgr'.instance \in {None, mgr.instance}
         /\ \E k \in FreeJobs : /\ \A j \in Jobs \ {k} : job'[j] = job[j]
                                /\ job'[k].inst = mgr'.instance
  <1> DEFINE d == EnsureInstance(l, mgr')
  <1>1. PICK k \in FreeJobs : /\ job' = [job EXCEPT ![k] = d]
                              /\ d.loop = l
                              /\ d.stage \in {"status", "token", "create"}
                              /\ d.stage = "status" <=> mgr'.instance # None
                              /\ d.inst = mgr'.instance
                              /\ mgr'.instance \in {None, mgr.instance}
    BY BeginAttemptFacts DEF Begun
  <1>2. ~d.late /\ (d.stage \in {"token", "create"} => d.fresh)
    BY CreatedIsFresh
  <1> HIDE DEF d
  <1>3. k \in Jobs /\ job'[k] = d /\ \A j \in Jobs \ {k} : job'[j] = job[j]
    BY <1>1 DEF FreeJobs, Typed, TypeOK
  <1>4. \A j \in Working : j # k /\ (job[j].loop # None => job[j].loop \in Loops)
    BY <1>1 DEF FreeJobs, Working, Typed, TypeOK, Deploy
  <1>5. Working' = Working \cup {k}
    BY <1>1, <1>3 DEF Working
  <1>6. \A j \in Jobs : Placed(job'[j], mgr')
    <2>1. Placed(d, mgr')
      BY <1>1, <1>2, DeploymentAssumption DEF Placed
    <2>2. \A j \in Jobs \ {k} : Placed(job[j], mgr')
      BY <1>1 DEF Placements, Placed
    <2>3. QED
      BY <1>3, <2>1, <2>2
  <1>7. /\ loop'[l].stage = "attempt"
        /\ \A i \in Loops \ {l} : loop'[i] = loop[i]
    BY DEF BeginAttempt, Typed, TypeOK
  <1>8. \A j \in Working : job[j].loop # l
    BY DeploymentAssumption DEF Placements
  <1>9. \A j \in Working' : job'[j].loop # None => loop'[job'[j].loop].stage = "attempt"
    BY <1>1, <1>3, <1>4, <1>5, <1>7, <1>8 DEF Placements, Working
  <1>10. \A i, j \in Working' : job'[i].loop # None /\ job'[i].loop = job'[j].loop => i = j
    BY <1>1, <1>3, <1>4, <1>5, <1>8 DEF Placements, Working
  <1>11. QED
    BY <1>1, <1>3, <1>6, <1>9, <1>10 DEF Placements

\* One deploy() goes on, in a sandbox that is its own or the agent's.
LEMMA PlacementsProgress ==
  ASSUME Typed, Placements, NEW j \in Working, NEW d, job' = [job EXCEPT ![j] = d],
         UNCHANGED loop, d.stage # "free", d.loop = job[j].loop, Placed(d, mgr'),
         \/ mgr'.instance = mgr.instance
         \/ \A k \in Jobs \ {j} : job[k].inst # mgr'.instance
  PROVE  Placements'
  <1>1. j \in Jobs /\ job'[j] = d /\ \A k \in Jobs \ {j} : job'[k] = job[k]
    BY DEF Working, Typed, TypeOK
  <1>2. Working' = Working
    BY <1>1 DEF Working
  <1>3. \A k \in Jobs \ {j} : Placed(job[k], mgr')
    BY DEF Placements, Placed
  <1>4. \A k \in Jobs : Placed(job'[k], mgr')
    BY <1>1, <1>3
  <1>5. \A k \in Working : job'[k].loop = job[k].loop
    BY <1>1 DEF Working
  <1>6. QED
    BY <1>2, <1>4, <1>5 DEF Placements

\* One deploy() ends, and with it perhaps the attempt of its loop.
LEMMA PlacementsEnd ==
  ASSUME Typed, Placements, NEW j \in Working, job' = [job EXCEPT ![j] = FreeJob],
         mgr'.instance \in {None, mgr.instance},
         \A l \in Loops : l # job[j].loop => loop'[l] = loop[l]
  PROVE  Placements'
  <1>1. j \in Jobs /\ job'[j] = FreeJob /\ \A k \in Jobs \ {j} : job'[k] = job[k]
    BY DEF Working, Typed, TypeOK
  <1>2. Working' = Working \ {j}
    BY <1>1 DEF Working, FreeJob
  <1>3. \A k \in Jobs : Placed(job'[k], mgr')
    <2>1. Placed(FreeJob, mgr')
      BY DEF Placed, FreeJob
    <2>2. \A k \in Jobs \ {j} : Placed(job[k], mgr')
      BY DEF Placements, Placed
    <2>3. QED
      BY <1>1, <2>1, <2>2
  <1>4. \A k \in Working' : /\ job'[k] = job[k] /\ k \in Working
                            /\ job[k].loop # None =>
                                 job[k].loop \in Loops /\ job[k].loop # job[j].loop
    BY <1>1, <1>2 DEF Placements, Working, Typed, TypeOK, Deploy
  <1>5. QED
    BY <1>3, <1>4 DEF Placements

\* The sixty seconds of a loop's attempt are over: the agent forgets the instance
\* that the abandoned deploy() has.
LEMMA PlacementsTimeout ==
  ASSUME Typed, Placements, NEW l \in Loops, AttemptTimeout(l)
  PROVE  Placements'
  <1>1. /\ job' = [j \in Jobs |-> IF job[j].loop = l
                                  THEN [job[j] EXCEPT !.loop = None] ELSE job[j]]
        /\ loop' = [loop EXCEPT ![l].stage = "backoff"]
    BY DEF AttemptTimeout, FailAttempt
  <1>2. mgr'.instance = None
    BY AfterFailureFacts DEF AttemptTimeout, FailAttempt, Typed, TypeOK
  <1>3. \A j \in Jobs :
          /\ job'[j].stage = job[j].stage /\ job'[j].inst = job[j].inst
          /\ job'[j].fresh = job[j].fresh /\ job'[j].late = job[j].late
          /\ job'[j].loop = IF job[j].loop = l THEN None ELSE job[j].loop
    BY <1>1 DEF Typed, TypeOK, Deploy
  <1>4. \A j \in Jobs : Placed(job'[j], mgr')
    BY <1>2, <1>3 DEF Placements, Placed
  <1>5. Working' = Working
    BY <1>3 DEF Working
  <1>6. \A i \in Loops \ {l} : loop'[i] = loop[i]
    BY <1>1 DEF Typed, TypeOK
  <1>7. \A j \in Working : job[j].loop \in Loops \cup {None} /\ j \in Jobs
    BY DEF Working, Typed, TypeOK, Deploy
  <1>8. \A j \in Working : job'[j].loop # None => loop'[job'[j].loop].stage = "attempt"
    BY <1>3, <1>6, <1>7 DEF Placements
  <1>9. \A i, j \in Working : job'[i].loop # None /\ job'[i].loop = job'[j].loop => i = j
    BY <1>3, <1>7 DEF Placements
  <1>10. QED
    BY <1>4, <1>5, <1>8, <1>9 DEF Placements

\* The managers that steps other than failures leave behind.
LEMMA InstanceKept ==
  ASSUME Typed
  PROVE  /\ Sound(mgr) /\ Sound(ClearHealthCheckInterval(mgr))
         /\ ClearHealthCheckInterval(mgr).instance = mgr.instance
         /\ GetClient(mgr).instance = mgr.instance
         /\ \A i \in Instances \cup {None} :
              GetClient(StartHealthCheckInterval(mgr, i)).instance = mgr.instance
  <1>1. mgr \in Manager /\ Sound(mgr)
    BY DEF Typed, TypeOK, ClientTracksSession, Sound
  <1>2. ASSUME NEW i \in Instances \cup {None}
        PROVE  /\ StartHealthCheckInterval(mgr, i) \in Manager
               /\ StartHealthCheckInterval(mgr, i).instance = mgr.instance
    BY <1>1 DEF StartHealthCheckInterval, Manager
  <1>3. /\ Sound(ClearHealthCheckInterval(mgr))
        /\ ClearHealthCheckInterval(mgr).instance = mgr.instance
    BY <1>1 DEF ClearHealthCheckInterval, Manager, Sound
  <1>4. QED
    BY <1>1, <1>2, <1>3, GetClientFacts

LEMMA PlacementsCaller ==
  ASSUME Typed, Placements, NEW c \in Callers, CallerStep(c)
  PROVE  Placements'
  <1>1. ASSUME NEW r \in BOOLEAN, NEW m, Sound(m), m.instance = mgr.instance,
               DeployToSandbox(c, r, m)
        PROVE  Placements'
    <2>1. CASE UNCHANGED <<job, loop>> /\ mgr' = m
      BY <1>1, <2>1, PlacementsFrame
    <2>2. ASSUME NEW l \in IdleLoops, NEW t, NEW again, BeginAttempt(l, r, t, again, m)
          PROVE  Placements'
      <3>1. l \in Loops /\ loop[l].stage # "attempt"
        BY DEF IdleLoops, BusyLoops
      <3>2. QED
        BY <1>1, <2>2, <3>1, PlacementsBegin
    <2>3. QED
      BY <1>1, <2>1, <2>2, DeployFacts
  <1>2. CASE Call(c)
    BY <1>1, <1>2, InstanceKept DEF Call
  <1>3. CASE HealthTick(c) \/ TickHealthy(c) \/ MasterTimeout(c)
    BY <1>3, InstanceKept, PlacementsFrame DEF HealthTick, TickHealthy, MasterTimeout
  <1>4. CASE TickUnhealthy(c)
    BY <1>1, <1>4, InstanceKept DEF TickUnhealthy
  <1>5. QED
    BY <1>2, <1>3, <1>4 DEF CallerStep

\* deploy() j gets to write to sandbox i, with the manager m.
LEMMA PlacementsWrite ==
  ASSUME Typed, Placements, NEW j \in Working, NEW m \in Manager,
         NEW i \in Instances \cup {None}, WriteStage(j, m, i),
         \/ m.instance = mgr.instance /\ (Abandoned(j) /\ i # None => i # m.instance)
         \/ /\ job[j].fresh
            /\ \A k \in Jobs \ {j} : job[k].inst # m.instance
  PROVE  Placements'
  <1> DEFINE d == [job[j] EXCEPT !.stage = "write", !.client = None, !.inst = i,
                                 !.late = job[j].fresh /\ Abandoned(j)]
  <1>1. job' = [job EXCEPT ![j] = d] /\ UNCHANGED loop
    BY DEF WriteStage
  <1>2. mgr'.instance = m.instance
    BY GetClientFacts DEF WriteStage
  <1>3. j \in Jobs /\ job[j] \in Deploy /\ job[j].stage # "free"
    BY DEF Working, Typed, TypeOK
  <1>4. /\ d.stage = "write" /\ d.inst = i /\ d.loop = job[j].loop
        /\ d.late = (job[j].fresh /\ Abandoned(j))
    BY <1>3 DEF Deploy
  <1> HIDE DEF d
  <1>5. Placed(d, mgr')
    BY <1>2, <1>3, <1>4 DEF Placed, Abandoned
  <1>6. QED
    BY <1>1, <1>2, <1>4, <1>5, PlacementsProgress

LEMMA PlacementsJob ==
  ASSUME Typed, Placements, NEW j \in Jobs, JobStep(j)
  PROVE  Placements'
  <1>1. /\ job[j] \in Deploy /\ Placed(job[j], mgr) /\ mgr \in Manager
        /\ j \in Working
    BY DEF Typed, TypeOK, Placements, JobStep, StatusHealthy, StatusUnhealthy, TokenReady,
       InstanceCreated, JobSucceeds, JobFails, AbandonedEnds, Working
  <1>2. CASE StatusHealthy(j)
    <2>1. job[j].stage = "status" /\ WriteStage(j, mgr, job[j].inst)
      BY <1>2 DEF StatusHealthy
    <2>2. Abandoned(j) /\ job[j].inst # None => job[j].inst # mgr.instance
      BY <1>1, <2>1 DEF Placed, Abandoned
    <2>3. job[j].inst \in Instances \cup {None}
      BY <1>1 DEF Deploy
    <2>4. QED
      BY <1>1, <2>1, <2>2, <2>3, PlacementsWrite
  <1>3. CASE StatusUnhealthy(j)
    <2> DEFINE d == CreateNewInstance(job[j].loop, mgr)
    <2>1. d.stage \in {"token", "create"} /\ d.loop = job[j].loop /\ d.inst = None
      BY <1>1, EnsureInstanceFacts DEF Typed, Deploy
    <2>2. d.fresh
      BY CreatedIsFresh
    <2>3. job' = [job EXCEPT ![j] = d] /\ UNCHANGED loop
      BY <1>3 DEF StatusUnhealthy
    <2>4. mgr'.instance = mgr.instance
      BY <1>3, InstanceKept DEF StatusUnhealthy
    <2> HIDE DEF d
    <2>5. Placed(d, mgr')
      BY <2>1, <2>2 DEF Placed
    <2>6. QED
      BY <1>1, <2>1, <2>3, <2>4, <2>5, PlacementsProgress
  <1>4. CASE TokenReady(j)
    <2> DEFINE d == [job[j] EXCEPT !.stage = "create", !.client = GetClient(mgr).client]
    <2>1. job[j].stage = "token" /\ job' = [job EXCEPT ![j] = d] /\ UNCHANGED loop
      BY <1>4 DEF TokenReady
    <2>2. mgr'.instance = mgr.instance
      BY <1>4, InstanceKept DEF TokenReady
    <2>3. /\ d.stage = "create" /\ d.loop = job[j].loop
          /\ d.inst = job[j].inst /\ d.fresh = job[j].fresh
      BY <1>1 DEF Deploy
    <2> HIDE DEF d
    <2>4. Placed(d, mgr')
      BY <1>1, <2>1, <2>3 DEF Placed
    <2>5. QED
      BY <1>1, <2>1, <2>2, <2>3, <2>4, PlacementsProgress
  <1>5. CASE InstanceCreated(j)
    <2> DEFINE m(i) == [mgr EXCEPT !.instance = i, !.home = job[j].client]
    <2>1. PICK i \in UnusedInstances : WriteStage(j, m(i), i)
      BY <1>5 DEF InstanceCreated
    <2>2. i \in Instances /\ \A k \in Jobs : job[k].inst # i
      BY DEF UnusedInstances
    <2>3. m(i) \in Manager /\ m(i).instance = i
      BY <1>1, <2>2 DEF Manager, Deploy
    <2>4. job[j].fresh
      BY <1>1, <1>5 DEF InstanceCreated, Placed
    <2> HIDE DEF m
    <2>5. QED
      BY <1>1, <2>1, <2>2, <2>3, <2>4, PlacementsWrite
  <1>6. CASE JobSucceeds(j)
    <2>1. mgr'.instance = mgr.instance
      BY <1>1, <1>6, InstanceKept DEF JobSucceeds, Deploy
    <2>2. \A l \in Loops : l # job[j].loop => loop'[l] = loop[l]
      BY <1>6 DEF JobSucceeds, Settle, Typed, TypeOK
    <2>3. job' = [job EXCEPT ![j] = FreeJob]
      BY <1>6 DEF JobSucceeds
    <2>4. QED
      BY <1>1, <2>1, <2>2, <2>3, PlacementsEnd
  <1>7. CASE JobFails(j)
    <2>1. mgr'.instance = None
      BY <1>1, <1>7, AfterFailureFacts DEF JobFails, FailAttempt
    <2>2. \A l \in Loops : l # job[j].loop => loop'[l] = loop[l]
      BY <1>7 DEF JobFails, FailAttempt, Typed, TypeOK
    <2>3. job' = [job EXCEPT ![j] = FreeJob]
      BY <1>7 DEF JobFails
    <2>4. QED
      BY <1>1, <2>1, <2>2, <2>3, PlacementsEnd
  <1>8. CASE AbandonedEnds(j)
    BY <1>1, <1>8, PlacementsEnd DEF AbandonedEnds
  <1>9. QED
    BY <1>2, <1>3, <1>4, <1>5, <1>6, <1>7, <1>8 DEF JobStep

LEMMA PlacementsLoop ==
  ASSUME Typed, Placements, NEW l \in Loops, LoopStep(l)
  PROVE  Placements'
  <1>1. CASE SetupDone(l)
    <2>1. \A k \in Loops : loop[k].stage = "attempt" => loop'[k].stage = "attempt"
      BY <1>1 DEF SetupDone, Settle, Typed, TypeOK
    <2>2. QED
      BY <1>1, <2>1, PlacementsFrame DEF SetupDone
  <1>2. CASE SetupFails(l)
    <2>1. mgr'.instance = None
      BY <1>2, AfterFailureFacts DEF SetupFails, FailAttempt, Typed, TypeOK
    <2>2. \A k \in Loops : loop[k].stage = "attempt" => loop'[k].stage = "attempt"
      BY <1>2 DEF SetupFails, FailAttempt, Typed, TypeOK
    <2>3. QED
      BY <1>2, <2>1, <2>2, PlacementsFrame DEF SetupFails
  <1>3. CASE BackoffDone(l)
    <2>1. PICK t : BeginAttempt(l, loop[l].redeploy, t, TRUE, mgr)
      BY <1>3 DEF BackoffDone
    <2>2. loop[l].redeploy \in BOOLEAN /\ loop[l].stage # "attempt"
      BY <1>3 DEF BackoffDone, Typed, TypeOK, RetryLoop
    <2>3. QED
      BY <2>1, <2>2, InstanceKept, PlacementsBegin
  <1>4. QED
    BY <1>1, <1>2, <1>3, PlacementsTimeout DEF LoopStep

LEMMA PlacementsInvariant == Spec => []Placements
  <1>1. Init => Placements
    BY DEF Init, Placements, Placed, Working, FreeJob
  <1>2. ASSUME Typed, Placements, [Next]_vars
        PROVE  Placements'
    <2>1. CASE InspectInstance \/ UNCHANGED vars
      BY <1>2, <2>1, InstanceKept, PlacementsFrame DEF InspectInstance, vars
    <2>2. CASE Restart
      BY <2>2 DEF Restart, Placements, Placed, Working, FreeJob
    <2>3. QED
      BY <1>2, <2>1, <2>2, PlacementsCaller, PlacementsJob, PlacementsLoop DEF Next
  <1>3. QED
    BY <1>1, <1>2, TypedInvariant, PTL DEF Spec

\* Only the start of an attempt brings a deploy() into a sandbox that another one
\* is in: the attempt is the first of a new promise, or that of a loop that waits.
LEMMA EntersByAttempt ==
  ASSUME Typed, Placements, [Next]_vars, NEW j \in Jobs, NEW k \in Jobs, j # k,
         Enters(k, job[j].inst)
  PROVE  /\ job[j].inst = mgr.instance
         /\ promise = None \/ \E l \in Loops : loop[l].stage = "backoff"
  <1> DEFINE Goal == /\ job[j].inst = mgr.instance
                     /\ promise = None \/ \E l \in Loops : loop[l].stage = "backoff"
  <1>1. job'[k].inst # job[k].inst /\ job'[k].inst = job[j].inst /\ job[j].inst # None
    BY DEF Enters
  <1>2. ASSUME NEW l \in Loops, NEW r \in BOOLEAN, NEW t, NEW again, NEW m, Sound(m),
               m.instance = mgr.instance, loop[l].stage # "attempt",
               BeginAttempt(l, r, t, again, m)
        PROVE  job[j].inst = mgr.instance
    <2>1. /\ mgr'.instance \in {None, mgr.instance}
          /\ \E n \in FreeJobs : /\ \A i \in Jobs \ {n} : job'[i] = job[i]
                                 /\ job'[n].inst = mgr'.instance
      BY <1>2, PlacementsBegin
    <2>2. QED
      BY <1>1, <2>1
  <1>3. ASSUME NEW c \in Callers, CallerStep(c)
        PROVE  Goal
    <2>1. PICK r \in BOOLEAN, m \in {mgr, ClearHealthCheckInterval(mgr)} :
            DeployToSandbox(c, r, m)
      BY <1>1, <1>3
      DEF CallerStep, Call, HealthTick, TickHealthy, TickUnhealthy, MasterTimeout
    <2>2. Sound(m) /\ m.instance = mgr.instance
      BY InstanceKept
    <2>3. PICK l \in IdleLoops, t \in {1}, again \in {FALSE} :
            promise = None /\ BeginAttempt(l, r, t, again, m)
      BY <1>1, <2>1, <2>2, DeployFacts
    <2>4. l \in Loops /\ loop[l].stage # "attempt"
      BY DEF IdleLoops, BusyLoops
    <2>5. QED
      BY <1>2, <2>2, <2>3, <2>4
  <1>4. ASSUME NEW n \in Jobs, JobStep(n)
        PROVE  FALSE
    <2>1. job[n] \in Deploy /\ job[k] \in Deploy
      BY DEF Typed, TypeOK
    <2>2. CASE InstanceCreated(n)
      <3>1. PICK i \in UnusedInstances : \E m : WriteStage(n, m, i)
        BY <2>2 DEF InstanceCreated
      <3>2. i # job[j].inst
        BY DEF UnusedInstances
      <3>3. job'[k].inst \in {job[k].inst, i}
        BY <2>1, <3>1 DEF WriteStage, Typed, TypeOK, Deploy
      <3>4. QED
        BY <1>1, <3>2, <3>3
    <2>3. CASE StatusHealthy(n)
      BY <1>1, <2>1, <2>3 DEF StatusHealthy, WriteStage, Typed, TypeOK, Deploy
    <2>4. CASE StatusUnhealthy(n)
      <3>1. CreateNewInstance(job[n].loop, mgr).inst = None
        BY <2>1, EnsureInstanceFacts DEF Typed, TypeOK, Deploy
      <3>2. QED
        BY <1>1, <2>4, <3>1 DEF StatusUnhealthy, Typed, TypeOK
    <2>5. CASE TokenReady(n)
      BY <1>1, <2>1, <2>5 DEF TokenReady, Typed, TypeOK, Deploy
    <2>6. CASE JobSucceeds(n) \/ JobFails(n) \/ AbandonedEnds(n)
      <3>1. job' = [job EXCEPT ![n] = FreeJob]
        BY <2>6 DEF JobSucceeds, JobFails, AbandonedEnds
      <3>2. QED
        BY <1>1, <3>1 DEF FreeJob, Typed, TypeOK
    <2>7. QED
      BY <1>4, <2>2, <2>3, <2>4, <2>5, <2>6 DEF JobStep
  <1>5. ASSUME NEW l \in Loops, LoopStep(l)
        PROVE  Goal
    <2>1. CASE AttemptTimeout(l)
      <3>1. job'[k].inst = job[k].inst
        BY <2>1 DEF AttemptTimeout, Typed, TypeOK, Deploy
      <3>2. QED
        BY <1>1, <3>1
    <2>2. CASE SetupDone(l) \/ SetupFails(l)
      BY <1>1, <2>2 DEF SetupDone, SetupFails
    <2>3. CASE BackoffDone(l)
      <3>1. loop[l].stage = "backoff" /\ loop[l].redeploy \in BOOLEAN
        BY <2>3 DEF BackoffDone, Typed, TypeOK, RetryLoop
      <3>2. PICK t : BeginAttempt(l, loop[l].redeploy, t, TRUE, mgr)
        BY <2>3 DEF BackoffDone
      <3>3. QED
        BY <1>2, <3>1, <3>2, InstanceKept
    <2>4. QED
      BY <1>5, <2>1, <2>2, <2>3 DEF LoopStep
  <1>6. CASE InspectInstance \/ UNCHANGED vars
    BY <1>1, <1>6 DEF InspectInstance, vars
  <1>7. CASE Restart
    BY <1>1, <1>7 DEF Restart, FreeJob
  <1>8. QED
    BY <1>3, <1>4, <1>5, <1>6, <1>7 DEF Next

\* When two deploy() executions come to work in one sandbox, the first either
\* created it after its attempt had timed out, or belongs to one of two loops, of
\* which one has lost its owner.
THEOREM TwoWritersExplained == Spec => MeetingsExplained
  <1>1. ASSUME Typed, Placements, [Next]_vars, NEW j \in Jobs, NEW k \in Jobs, j # k,
               Enters(k, job[j].inst)
        PROVE  IF Abandoned(j) THEN job[j].late ELSE OlderLoops # {}
    <2>1. /\ job[j].inst = mgr.instance
          /\ promise = None \/ \E l \in Loops : loop[l].stage = "backoff"
      BY <1>1, EntersByAttempt
    <2>2. Placed(job[j], mgr) /\ job[j].inst # None /\ job[j] \in Deploy
      BY <1>1 DEF Enters, Placements, Typed, TypeOK
    <2>3. j \in Working
      BY <2>2 DEF Placed, Working
    <2>4. CASE Abandoned(j)
      BY <2>1, <2>2, <2>4 DEF Placed, Abandoned
    <2>5. CASE ~Abandoned(j)
      <3>1. job[j].loop \in Loops /\ loop[job[j].loop].stage = "attempt"
        BY <1>1, <2>2, <2>3, <2>5 DEF Placements, Abandoned, Working, Deploy
      <3>2. job[j].loop \in BusyLoops
        BY <3>1 DEF BusyLoops
      <3>3. CASE promise = None
        <4>1. job[j].loop # promise
          BY <3>1, <3>3, DeploymentAssumption
        <4>2. QED
          BY <2>5, <3>2, <4>1 DEF OlderLoops
      <3>4. ASSUME NEW l \in Loops, loop[l].stage = "backoff"
            PROVE  OlderLoops # {}
        <4>1. l \in BusyLoops /\ l # job[j].loop
          BY <3>1, <3>4 DEF BusyLoops
        <4>2. QED
          BY <3>2, <4>1 DEF OlderLoops
      <3>5. QED
        BY <2>1, <2>5, <3>3, <3>4
    <2>6. QED
      BY <2>4, <2>5
  <1>2. Typed /\ Placements /\ [Next]_vars =>
          [\A j, k \in Jobs :
             j # k /\ Enters(k, job[j].inst)
             => IF Abandoned(j) THEN job[j].late ELSE OlderLoops # {}]_vars
    BY <1>1
  <1>3. QED
    BY <1>2, TypedInvariant, PlacementsInvariant, PTL DEF Spec, MeetingsExplained

-------------------------------------------------------------------------------
(* Undisturbed deployments *)

\* A running deploy() against the manager m: what it is about to store, write to
\* or put the health timer on is what m.instance and m.session say.
JobFits(d, m) ==
  /\ d.stage \in {"token", "create"} => d.fresh
  /\ d.stage = "create" => d.client = m.session
  /\ d.stage \in {"status", "write"} => d.inst = m.instance /\ m.instance # None
  /\ d.stage = "status" \/ (d.stage = "write" /\ ~d.fresh)
       => m.interval \in {None, m.instance}

\* A loop between attempts has no instance; one that runs setup commands has
\* put the timer on it.
LoopFits(stage, m) ==
  /\ stage = "setup" => m.instance # None /\ m.interval = m.instance
  /\ stage = "backoff" => m.instance = None

\* What the timer watches while nothing is being deployed.
RestFits(success, m) ==
  IF success THEN m.instance # None /\ m.interval = m.instance
             ELSE m.interval = None

\* Only the promised loop runs, and at most one deploy(), awaited by it.
OneAtWork ==
  /\ BusyLoops \subseteq {promise}
  /\ \A j \in Working : job[j].loop # None /\ loop[job[j].loop].stage = "attempt"
  /\ \A j, k \in Working : j = k

\* The inductive invariant of a manager that nothing has disturbed.
Calm ==
  /\ OneAtWork
  /\ mgr.instance # None => mgr.home = mgr.session
  /\ \A j \in Working : JobFits(job[j], mgr)
  /\ \A l \in Loops : LoopFits(loop[l].stage, mgr)
  /\ BusyLoops = {} => RestFits(deployed, mgr)

CalmUnlessDisturbed == disturbed \/ Calm

\* While undisturbed, a deploy() at work is awaited by the promised loop, and
\* it is the only one.
LEMMA CalmWorker ==
  ASSUME Typed, Calm, NEW j \in Working
  PROVE  /\ j \in Jobs /\ job[j] \in Deploy
         /\ promise \in Loops
         /\ job[j].loop = promise
         /\ loop[promise].stage = "attempt"
         /\ BusyLoops = {promise}
         /\ Working = {j}
  <1>1. j \in Jobs /\ job[j] \in Deploy /\ job[j].stage # "free"
    BY DEF Working, Typed, TypeOK
  <1>2. job[j].loop \in Loops /\ loop[job[j].loop].stage = "attempt"
    BY <1>1 DEF Calm, OneAtWork, Deploy
  <1>3. job[j].loop \in BusyLoops
    BY <1>2 DEF BusyLoops
  <1>4. job[j].loop = promise /\ BusyLoops = {promise}
    BY <1>3 DEF Calm, OneAtWork
  <1>5. Working = {j}
    BY DEF Calm, OneAtWork
  <1>6. QED
    BY <1>1, <1>2, <1>4, <1>5

\* While undisturbed, a loop that waits or runs setup commands is the only one,
\* and no deploy() is at work.
LEMMA CalmLoop ==
  ASSUME Typed, Calm, NEW l \in Loops, loop[l].stage \in {"setup", "backoff"}
  PROVE  promise = l /\ BusyLoops = {l} /\ Working = {}
  <1>1. l \in BusyLoops
    BY DEF BusyLoops
  <1>2. promise = l /\ BusyLoops = {l}
    BY <1>1 DEF Calm, OneAtWork
  <1>3. ASSUME NEW j \in Working
        PROVE  FALSE
    BY <1>2, <1>3, CalmWorker
  <1>4. QED
    BY <1>2, <1>3

\* Nothing promised: nothing runs.
LEMMA CalmRest ==
  ASSUME Typed, Calm, promise = None
  PROVE  BusyLoops = {} /\ Working = {} /\ RestFits(deployed, mgr)
  <1>1. BusyLoops = {}
    BY DeploymentAssumption DEF Calm, OneAtWork, BusyLoops
  <1>2. ASSUME NEW j \in Working
        PROVE  FALSE
    BY <1>1, <1>2, CalmWorker
  <1>3. QED
    BY <1>1, <1>2 DEF Calm

\* A step that at most looks up the client keeps everything.
LEMMA CalmFrame ==
  ASSUME Calm, UNCHANGED <<promise, loop, job, deployed>>,
         mgr'.session = mgr.session, mgr'.instance = mgr.instance,
         mgr'.home = mgr.home, mgr'.interval = mgr.interval
  PROVE  Calm'
  BY DEF Calm, OneAtWork, Working, BusyLoops, JobFits, LoopFits, RestFits

\* The one deploy() at work moves on, and changes the manager as it needs.
LEMMA CalmProgress ==
  ASSUME Typed, Calm, NEW j \in Working, NEW d,
         job' = [job EXCEPT ![j] = d], UNCHANGED <<promise, loop, deployed>>,
         d.loop = job[j].loop, JobFits(d, mgr'),
         mgr'.instance # None => mgr'.home = mgr'.session
  PROVE  Calm'
  <1>1. /\ j \in Jobs /\ job[j].loop = promise /\ promise \in Loops
        /\ loop[promise].stage = "attempt"
        /\ BusyLoops = {promise} /\ Working = {j}
    BY CalmWorker
  <1>2. job'[j] = d /\ Working' \subseteq {j} /\ BusyLoops' = {promise}
    BY <1>1 DEF Working, BusyLoops, Typed, TypeOK
  <1>3. OneAtWork'
    BY <1>1, <1>2, DeploymentAssumption DEF OneAtWork
  <1>4. \A l \in Loops : LoopFits(loop'[l].stage, mgr')
    BY <1>1 DEF LoopFits, BusyLoops
  <1>5. \A k \in Working' : JobFits(job'[k], mgr')
    BY <1>2
  <1>6. BusyLoops' # {}
    BY <1>2
  <1>7. QED
    BY <1>3, <1>4, <1>5, <1>6 DEF Calm

\* The running loop goes to another stage with no deploy() left at work.
LEMMA CalmLoopMoves ==
  ASSUME Typed, NEW l \in Loops, BusyLoops \subseteq {l}, NEW s \in {"setup", "backoff"},
         loop' = [loop EXCEPT ![l].stage = s], promise' = l, Working' = {},
         LoopFits(s, mgr'),
         mgr'.instance # None => mgr'.home = mgr'.session
  PROVE  Calm'
  <1>1. \A k \in Loops : k # l => loop'[k].stage = "done"
    BY DEF BusyLoops, Typed, TypeOK, RetryLoop
  <1>2. loop'[l].stage = s
    BY DEF Typed, TypeOK, RetryLoop
  <1>3. BusyLoops' = {l}
    BY <1>1, <1>2 DEF BusyLoops
  <1>4. OneAtWork'
    BY <1>3 DEF OneAtWork
  <1>5. \A k \in Loops : LoopFits(loop'[k].stage, mgr')
    BY <1>1, <1>2 DEF LoopFits
  <1>6. QED
    BY <1>3, <1>4, <1>5 DEF Calm

\* The running loop ends with the timer on the agent's instance.
LEMMA CalmSettles ==
  ASSUME Typed, NEW l \in Loops, BusyLoops \subseteq {l}, Settle(l), Working' = {},
         RestFits(TRUE, mgr'), mgr'.home = mgr'.session
  PROVE  Calm'
  <1>1. \A k \in Loops : loop'[k].stage = "done"
    BY DEF Settle, BusyLoops, DoneLoop, Typed, TypeOK
  <1>2. BusyLoops' = {} /\ deployed' = TRUE
    BY <1>1 DEF BusyLoops, Settle
  <1>3. OneAtWork'
    BY <1>2 DEF OneAtWork
  <1>4. \A k \in Loops : LoopFits(loop'[k].stage, mgr')
    BY <1>1 DEF LoopFits
  <1>5. QED
    BY <1>2, <1>3, <1>4 DEF Calm

\* An attempt fails: its deploy(), if there was one, is over.
LEMMA CalmFails ==
  ASSUME Typed, Calm, NEW l \in Loops, BusyLoops = {l}, promise = l,
         NEW e, FailAttempt(l, e), Working' = {}
  PROVE  Calm'
  <1>1. mgr'.instance = None
    BY AfterFailureFacts DEF FailAttempt, Typed, TypeOK
  <1>2. LoopFits("backoff", mgr')
    BY <1>1 DEF LoopFits
  <1>3. loop' = [loop EXCEPT ![l].stage = "backoff"] /\ promise' = l
    BY DEF FailAttempt
  <1>4. QED
    BY <1>1, <1>2, <1>3, CalmLoopMoves

\* An attempt begins with no deploy() at work.
LEMMA CalmBegins ==
  ASSUME Typed, NEW l \in Loops, BusyLoops \subseteq {l}, Working = {}, promise' = l,
         NEW r \in BOOLEAN, NEW t, NEW again, NEW m, Sound(m),
         BeginAttempt(l, r, t, again, m),
         m.instance # None => /\ m.home = m.session
                              /\ m.interval \in {None, m.instance}
  PROVE  Calm'
  <1> DEFINE d == EnsureInstance(l, mgr')
  <1>1. Begun(l, m)
    BY BeginAttemptFacts
  <1>2. PICK k \in FreeJobs : job' = [job EXCEPT ![k] = d]
    BY <1>1 DEF Begun
  <1>3. /\ d.loop = l
        /\ d.stage \in {"status", "token", "create"}
        /\ d.stage = "status" <=> mgr'.instance # None
        /\ d.inst = mgr'.instance
        /\ d.stage = "create" => d.client = mgr'.session
        /\ mgr'.interval = m.interval
        /\ \/ mgr'.instance = None /\ mgr'.home = None
           \/ /\ mgr'.instance = m.instance /\ mgr'.home = m.home
              /\ mgr'.session = m.session
    BY <1>1 DEF Begun
  <1>4. d.stage \in {"token", "create"} => d.fresh
    BY CreatedIsFresh
  <1> HIDE DEF d
  <1>5. JobFits(d, mgr')
    BY <1>3, <1>4 DEF JobFits
  <1>6. k \in Jobs /\ job'[k] = d /\ Working' \subseteq {k}
    BY <1>2 DEF FreeJobs, Working, Typed, TypeOK
  <1>7. loop'[l].stage = "attempt" /\ \A i \in Loops : i # l => loop'[i].stage = "done"
    BY DEF BeginAttempt, BusyLoops, Typed, TypeOK, RetryLoop
  <1>8. BusyLoops' = {l}
    BY <1>7 DEF BusyLoops
  <1>9. OneAtWork'
    BY <1>3, <1>6, <1>7, <1>8, DeploymentAssumption DEF OneAtWork
  <1>10. \A i \in Loops : LoopFits(loop'[i].stage, mgr')
    BY <1>7 DEF LoopFits
  <1>11. \A i \in Working' : JobFits(job'[i], mgr')
    BY <1>5, <1>6
  <1>12. QED
    BY <1>3, <1>8, <1>9, <1>10, <1>11 DEF Calm

\* A deployment starts: one was not running.
LEMMA CalmLaunch ==
  ASSUME Typed, Calm, NEW c \in Callers, NEW r \in BOOLEAN, NEW m, Sound(m),
         LaunchDeployment(c, r, m), m.session = mgr.session,
         m.instance = mgr.instance, m.home = mgr.home,
         m.interval \in {None, mgr.interval}
  PROVE  Calm'
  <1>1. BusyLoops = {} /\ Working = {} /\ RestFits(deployed, mgr)
    BY CalmRest DEF LaunchDeployment
  <1>2. PICK l \in IdleLoops : BeginAttempt(l, r, 1, FALSE, m) /\ promise' = l
    BY DEF LaunchDeployment
  <1>3. l \in Loops /\ BusyLoops \subseteq {l}
    BY <1>1, <1>2 DEF IdleLoops
  <1>4. m.instance # None => m.home = m.session /\ m.interval \in {None, m.instance}
    BY <1>1 DEF Calm, RestFits
  <1>5. QED
    BY <1>1, <1>2, <1>3, <1>4, CalmBegins

\* A caller that neither gives up nor has a tick answered into a deployment.
LEMMA CalmCaller ==
  ASSUME Typed, Ownership, Calm, ~disturbed', NEW c \in Callers, CallerStep(c)
  PROVE  Calm'
  <1>1. Sound(mgr) /\ mgr \in Manager
    BY DEF Typed, TypeOK, ClientTracksSession, Sound
  <1>2. CASE Call(c)
    <2>1. PICK r \in BOOLEAN : DeployToSandbox(c, r, mgr)
      BY <1>2 DEF Call
    <2>2. CASE JoinDeployment(c, mgr)
      BY <2>1, <2>2, CalmFrame DEF JoinDeployment, DeployToSandbox
    <2>3. CASE LaunchDeployment(c, r, mgr)
      BY <1>1, <2>3, CalmLaunch
    <2>4. QED
      BY <2>1, <2>2, <2>3 DEF DeployToSandbox
  <1>3. CASE HealthTick(c)
    BY <1>1, <1>3, GetClientFacts, CalmFrame DEF HealthTick
  <1>4. CASE TickHealthy(c)
    BY <1>4, CalmFrame DEF TickHealthy
  <1>5. CASE TickUnhealthy(c)
    <2> DEFINE m == ClearHealthCheckInterval(mgr)
    <2>1. BusyLoops = {}
      BY <1>5 DEF TickUnhealthy
    <2>2. promise = None
      BY <2>1 DEF Ownership, SingleOwner
    <2>3. LaunchDeployment(c, FALSE, m)
      BY <1>5, <2>2 DEF TickUnhealthy, DeployToSandbox, JoinDeployment
    <2>4. /\ Sound(m) /\ m.session = mgr.session /\ m.instance = mgr.instance
          /\ m.home = mgr.home /\ m.interval = None
      BY <1>1 DEF ClearHealthCheckInterval, Sound, Manager
    <2> HIDE DEF m
    <2>5. QED
      BY <2>3, <2>4, CalmLaunch
  <1>6. CASE MasterTimeout(c)
    BY <1>6, CalmFrame DEF MasterTimeout
  <1>7. QED
    BY <1>2, <1>3, <1>4, <1>5, <1>6 DEF CallerStep

\* deploy() reaches its writes, into the agent's instance.
LEMMA CalmWrites ==
  ASSUME Typed, Calm, NEW j \in Working, NEW m \in Manager,
         NEW i \in Instances, WriteStage(j, m, i),
         m.instance = i, m.home = m.session,
         job[j].fresh \/ m.interval \in {None, i}
  PROVE  Calm'
  <1> DEFINE d == [job[j] EXCEPT !.stage = "write", !.client = None, !.inst = i,
                                 !.late = job[j].fresh /\ Abandoned(j)]
  <1>1. /\ mgr'.session = m.session /\ mgr'.instance = i
        /\ mgr'.home = m.home /\ mgr'.interval = m.interval
    BY GetClientFacts DEF WriteStage
  <1>2. /\ job' = [job EXCEPT ![j] = d]
        /\ UNCHANGED <<promise, loop, deployed>>
    BY DEF WriteStage
  <1>3. /\ d.stage = "write" /\ d.inst = i
        /\ d.loop = job[j].loop /\ d.fresh = job[j].fresh
    BY CalmWorker DEF Deploy
  <1>4. i # None
    BY DeploymentAssumption
  <1> HIDE DEF d
  <1>5. JobFits(d, mgr')
    BY <1>1, <1>3, <1>4 DEF JobFits
  <1>6. QED
    BY <1>1, <1>2, <1>3, <1>5, CalmProgress

LEMMA CalmJob ==
  ASSUME Typed, Calm, ~disturbed', NEW j \in Jobs, JobStep(j)
  PROVE  Calm'
  <1>1. /\ Sound(mgr) /\ mgr \in Manager /\ GetClient(mgr).client = mgr.session
        /\ GetClient(mgr).session = mgr.session
        /\ GetClient(mgr).instance = mgr.instance
        /\ GetClient(mgr).home = mgr.home
        /\ GetClient(mgr).interval = mgr.interval
    BY GetClientFacts DEF Typed, TypeOK, ClientTracksSession, Sound
  <1>2. job[j].stage # "free"
    BY DEF JobStep, StatusHealthy, StatusUnhealthy, TokenReady, InstanceCreated,
           JobSucceeds, JobFails, AbandonedEnds
  <1>3. j \in Working
    BY <1>2 DEF Working
  <1>4. /\ job[j] \in Deploy
        /\ job[j].loop = promise /\ promise \in Loops
        /\ loop[promise].stage = "attempt"
        /\ BusyLoops = {promise} /\ Working = {j}
    BY <1>3, CalmWorker
  <1>5. JobFits(job[j], mgr) /\ (mgr.instance # None => mgr.home = mgr.session)
    BY <1>3 DEF Calm
  <1>6. job' = [job EXCEPT ![j] = FreeJob] => Working' = {}
    BY <1>4 DEF Working, FreeJob, Typed, TypeOK
  <1>7. CASE StatusHealthy(j)
    <2>1. job[j].inst = mgr.instance /\ mgr.instance # None
          /\ mgr.interval \in {None, mgr.instance}
      BY <1>5, <1>7 DEF StatusHealthy, JobFits
    <2>2. mgr.instance \in Instances /\ WriteStage(j, mgr, mgr.instance)
      BY <1>1, <1>7, <2>1 DEF StatusHealthy, Manager
    <2>3. QED
      BY <1>1, <1>3, <1>5, <2>1, <2>2, CalmWrites
  <1>8. CASE StatusUnhealthy(j)
    <2> DEFINE d == CreateNewInstance(job[j].loop, mgr)
    <2>1. /\ d.stage \in {"token", "create"} /\ d.loop = job[j].loop
          /\ d.stage = "create" => d.client = mgr.session
      BY <1>1, <1>4, EnsureInstanceFacts DEF Typed
    <2>2. d.fresh
      BY CreatedIsFresh
    <2>3. /\ mgr'.session = mgr.session /\ mgr'.instance = mgr.instance
          /\ mgr'.home = mgr.home
      BY <1>1, <1>8 DEF StatusUnhealthy
    <2>4. job' = [job EXCEPT ![j] = d] /\ UNCHANGED <<promise, loop, deployed>>
      BY <1>8 DEF StatusUnhealthy
    <2> HIDE DEF d
    <2>5. JobFits(d, mgr')
      BY <2>1, <2>2, <2>3 DEF JobFits
    <2>6. QED
      BY <1>3, <1>5, <2>1, <2>3, <2>4, <2>5, CalmProgress
  <1>9. CASE TokenReady(j)
    <2> DEFINE d == [job[j] EXCEPT !.stage = "create", !.client = GetClient(mgr).client]
    <2>1. job[j].fresh
      BY <1>5, <1>9 DEF TokenReady, JobFits
    <2>2. /\ d.stage = "create" /\ d.client = mgr.session
          /\ d.loop = job[j].loop /\ d.fresh = job[j].fresh
      BY <1>1, <1>4 DEF Deploy
    <2>3. mgr' = GetClient(mgr) /\ UNCHANGED <<promise, loop, deployed>>
      BY <1>9 DEF TokenReady
    <2>4. job' = [job EXCEPT ![j] = d]
      BY <1>9 DEF TokenReady, Typed, TypeOK
    <2> HIDE DEF d
    <2>5. JobFits(d, mgr')
      BY <1>1, <2>1, <2>2, <2>3 DEF JobFits
    <2>6. QED
      BY <1>1, <1>3, <1>5, <2>2, <2>3, <2>4, <2>5, CalmProgress
  <1>10. CASE InstanceCreated(j)
    <2>1. PICK i \in UnusedInstances :
            WriteStage(j, [mgr EXCEPT !.instance = i, !.home = job[j].client], i)
      BY <1>10 DEF InstanceCreated
    <2>2. job[j].client = mgr.session /\ job[j].fresh
      BY <1>5, <1>10 DEF InstanceCreated, JobFits
    <2> DEFINE m == [mgr EXCEPT !.instance = i, !.home = job[j].client]
    <2>3. i \in Instances
      BY DEF UnusedInstances
    <2>4. m \in Manager /\ m.instance = i /\ m.home = m.session
      BY <1>1, <2>2, <2>3 DEF Manager
    <2> HIDE DEF m
    <2>5. WriteStage(j, m, i)
      BY <2>1 DEF m
    <2>6. QED
      BY <1>3, <2>2, <2>3, <2>4, <2>5, CalmWrites
  <1>11. CASE JobSucceeds(j)
    <2>1. job' = [job EXCEPT ![j] = FreeJob]
      BY <1>11 DEF JobSucceeds
    <2>2. job[j].inst = mgr.instance /\ mgr.instance # None
      BY <1>5, <1>11 DEF JobSucceeds, JobFits
    <2>3. /\ mgr'.session = mgr.session /\ mgr'.home = mgr.home
          /\ mgr'.instance = mgr.instance /\ mgr'.interval = mgr.instance
      <3>1. CASE MustWatch(j)
        <4> DEFINE m == StartHealthCheckInterval(mgr, job[j].inst)
        <4>1. /\ m \in Manager /\ m.session = mgr.session /\ m.home = mgr.home
              /\ m.instance = mgr.instance /\ m.interval = mgr.instance
          BY <1>1, <2>2 DEF StartHealthCheckInterval, Manager
        <4>2. mgr' = GetClient(m)
          BY <1>11, <3>1 DEF JobSucceeds
        <4> HIDE DEF m
        <4>3. QED
          BY <4>1, <4>2, GetClientFacts
      <3>2. CASE ~MustWatch(j)
        <4>1. ~job[j].fresh /\ mgr.interval # None /\ mgr' = mgr
          BY <1>11, <3>2 DEF JobSucceeds, MustWatch
        <4>2. job[j].stage = "write"
          BY <1>11 DEF JobSucceeds
        <4>3. QED
          BY <1>5, <4>1, <4>2 DEF JobFits
      <3>3. QED
        BY <3>1, <3>2
    <2>4. Working' = {} /\ BusyLoops \subseteq {promise}
      BY <1>4, <1>6, <2>1
    <2>5. CASE Settle(promise)
      <3>1. RestFits(TRUE, mgr') /\ mgr'.home = mgr'.session
        BY <1>5, <2>2, <2>3 DEF RestFits
      <3>2. QED
        BY <1>4, <2>4, <2>5, <3>1, CalmSettles
    <2>6. CASE /\ loop' = [loop EXCEPT ![promise].stage = "setup"]
               /\ UNCHANGED <<promise, role, waits, deployed>>
      <3>1. LoopFits("setup", mgr') /\ mgr'.home = mgr'.session
        BY <1>5, <2>2, <2>3 DEF LoopFits
      <3>2. QED
        BY <1>4, <2>4, <2>6, <3>1, CalmLoopMoves
    <2>7. QED
      BY <1>4, <1>11, <2>5, <2>6 DEF JobSucceeds
  <1>12. CASE JobFails(j)
    <2>1. PICK e \in BOOLEAN : FailAttempt(promise, e)
      BY <1>4, <1>12 DEF JobFails
    <2>2. Working' = {}
      BY <1>6, <1>12 DEF JobFails
    <2>3. QED
      BY <1>4, <2>1, <2>2, CalmFails
  <1>13. CASE AbandonedEnds(j)
    BY <1>4, <1>13, DeploymentAssumption DEF AbandonedEnds
  <1>14. QED
    BY <1>7, <1>8, <1>9, <1>10, <1>11, <1>12, <1>13 DEF JobStep

LEMMA CalmLoopStep ==
  ASSUME Typed, Calm, ~disturbed', NEW l \in Loops, LoopStep(l)
  PROVE  Calm'
  <1>1. Sound(mgr) /\ loop[l] \in RetryLoop
    BY DEF Typed, TypeOK, ClientTracksSession, Sound
  <1>2. LoopFits(loop[l].stage, mgr) /\ (mgr.instance # None => mgr.home = mgr.session)
    BY DEF Calm
  <1>3. CASE AttemptTimeout(l)
    BY <1>3 DEF AttemptTimeout
  <1>4. CASE SetupDone(l)
    <2>1. promise = l /\ BusyLoops = {l} /\ Working = {}
      BY <1>4, CalmLoop DEF SetupDone
    <2>2. RestFits(TRUE, mgr) /\ mgr.home = mgr.session
      BY <1>2, <1>4 DEF SetupDone, LoopFits, RestFits
    <2>3. Settle(l) /\ mgr' = mgr /\ Working' = {}
      BY <1>4, <2>1 DEF SetupDone, Working
    <2>4. QED
      BY <2>1, <2>2, <2>3, CalmSettles
  <1>5. CASE SetupFails(l)
    <2>1. promise = l /\ BusyLoops = {l} /\ Working = {}
      BY <1>5, CalmLoop DEF SetupFails
    <2>2. PICK e \in BOOLEAN : FailAttempt(l, e)
      BY <1>5 DEF SetupFails
    <2>3. Working' = {}
      BY <1>5, <2>1 DEF SetupFails, Working
    <2>4. QED
      BY <2>1, <2>2, <2>3, CalmFails
  <1>6. CASE BackoffDone(l)
    <2>1. promise = l /\ BusyLoops = {l} /\ Working = {}
      BY <1>6, CalmLoop DEF BackoffDone
    <2>2. BeginAttempt(l, loop[l].redeploy, NextTry(loop[l].tries), TRUE, mgr)
      BY <1>6 DEF BackoffDone
    <2>3. promise' = l
      BY <1>6, <2>1 DEF BackoffDone
    <2>4. mgr.instance = None
      BY <1>2, <1>6 DEF BackoffDone, LoopFits
    <2>5. loop[l].redeploy \in BOOLEAN
      BY <1>1 DEF RetryLoop
    <2>6. QED
      BY <1>1, <2>1, <2>2, <2>3, <2>4, <2>5, CalmBegins
  <1>7. QED
    BY <1>3, <1>4, <1>5, <1>6 DEF LoopStep

LEMMA CalmElsewhere ==
  ASSUME Typed, Calm, InspectInstance \/ Restart \/ UNCHANGED vars
  PROVE  Calm'
  <1>1. CASE InspectInstance
    BY <1>1, GetClientFacts, CalmFrame DEF InspectInstance, Typed, TypeOK
  <1>2. CASE Restart
    <2>1. /\ mgr'.interval = None /\ mgr'.instance = mgr.instance
          /\ mgr'.home = mgr.home /\ mgr'.session = mgr.session
      BY <1>2 DEF Restart, Typed, TypeOK, Manager
    <2>2. Working' = {} /\ BusyLoops' = {} /\ deployed' = FALSE
      BY <1>2 DEF Restart, Working, BusyLoops, FreeJob, DoneLoop
    <2>3. \A l \in Loops : loop'[l].stage = "done"
      BY <1>2 DEF Restart, DoneLoop
    <2>4. QED
      BY <2>1, <2>2, <2>3 DEF Calm, OneAtWork, LoopFits, RestFits
  <1>3. CASE UNCHANGED vars
    BY <1>3, CalmFrame DEF vars
  <1>4. QED
    BY <1>1, <1>2, <1>3

\* What has been disturbed stays so.
LEMMA DisturbedStays ==
  ASSUME [Next]_vars, disturbed
  PROVE  disturbed'
  BY DEF Next, vars, CallerStep, JobStep, LoopStep, Call, HealthTick, TickHealthy,
         TickUnhealthy, MasterTimeout, StatusHealthy, StatusUnhealthy, TokenReady,
         InstanceCreated, WriteStage, JobSucceeds, JobFails, AbandonedEnds,
         AttemptTimeout, SetupDone, SetupFails, BackoffDone, InspectInstance, Restart

\* A behaviour is calm until something disturbs it.
LEMMA CalmInvariant == Spec => []CalmUnlessDisturbed
  <1>1. Init => CalmUnlessDisturbed
    <2>1. Init => BusyLoops = {} /\ Working = {}
      BY DEF Init, BusyLoops, Working, DoneLoop, FreeJob
    <2>2. QED
      BY <2>1 DEF Init, CalmUnlessDisturbed, Calm, OneAtWork, LoopFits, RestFits,
                  DoneLoop
  <1>2. Typed /\ Ownership /\ CalmUnlessDisturbed /\ [Next]_vars
          => CalmUnlessDisturbed'
    <2> SUFFICES ASSUME Typed, Ownership, CalmUnlessDisturbed, [Next]_vars, ~disturbed'
                 PROVE  Calm'
      BY DEF CalmUnlessDisturbed
    <2>1. Calm
      BY DisturbedStays DEF CalmUnlessDisturbed
    <2>2. QED
      BY <2>1, CalmCaller, CalmJob, CalmLoopStep, CalmElsewhere DEF Next
  <1>3. QED
    BY <1>1, <1>2, TypedInvariant, OwnershipInvariant, PTL DEF Spec

\* While nothing outlives a timeout, the agent's instance is one its own
\* session's client created: no deployment goes to another session's container.
THEOREM InstanceIsTheSessions == Spec => []InstanceOfSession
  <1>1. CalmUnlessDisturbed => InstanceOfSession
    BY DEF CalmUnlessDisturbed, Calm, InstanceOfSession, Undisturbed
  <1>2. QED
    BY <1>1, CalmInvariant, PTL

\* While nothing outlives a timeout, a successful deployment leaves the health
\* timer on exactly the agent's instance, until the next one or a restart.
THEOREM TimerWatchesInstance == Spec => []SteadyState
  <1>1. CalmUnlessDisturbed => SteadyState
    BY DEF CalmUnlessDisturbed, Calm, RestFits, SteadyState, Undisturbed
  <1>2. QED
    BY <1>1, CalmInvariant, PTL

-------------------------------------------------------------------------------
(* A new session id can always be found *)

\* Session ids are as many as the agent, the client of its instance and the
\* deploy() executions can hold between them, and one more.  The code makes up
\* a new one whenever it resets the session.
EnoughSessions ==
  /\ IsFiniteSet(Jobs)
  /\ IsFiniteSet(Sessions) => Cardinality(Sessions) > Cardinality(Jobs) + 2

\* The client in the cache is the current session's, so that no more ids are held.
LEMMA FreshSession ==
  ASSUME EnoughSessions, Typed
  PROVE  UnusedSessions # {}
  <1> DEFINE J == {job[j].client : j \in Jobs}
             H == {mgr.home} \cup J
             U == {mgr.session} \cup H
  <1>1. IsFiniteSet(J) /\ Cardinality(J) <= Cardinality(Jobs)
    <2> DEFINE f == [j \in Jobs |-> job[j].client]
    <2>1. f \in Surjection(Jobs, J)
      BY DEF Surjection
    <2>2. QED
      BY <2>1, FS_Surjection DEF EnoughSessions
  <1> HIDE DEF J
  <1>2. IsFiniteSet(H) /\ Cardinality(H) <= Cardinality(J) + 1
    <2>1. IsFiniteSet(J \cup {mgr.home})
          /\ (Cardinality(J \cup {mgr.home}) = Cardinality(J)
              \/ Cardinality(J \cup {mgr.home}) = Cardinality(J) + 1)
      BY <1>1, FS_AddElement
    <2>2. H = J \cup {mgr.home}
      OBVIOUS
    <2>3. Cardinality(J) \in Nat
      BY <1>1, FS_CardinalityType
    <2>4. QED
      BY <2>1, <2>2, <2>3
  <1> HIDE DEF H
  <1>3. IsFiniteSet(U) /\ Cardinality(U) <= Cardinality(H) + 1
    <2>1. IsFiniteSet(H \cup {mgr.session})
          /\ (Cardinality(H \cup {mgr.session}) = Cardinality(H)
              \/ Cardinality(H \cup {mgr.session}) = Cardinality(H) + 1)
      BY <1>2, FS_AddElement
    <2>2. U = H \cup {mgr.session}
      OBVIOUS
    <2>3. Cardinality(H) \in Nat
      BY <1>2, FS_CardinalityType
    <2>4. QED
      BY <2>1, <2>2, <2>3
  <1>4. Cardinality(U) <= Cardinality(Jobs) + 2
    <2>1. /\ Cardinality(J) \in Nat /\ Cardinality(H) \in Nat /\ Cardinality(U) \in Nat
          /\ Cardinality(Jobs) \in Nat
      BY <1>1, <1>2, <1>3, FS_CardinalityType DEF EnoughSessions
    <2>2. QED
      BY <1>1, <1>2, <1>3, <2>1
  <1>5. Sessions \ U \subseteq UnusedSessions
    BY DeploymentAssumption DEF Typed, ClientTracksSession, UnusedSessions, U, H, J
  <1>6. ASSUME Sessions \subseteq U
        PROVE  FALSE
    <2>1. IsFiniteSet(Sessions) /\ Cardinality(Sessions) <= Cardinality(U)
      BY <1>3, <1>6, FS_Subset
    <2>2. /\ Cardinality(Sessions) \in Nat /\ Cardinality(U) \in Nat
          /\ Cardinality(Jobs) \in Nat
      BY <1>3, <2>1, FS_CardinalityType DEF EnoughSessions
    <2>3. QED
      BY <1>4, <2>1, <2>2 DEF EnoughSessions
  <1>7. QED
    BY <1>5, <1>6

\* A reset of the session never lacks an id: the bound on ids keeps no step of
\* a deployment from happening.
THEOREM SessionIdsSuffice ==
  ASSUME EnoughSessions
  PROVE  Spec => [](UnusedSessions # {})
  <1>1. Typed => UnusedSessions # {}
    BY FreshSession
  <1>2. QED
    BY <1>1, TypedInvariant, PTL

-------------------------------------------------------------------------------
(* Everyone is answered, and the promise is released *)

Waiting(c) == waits[c] # None

InFlight == promise # None

\* The five minutes of whoever waits on loop l cannot be over yet.
Early(l) == loop[l].stage = "attempt" /\ ~loop[l].retried

FlightEarly == InFlight /\ Early(promise)

FlightLate == InFlight /\ ~Early(promise)

\* Weak fairness of the sixty seconds of an attempt, as FairSpec states it, for
\* the loop that the current promise belongs to; the states in which the timer
\* can fire are written out, so that no ENABLED is needed.
AttemptEnds == InFlight /\ AttemptTimeout(promise)

AttemptTimerFires ==
  []<>~(FlightEarly /\ UnusedSessions # {}) \/ []<><<AttemptEnds>>_vars

\* The same of the five minutes of caller c, and of the owner, whoever it is.
CallerTimerFires(c) == []<>~TimesOut(c) \/ []<><<MasterTimeout(c)>>_vars

OwnerTimesOut == \E c \in Callers : role[c] = "owner" /\ MasterTimeout(c)

OwnerTimerFires == []<>~FlightLate \/ []<><<OwnerTimesOut>>_vars

\* A loop that is past its first attempt stays so while it runs.
LEMMA LateStays ==
  ASSUME TypeOK, NEW l \in BusyLoops, ~Early(l), [Next]_vars
  PROVE  l \notin BusyLoops' \/ ~Early(l)'
  <1> USE DEF Early, BusyLoops, TypeOK, RetryLoop
  <1>1. ASSUME NEW k \in Loops, Settle(k)
        PROVE  l \notin BusyLoops' \/ ~Early(l)'
    BY <1>1 DEF Settle, DoneLoop
  <1>2. ASSUME NEW k \in Loops, NEW e, FailAttempt(k, e)
        PROVE  ~Early(l)'
    BY <1>2 DEF FailAttempt
  <1>3. ASSUME UNCHANGED loop
        PROVE  ~Early(l)'
    BY <1>3
  <1>4. ASSUME NEW c, NEW r, NEW m, DeployToSandbox(c, r, m)
        PROVE  ~Early(l)'
    BY <1>3, <1>4 DEF DeployToSandbox, JoinDeployment, LaunchDeployment, BeginAttempt,
       IdleLoops
  <1>5. ASSUME NEW c \in Callers, CallerStep(c)
        PROVE  ~Early(l)'
    BY <1>3, <1>4, <1>5 DEF CallerStep, Call, HealthTick, TickHealthy, TickUnhealthy,
       MasterTimeout
  <1>6. ASSUME NEW j \in Jobs, JobStep(j)
        PROVE  l \notin BusyLoops' \/ ~Early(l)'
    <2>1. job[j] \in Deploy
      OBVIOUS
    <2>2. CASE JobSucceeds(j)
      BY <1>1, <2>1, <2>2 DEF JobSucceeds, Deploy
    <2>3. CASE JobFails(j)
      BY <1>2, <2>1, <2>3 DEF JobFails, Deploy
    <2>4. QED
      BY <1>3, <1>6, <2>2, <2>3 DEF JobStep, StatusHealthy, StatusUnhealthy, TokenReady,
         InstanceCreated, AbandonedEnds, WriteStage
  <1>7. ASSUME NEW k \in Loops, LoopStep(k)
        PROVE  l \notin BusyLoops' \/ ~Early(l)'
    <2>1. CASE BackoffDone(k)
      BY <2>1 DEF BackoffDone, BeginAttempt
    <2>2. QED
      BY <1>1, <1>2, <1>7, <2>1 DEF LoopStep, AttemptTimeout, SetupDone, SetupFails
  <1>8. CASE InspectInstance \/ UNCHANGED vars
    BY <1>3, <1>8 DEF InspectInstance, vars
  <1>9. CASE Restart
    BY <1>9 DEF Restart, DoneLoop
  <1>10. QED
    BY <1>5, <1>6, <1>7, <1>8, <1>9 DEF Next

\* Who waits goes on waiting for the same loop in the same role, and a promise
\* that is set stays, until it is over.
LEMMA WaitStays ==
  ASSUME TypeOK, Ownership, NEW c \in Callers, [Next]_vars
  PROVE  /\ Waiting(c) => ~Waiting(c)' \/ (waits'[c] = waits[c] /\ role'[c] = role[c])
         /\ InFlight => ~InFlight' \/ promise' = promise
  <1> DEFINE Kept == UNCHANGED <<promise, role, waits>>
             Goal == /\ Waiting(c) => \/ ~Waiting(c)'
                                      \/ waits'[c] = waits[c] /\ role'[c] = role[c]
                     /\ InFlight => ~InFlight' \/ promise' = promise
  <1> USE DEF Waiting, InFlight, TypeOK
  <1>1. Kept => Goal
    OBVIOUS
  <1>2. ASSUME NEW k, Settle(k)
        PROVE  Goal
    BY <1>2 DEF Settle
  <1>3. ASSUME NEW d \in Callers, NEW r, NEW m, waits[d] = None, DeployToSandbox(d, r, m)
        PROVE  Goal
    BY <1>3 DEF DeployToSandbox, JoinDeployment, LaunchDeployment
  <1>4. ASSUME NEW d \in Callers, CallerStep(d)
        PROVE  Goal
    <2>1. CASE Call(d) \/ TickUnhealthy(d)
      <3>1. waits[d] = None
        BY <2>1 DEF Call, TickUnhealthy, Ownership
      <3>2. QED
        BY <1>3, <2>1, <3>1 DEF Call, TickUnhealthy
    <2>2. CASE HealthTick(d) \/ TickHealthy(d)
      <3>1. waits[d] = None
        BY <2>2 DEF HealthTick, TickHealthy, Ownership
      <3>2. QED
        BY <2>2, <3>1 DEF HealthTick, TickHealthy
    <2>3. CASE MasterTimeout(d)
      BY <2>3 DEF MasterTimeout
    <2>4. QED
      BY <1>4, <2>1, <2>2, <2>3 DEF CallerStep
  <1>5. ASSUME NEW j \in Jobs, JobStep(j)
        PROVE  Goal
    BY <1>1, <1>2, <1>5 DEF JobStep, StatusHealthy, StatusUnhealthy, TokenReady,
       InstanceCreated, AbandonedEnds, WriteStage, JobSucceeds, JobFails, FailAttempt
  <1>6. ASSUME NEW l \in Loops, LoopStep(l)
        PROVE  Goal
    BY <1>1, <1>2, <1>6 DEF LoopStep, AttemptTimeout, SetupDone, SetupFails, BackoffDone,
       FailAttempt
  <1>7. CASE InspectInstance \/ UNCHANGED vars
    BY <1>1, <1>7 DEF InspectInstance, vars
  <1>8. CASE Restart
    BY <1>8 DEF Restart
  <1>9. QED
    BY <1>4, <1>5, <1>6, <1>7, <1>8 DEF Next

\* Who waits with a timer that cannot fire owns the current promise, and its loop
\* is in its first attempt.
LEMMA TimeoutGuards ==
  ASSUME TypeOK, Ownership, NEW c \in Callers
  PROVE  /\ TimesOut(c) => Waiting(c)
         /\ Waiting(c) /\ ~TimesOut(c) => /\ role[c] = "owner"
                                         /\ waits[c] = promise
                                         /\ FlightEarly
         /\ role[c] = "owner" => Waiting(c) /\ InFlight /\ waits[c] = promise
         /\ InFlight => promise \in BusyLoops
  BY DeploymentAssumption
  DEF TimesOut, Waiting, Ownership, SingleOwner, FlightEarly, InFlight, Early

\* What a step does to a caller that waits.
LEMMA CallerMoves ==
  ASSUME TypeOK, Ownership, Ownership', NEW c \in Callers, [Next]_vars
  PROVE  /\ TimesOut(c) => TimesOut(c)' \/ ~Waiting(c)'
         /\ <<MasterTimeout(c)>>_vars => ~Waiting(c)'
         /\ Waiting(c) /\ ~TimesOut(c) /\ <<AttemptEnds>>_vars =>
              TimesOut(c)' \/ ~Waiting(c)'
  <1>1. ASSUME TimesOut(c), Waiting(c)'
        PROVE  TimesOut(c)'
    <2>1. waits'[c] = waits[c] /\ role'[c] = role[c]
      BY <1>1, WaitStays, TimeoutGuards
    <2>2. waits[c] \in BusyLoops /\ waits[c] \in BusyLoops'
      BY <1>1, <2>1 DEF Ownership, Waiting, TimesOut
    <2>3. CASE role[c] = "owner"
      <3>1. ~Early(waits[c])
        BY <1>1, <2>3 DEF TimesOut, Early
      <3>2. ~(loop'[waits[c]].stage = "attempt" /\ ~loop'[waits[c]].retried)
        BY <2>2, <3>1, LateStays DEF Early
      <3>3. QED
        BY <1>1, <2>1, <3>2 DEF TimesOut, Waiting
    <2>4. CASE role[c] # "owner"
      BY <1>1, <2>1, <2>4 DEF TimesOut, Waiting
    <2>5. QED
      BY <2>3, <2>4
  <1>2. ASSUME MasterTimeout(c)
        PROVE  ~Waiting(c)'
    BY <1>2 DEF MasterTimeout, Waiting, TypeOK
  <1>3. ASSUME Waiting(c), ~TimesOut(c), AttemptEnds
        PROVE  TimesOut(c)'
    <2>1. role[c] = "owner" /\ waits[c] = promise /\ InFlight /\ promise \in Loops
      BY <1>3, TimeoutGuards DEF BusyLoops
    <2>2. /\ loop' = [loop EXCEPT ![promise].stage = "backoff"]
          /\ UNCHANGED <<role, waits>>
      BY <1>3 DEF AttemptEnds, AttemptTimeout, FailAttempt
    <2>3. loop'[promise].stage = "backoff"
      BY <2>1, <2>2 DEF TypeOK, RetryLoop
    <2>4. QED
      BY <1>3, <2>1, <2>2, <2>3 DEF TimesOut, Waiting
  <1>4. QED
    BY <1>1, <1>2, <1>3

\* A caller is answered: when its timer cannot fire yet, its loop's can.
LEMMA CallerAnswered ==
  ASSUME EnoughSessions, NEW c \in Callers
  PROVE  Spec /\ AttemptTimerFires /\ CallerTimerFires(c) =>
           (Waiting(c) ~> ~Waiting(c))
  <1>1. TypeOK /\ Ownership => /\ TimesOut(c) => Waiting(c)
                               /\ Waiting(c) /\ ~TimesOut(c) => FlightEarly
    BY TimeoutGuards
  <1>2. TypeOK /\ Ownership /\ Ownership' /\ [Next]_vars =>
          /\ TimesOut(c) => TimesOut(c)' \/ ~Waiting(c)'
          /\ <<MasterTimeout(c)>>_vars => ~Waiting(c)'
          /\ Waiting(c) /\ ~TimesOut(c) /\ <<AttemptEnds>>_vars =>
              TimesOut(c)' \/ ~Waiting(c)'
    BY CallerMoves
  <1>3. QED
    BY <1>1, <1>2, SessionIdsSuffice, TypeCorrect, OwnershipInvariant, PTL
    DEF Spec, AttemptTimerFires, CallerTimerFires

\* Everyone who asks for a deployment is answered, with its outcome or by the
\* five minutes of the master timeout: those are sure to be over once the loop
\* is past its first attempt, and the sixty seconds of that are sure to end.
THEOREM EveryoneIsAnswered ==
  ASSUME EnoughSessions
  PROVE  Spec /\ AttemptTimerFires /\ (\A c \in Callers : CallerTimerFires(c))
           => EveryCallAnswered
  <1>1. ASSUME NEW c \in Callers
        PROVE  Spec /\ AttemptTimerFires /\ CallerTimerFires(c) =>
                 (waits[c] # None ~> waits[c] = None)
    <2>1. Waiting(c) <=> waits[c] # None
      BY DEF Waiting
    <2>2. ~Waiting(c) <=> waits[c] = None
      BY DEF Waiting
    <2>3. QED
      BY <2>1, <2>2, CallerAnswered, PTL
  <1>2. QED
    BY <1>1 DEF EveryCallAnswered

\* What a step does to the current promise.
LEMMA PromiseMoves ==
  ASSUME TypeOK, Ownership, Ownership', [Next]_vars
  PROVE  /\ FlightLate => FlightLate' \/ ~InFlight'
         /\ FlightEarly => FlightEarly' \/ FlightLate' \/ ~InFlight'
         /\ FlightEarly /\ <<AttemptEnds>>_vars => FlightLate'
         /\ <<OwnerTimesOut>>_vars => ~InFlight'
  <1>1. FlightEarly => FlightEarly' \/ FlightLate' \/ ~InFlight'
    BY DEF FlightEarly, FlightLate
  <1>2. ASSUME FlightLate, InFlight'
        PROVE  FlightLate'
    <2>1. PICK c \in Callers : role[c] = "owner"
      BY <1>2 DEF FlightLate, InFlight, Ownership
    <2>2. promise' = promise
      BY <1>2, <2>1, WaitStays DEF FlightLate
    <2>3. promise \in BusyLoops /\ promise \in BusyLoops'
      <3>1. PICK d \in Callers : role'[d] = "owner"
        BY <1>2 DEF InFlight, Ownership
      <3>2. waits'[d] = promise' /\ waits'[d] # None
        BY <3>1 DEF Ownership, SingleOwner
      <3>3. promise' \in BusyLoops'
        BY <3>2 DEF Ownership
      <3>4. QED
        BY <2>1, <2>2, <3>3, TimeoutGuards
    <2>4. ~(loop'[promise].stage = "attempt" /\ ~loop'[promise].retried)
      BY <1>2, <2>3, LateStays DEF FlightLate, Early
    <2>5. QED
      BY <1>2, <2>2, <2>4 DEF FlightLate, Early
  <1>3. ASSUME FlightEarly, AttemptEnds
        PROVE  FlightLate'
    <2>1. promise \in Loops
      BY <1>3 DEF FlightEarly, InFlight, TypeOK
    <2>2. /\ loop' = [loop EXCEPT ![promise].stage = "backoff"]
          /\ UNCHANGED promise
      BY <1>3 DEF AttemptEnds, AttemptTimeout, FailAttempt
    <2>3. loop'[promise].stage = "backoff"
      BY <2>1, <2>2 DEF TypeOK, RetryLoop
    <2>4. QED
      BY <1>3, <2>2, <2>3 DEF FlightLate, FlightEarly, InFlight, Early
  <1>4. ASSUME OwnerTimesOut
        PROVE  ~InFlight'
    BY <1>4 DEF OwnerTimesOut, MasterTimeout, InFlight
  <1>5. QED
    BY <1>1, <1>2, <1>3, <1>4

\* The current promise is always released: no deployment that hangs keeps later
\* ones from starting.
THEOREM PromiseIsReleased ==
  ASSUME EnoughSessions
  PROVE  Spec /\ AttemptTimerFires /\ OwnerTimerFires => PromiseReleased
  <1>1. /\ InFlight <=> promise # None
        /\ ~InFlight <=> promise = None
        /\ InFlight <=> FlightEarly \/ FlightLate
    BY DEF InFlight, FlightEarly, FlightLate
  <1>2. TypeOK /\ Ownership /\ Ownership' /\ [Next]_vars =>
          /\ FlightLate => FlightLate' \/ ~InFlight'
          /\ FlightEarly => FlightEarly' \/ FlightLate' \/ ~InFlight'
          /\ FlightEarly /\ <<AttemptEnds>>_vars => FlightLate'
          /\ <<OwnerTimesOut>>_vars => ~InFlight'
    BY PromiseMoves
  <1>3. QED
    BY <1>1, <1>2, SessionIdsSuffice, TypeCorrect, OwnershipInvariant, PTL
    DEF Spec, AttemptTimerFires, OwnerTimerFires, PromiseReleased
===============================================================================
