-------------------------- MODULE ProcessMonitorProofs --------------------------
(* Proofs about ProcessMonitor, for any number of health checks and restarts.  *)
EXTENDS ProcessMonitor, TLAPS

\* What makes the safety properties inductive: a restart in flight, or one that
\* is scheduled, means that the process has exited.
RestartFollowsExit ==
  /\ mon.startup # "none" => ~Live
  /\ mon.timer => mon.startup = "none" /\ ~Live
  /\ mon.state = "starting" /\ Up => mon.startup \in {"starting", "stable"}

\* Shutdown without a restart in flight: none starts, and once stop() is past
\* the kill the process is dead.
QuietShutdown ==
  /\ mon.shutdown \in {"boot", "up"} => mon.pass = 1
  /\ ~raced =>
       /\ mon.shutdown \notin {"boot", "up"} => mon.startup = "none"
       /\ mon.shutdown = "log" => mon.pass = 1
       /\ mon.shutdown \in {"cancel", "kill"} => mon.state \in {"stopping", "stopped"}
       /\ mon.shutdown \in {"cancel", "kill", "final", "logs", "exited"} => ~mon.timer
       /\ mon.shutdown \in {"final", "logs", "exited"} =>
            mon.state = "stopped" /\ child \notin {"alive", "termed"}

\* The state of the process agrees with what the monitor says of it.  A start()
\* that has cleared the health flag finds it set only by a check that crossed it.
Honest ==
  /\ RunningIsLive /\ StoppedIsDead /\ HealthFlagIsHonest /\ NothingOrphaned
  /\ mon.startup = "stable" /\ health.restarting => health.misled

\* Whoever waits for the process to exit waits for one that has not.
KillHasTarget ==
  /\ mon.shutdown = "kill" => Live
  /\ \A k \in Checks : check[k] = "kill" => Live

Safe == TypeOK /\ RestartFollowsExit /\ Honest /\ QuietShutdown /\ KillHasTarget

-------------------------------------------------------------------------------
(* Helpers *)

LEMMA CleanUpFacts ==
  ASSUME NEW m \in Monitor
  PROVE  /\ CleanUp(m) \in Monitor
         /\ CleanUp(m).state = m.state /\ CleanUp(m).startup = m.startup
         /\ ~CleanUp(m).timer
         /\ CleanUp(m).shutdown \in {"log", "logs"}
         /\ CleanUp(m).shutdown = "log" => m.state \notin {"stopped", "starting"}
         /\ CleanUp(m).shutdown = "logs" => m.state \in {"stopped", "starting"}
  BY DEF CleanUp, Refused, Monitor, States

\* Returning from stop() leaves the state and the start-up alone.
LEMMA ReturnFacts ==
  ASSUME NEW m \in Monitor
  PROVE  /\ StopReturns(m) \in Monitor
         /\ StopReturns(m).state = m.state /\ StopReturns(m).startup = m.startup
         /\ StopReturns(m).timer => m.timer /\ m.pass = 2
         /\ StopReturns(m).shutdown \in {"log", "logs"}
         /\ StopReturns(m).shutdown = "log" =>
              m.pass = 1 /\ m.state \notin {"stopped", "starting"}
  <1>1. CASE m.pass = 1
    BY <1>1, CleanUpFacts DEF StopReturns
  <1>2. CASE m.pass = 2
    BY <1>2 DEF StopReturns, Monitor
  <1>3. QED
    BY <1>1, <1>2 DEF Monitor

LEMMA SettleFacts ==
  ASSUME NEW m \in Monitor
  PROVE  /\ StopSettles(m) \in Monitor
         /\ StopSettles(m).startup = m.startup
         /\ StopSettles(m).state =
              IF m.state = "stopping" THEN "stopped" ELSE m.state
         /\ StopSettles(m).timer => m.timer
         /\ StopSettles(m).shutdown \in
              IF m.state = "stopping" THEN {"final"} ELSE {"log", "logs"}
         /\ StopSettles(m).shutdown = "log" =>
              m.state \notin {"stopped", "starting", "stopping"}
  <1>1. CASE m.state = "stopping"
    BY <1>1 DEF StopSettles, Monitor, States
  <1>2. CASE m.state # "stopping"
    BY <1>2, ReturnFacts DEF StopSettles
  <1>3. QED
    BY <1>1, <1>2

LEMMA KillFacts ==
  ASSUME NEW m \in Monitor, child \in Children, Kill(m)
  PROVE  /\ mon' \in Monitor /\ child' \in Children
         /\ mon'.startup = m.startup
         /\ mon'.timer => m.timer
         /\ Live' <=> Live
         /\ child' # child => child = "alive" /\ child' = "termed"
         /\ mon'.state # m.state =>
              m.state = "stopping" /\ mon'.state = "stopped" /\ ~Live
         /\ \/ Live /\ mon'.shutdown = "kill" /\ mon'.state = m.state
            \/ ~Live /\ mon'.shutdown \in {"log", "logs"} /\ m.state # "stopping"
            \/ ~Live /\ mon'.shutdown = "final" /\ mon'.state = "stopped"
         /\ mon'.shutdown = "log" => m.state \notin {"stopped", "starting", "stopping"}
  <1> DEFINE quiet == [m EXCEPT !.ticking = FALSE]
  <1>1. /\ quiet \in Monitor
        /\ quiet.startup = m.startup /\ quiet.timer = m.timer /\ quiet.state = m.state
    BY DEF Monitor
  <1>2. CASE Live
    <2>1. /\ mon' = [quiet EXCEPT !.shutdown = "kill"]
          /\ child' = IF child = "alive" THEN "termed" ELSE child
      BY <1>2 DEF Kill
    <2>2. mon' = [m EXCEPT !.ticking = FALSE, !.shutdown = "kill"]
      BY <2>1
    <2>3. /\ mon' \in Monitor /\ mon'.startup = m.startup /\ mon'.timer = m.timer
          /\ mon'.state = m.state /\ mon'.shutdown = "kill"
      BY <2>2 DEF Monitor
    <2>4. child' \in Children /\ Live'
      BY <1>2, <2>1 DEF Live, Children
    <2>5. QED
      BY <1>2, <2>1, <2>3, <2>4
  <1>3. CASE ~Live
    <2>1. mon' = StopSettles(quiet) /\ child' = child
      BY <1>3 DEF Kill
    <2>2. Live' <=> Live
      BY <2>1 DEF Live
    <2>3. /\ mon' \in Monitor
          /\ mon'.startup = quiet.startup
          /\ mon'.state = IF quiet.state = "stopping" THEN "stopped" ELSE quiet.state
          /\ mon'.timer => quiet.timer
          /\ mon'.shutdown \in
               IF quiet.state = "stopping" THEN {"final"} ELSE {"log", "logs"}
          /\ mon'.shutdown = "log" =>
               quiet.state \notin {"stopped", "starting", "stopping"}
      BY <1>1, <2>1, SettleFacts
    <2> HIDE DEF quiet
    <2>4. QED
      BY <1>1, <1>3, <2>1, <2>2, <2>3
  <1>4. QED
    BY <1>2, <1>3

\* Kill as StopLogged uses it, with the state just set to `stopping`.
LEMMA KillSettles ==
  ASSUME NEW m \in Monitor, child \in Children, Kill(m), m.state = "stopping"
  PROVE  /\ mon' \in Monitor /\ child' \in Children
         /\ mon'.startup = m.startup
         /\ mon'.timer => m.timer
         /\ Live' <=> Live
         /\ child' # child => child = "alive" /\ child' = "termed"
         /\ \/ Live /\ mon'.shutdown = "kill" /\ mon'.state = "stopping"
            \/ ~Live /\ mon'.shutdown = "final" /\ mon'.state = "stopped"
  <1>1. CASE Live
    BY <1>1, KillFacts
  <1>2. CASE ~Live
    BY <1>2, KillFacts
  <1>3. QED
    BY <1>1, <1>2

\* The exit handler.
LEMMA ExitFacts ==
  ASSUME NEW m \in Monitor, NEW kind
  PROVE  /\ AfterExit(m, kind) \in Monitor
         /\ AfterExit(m, kind).startup = m.startup
         /\ AfterExit(m, kind).shutdown = m.shutdown
         /\ AfterExit(m, kind).pass = m.pass
         /\ AfterExit(m, kind).state \in {"stopped", "crashed"}
         /\ AfterExit(m, kind).timer => m.timer \/ m.state = "running"
         /\ m.state # "running" => AfterExit(m, kind).state = "stopped"
  <1>1. CASE m.state = "running" /\ CanRestart(m, kind)
    <2>1. AfterExit(m, kind)
            = [m EXCEPT !.state = "crashed", !.timer = TRUE, !.restarts = @ + 1]
      BY <1>1 DEF AfterExit
    <2>2. m.restarts + 1 \in 0..MaxRestarts
      BY <1>1, MonitorAssumption DEF CanRestart, Monitor
    <2>3. QED
      BY <1>1, <2>1, <2>2 DEF Monitor, States
  <1>2. CASE m.state = "running" /\ ~CanRestart(m, kind) /\ kind = "failed"
    <2>1. AfterExit(m, kind) = [m EXCEPT !.state = "crashed"]
      BY <1>2 DEF AfterExit
    <2>2. QED
      BY <1>2, <2>1 DEF Monitor, States
  <1>3. CASE /\ ~(m.state = "running" /\ CanRestart(m, kind))
             /\ ~(m.state = "running" /\ ~CanRestart(m, kind) /\ kind = "failed")
    <2>1. AfterExit(m, kind) = [m EXCEPT !.state = "stopped"]
      BY <1>3 DEF AfterExit
    <2>2. QED
      BY <1>3, <2>1 DEF Monitor, States
  <1>4. QED
    BY <1>1, <1>2, <1>3

LEMMA SpawnFacts ==
  ASSUME TypeOK, NEW restarts \in 0..MaxRestarts, Spawn(restarts)
  PROVE  /\ mon' \in Monitor /\ child' \in {"none", "gone", "alive"}
         /\ mon'.startup = "none"
         /\ mon'.timer = mon.timer
         /\ \/ mon'.state = "running" /\ child' = "alive" /\ mon'.shutdown = mon.shutdown
            \/ mon'.state = "stopped" /\ child' \in {"none", "gone"}
         /\ orphaned' = (orphaned \/ Live)
         /\ mon'.shutdown \in {mon.shutdown, "exited"}
         /\ mon'.pass = mon.pass
  <1>1. (Runs(restarts) \/ SpawnFails(restarts)) /\ orphaned' = (orphaned \/ Live)
    BY DEF Spawn
  <1>2. CASE Runs(restarts)
    <2>1. /\ mon' \in Monitor /\ mon'.startup = "none" /\ mon'.timer = mon.timer
          /\ mon'.state = "running" /\ child' = "alive"
          /\ mon'.shutdown = mon.shutdown /\ mon'.pass = mon.pass
      BY ONLY <1>2, TypeOK, restarts \in 0..MaxRestarts DEF Runs, TypeOK, Monitor, States
    <2>2. QED
      BY <1>1, <2>1
  <1>3. CASE SpawnFails(restarts)
    <2>1. /\ mon' \in Monitor /\ mon'.startup = "none" /\ mon'.timer = mon.timer
          /\ mon'.state = "stopped" /\ child' \in {"none", "gone"}
          /\ mon'.shutdown \in {mon.shutdown, "exited"} /\ mon'.pass = mon.pass
      BY ONLY <1>3, TypeOK, restarts \in 0..MaxRestarts
      DEF SpawnFails, TypeOK, Monitor, States
    <2>2. QED
      BY <1>1, <2>1
  <1>4. QED
    BY <1>1, <1>2, <1>3

LEMMA FreshHealthFacts ==
  FreshHealth \in Health /\ ~FreshHealth.restarting
  BY MonitorAssumption DEF FreshHealth, Health

\* A step of start() either spawns, or finds that the last run was stable.
LEMMA StartFacts ==
  ASSUME TypeOK, StartLogged \/ StableLogged
  PROVE  /\ \/ mon.startup = "starting" /\ health' = FreshHealth
            \/ mon.startup = "stable" /\ health' = health
         /\ UNCHANGED <<check, raced>>
         /\ \/ /\ mon.startup = "starting" /\ StableRunFound
               /\ mon' \in Monitor /\ mon' = [mon EXCEPT !.startup = "stable"]
               /\ UNCHANGED <<child, orphaned>>
            \/ \E restarts \in 0..MaxRestarts : Spawn(restarts)
  <1>1. mon \in Monitor /\ mon.restarts \in 0..MaxRestarts /\ 0 \in 0..MaxRestarts
    BY MonitorAssumption DEF TypeOK, Monitor
  <1>2. StableRunFound => mon' \in Monitor
    BY <1>1 DEF StableRunFound, Monitor
  <1>3. QED
    BY <1>1, <1>2 DEF StartLogged, StableLogged, StableRunFound

-------------------------------------------------------------------------------
(* Every step keeps the invariant *)

\* The shutdown moves on: the process, if it changes, gets a signal, and the
\* state becomes `stopping`, or `stopped` once the process is dead.
LEMMA ShutdownStep ==
  ASSUME Safe, Shutdown \/ StopStep
  PROVE  Safe'
  <1>1. /\ mon \in Monitor /\ child \in Children /\ health \in Health
        /\ check \in [Checks -> CheckStages]
        /\ orphaned \in BOOLEAN /\ raced \in BOOLEAN
    BY DEF Safe, TypeOK
  <1>2. CASE Shutdown
    <2>1. /\ mon' \in Monitor /\ mon'.state = mon.state /\ mon'.startup = mon.startup
          /\ mon'.timer => mon.timer
          /\ mon.shutdown = "up" /\ mon.pass = 1
          /\ \/ mon'.shutdown = "log" /\ mon'.pass = 1
             \/ /\ mon'.shutdown = "logs" /\ ~mon'.timer
                /\ mon.state \in {"stopped", "starting"}
          /\ raced' <=> mon.startup # "none"
          /\ UNCHANGED <<child, health, check, orphaned>>
      <3>1. mon.shutdown = "up" /\ mon.pass = 1
        BY <1>2 DEF Shutdown, Safe, QuietShutdown
      <3>2. /\ raced' <=> mon.startup # "none"
            /\ UNCHANGED <<child, health, check, orphaned>>
        BY <1>2 DEF Shutdown
      <3>3. CASE Refused(mon)
        <4>1. mon' = StopReturns(mon) /\ mon.state \in {"stopped", "starting"}
          BY <1>2, <3>3 DEF Shutdown, Refused
        <4>2. QED
          BY <1>1, <3>1, <3>2, <4>1, ReturnFacts
      <3>4. CASE ~Refused(mon)
        <4>1. mon' = [mon EXCEPT !.shutdown = "log"]
          BY <1>2, <3>4 DEF Shutdown
        <4>2. QED
          BY <1>1, <3>1, <3>2, <4>1 DEF Monitor
      <3>5. QED
        BY <3>3, <3>4
    <2>2. TypeOK'
      BY <1>1, <1>2, <2>1 DEF Shutdown, TypeOK
    <2>3. RestartFollowsExit'
      BY <1>1, <2>1 DEF Safe, RestartFollowsExit, Honest, RunningIsLive, Live, Up
    <2>4. Honest'
      BY <1>1, <2>1 DEF Safe, RestartFollowsExit, Honest, RunningIsLive, StoppedIsDead,
                        HealthFlagIsHonest, NothingOrphaned, Live
    <2>5. QuietShutdown'
      BY <1>1, <2>1 DEF Safe, RestartFollowsExit, Honest, StoppedIsDead, RunningIsLive,
                        QuietShutdown, Live, Up
    <2>6. KillHasTarget'
      BY <1>1, <2>1 DEF Safe, RestartFollowsExit, Honest, RunningIsLive, KillHasTarget, Live
    <2>7. QED
      BY <2>2, <2>3, <2>4, <2>5, <2>6 DEF Safe
  <1>3. CASE StopLogged
    <2>1. /\ mon' \in Monitor /\ child' \in Children
          /\ mon'.startup = mon.startup
          /\ ~mon'.timer
          /\ Live' <=> Live
          /\ child' # child => child = "alive" /\ child' = "termed"
          /\ \/ mon'.shutdown = "cancel" /\ mon'.state = "stopping"
             \/ Live /\ mon'.shutdown = "kill" /\ mon'.state = "stopping"
             \/ /\ ~Live /\ mon'.shutdown \in {"final", "logs"}
                /\ mon'.state = "stopped"
          /\ mon.shutdown = "log"
          /\ UNCHANGED <<health, check, orphaned, raced>>
      <3>1. /\ mon.shutdown = "log"
            /\ UNCHANGED <<health, check, orphaned, raced>>
        BY <1>3 DEF StopLogged
      <3>2. CASE mon.timer
        <4>1. /\ mon' = [mon EXCEPT !.state = "stopping", !.timer = FALSE,
                                    !.shutdown = "cancel"]
              /\ UNCHANGED child
          BY <1>3, <3>2 DEF StopLogged
        <4>2. mon' \in Monitor /\ mon'.state = "stopping" /\ ~mon'.timer
              /\ mon'.shutdown = "cancel" /\ mon'.startup = mon.startup
          BY <1>1, <4>1 DEF Monitor, States
        <4>3. QED
          BY <1>1, <3>1, <4>1, <4>2 DEF Live
      <3>3. CASE ~mon.timer
        <4> DEFINE m == [mon EXCEPT !.state = "stopping"]
        <4>1. /\ m \in Monitor /\ m.state = "stopping" /\ m.timer = mon.timer
              /\ m.startup = mon.startup
          BY <1>1 DEF Monitor, States
        <4>2. Kill(m)
          BY <1>3, <3>3 DEF StopLogged
        <4> HIDE DEF m
        <4>3. QED
          BY <1>1, <3>1, <3>3, <4>1, <4>2, KillSettles
      <3>4. QED
        BY <3>2, <3>3
    <2>2. TypeOK'
      BY <1>1, <1>3, <2>1 DEF StopLogged, TypeOK
    <2>3. RestartFollowsExit'
      BY <1>1, <2>1 DEF Safe, RestartFollowsExit, Honest, RunningIsLive, Live, Up
    <2>4. Honest'
      BY <1>1, <2>1 DEF Safe, RestartFollowsExit, Honest, RunningIsLive, StoppedIsDead,
                        HealthFlagIsHonest, NothingOrphaned, Live
    <2>5. QuietShutdown'
      BY <1>1, <2>1 DEF Safe, RestartFollowsExit, Honest, StoppedIsDead, RunningIsLive,
                        QuietShutdown, Live, Up
    <2>6. KillHasTarget'
      BY <1>1, <2>1 DEF Safe, RestartFollowsExit, Honest, RunningIsLive, KillHasTarget, Live
    <2>7. QED
      BY <2>2, <2>3, <2>4, <2>5, <2>6 DEF Safe
  <1>4. CASE StopCancelled
    <2>1. /\ mon' \in Monitor /\ child' \in Children
          /\ mon'.startup = mon.startup
          /\ mon'.timer => mon.timer
          /\ Live' <=> Live
          /\ child' # child => child = "alive" /\ child' = "termed"
          /\ mon'.state # mon.state =>
               mon.state = "stopping" /\ mon'.state = "stopped" /\ ~Live
          /\ \/ Live /\ mon'.shutdown = "kill" /\ mon'.state = mon.state
             \/ ~Live /\ mon'.shutdown = "final" /\ mon'.state = "stopped"
             \/ ~Live /\ mon'.shutdown = "logs" /\ mon.state # "stopping"
             \/ mon'.shutdown = "log" /\ mon.state \notin {"stopped", "stopping"}
          /\ mon.shutdown = "cancel"
          /\ UNCHANGED <<health, check, orphaned, raced>>
      BY <1>1, <1>4, KillFacts DEF StopCancelled
    <2>2. TypeOK'
      BY <1>1, <1>4, <2>1 DEF StopCancelled, TypeOK
    <2>3. RestartFollowsExit'
      BY <1>1, <2>1 DEF Safe, RestartFollowsExit, Honest, RunningIsLive, Live, Up
    <2>4. Honest'
      BY <1>1, <2>1 DEF Safe, RestartFollowsExit, Honest, RunningIsLive, StoppedIsDead,
                        HealthFlagIsHonest, NothingOrphaned, Live
    <2>5. QuietShutdown'
      BY <1>1, <2>1 DEF Safe, RestartFollowsExit, Honest, StoppedIsDead, RunningIsLive,
                        QuietShutdown, Live, Up
    <2>6. KillHasTarget'
      BY <1>1, <2>1 DEF Safe, RestartFollowsExit, Honest, RunningIsLive, KillHasTarget, Live
    <2>7. QED
      BY <2>2, <2>3, <2>4, <2>5, <2>6 DEF Safe
  <1>5. CASE StopKillTimeout
    <2>1. /\ mon' \in Monitor /\ child' = "killed"
          /\ mon'.startup = mon.startup
          /\ mon'.timer => mon.timer
          /\ mon'.state = IF mon.state = "stopping" THEN "stopped" ELSE mon.state
          /\ mon'.shutdown \in {"log", "logs", "final"}
          /\ mon'.shutdown = "log" => mon.state \notin {"stopped", "stopping"}
          /\ mon.shutdown = "kill" /\ Live
          /\ UNCHANGED <<health, check, orphaned, raced>>
      BY <1>1, <1>5, SettleFacts DEF StopKillTimeout, Safe, KillHasTarget
    <2>2. TypeOK'
      BY <1>1, <1>5, <2>1 DEF StopKillTimeout, TypeOK, Children
    <2>3. RestartFollowsExit'
      BY <1>1, <2>1 DEF Safe, RestartFollowsExit, Honest, RunningIsLive, Live, Up
    <2>4. Honest'
      BY <1>1, <2>1 DEF Safe, RestartFollowsExit, Honest, RunningIsLive, StoppedIsDead,
                        HealthFlagIsHonest, NothingOrphaned, Live
    <2>5. QuietShutdown'
      BY <1>1, <2>1 DEF Safe, RestartFollowsExit, Honest, StoppedIsDead, RunningIsLive,
                        QuietShutdown, Live, Up
    <2>6. KillHasTarget'
      BY <1>1, <2>1 DEF Safe, RestartFollowsExit, Honest, RunningIsLive, KillHasTarget, Live
    <2>7. QED
      BY <2>2, <2>3, <2>4, <2>5, <2>6 DEF Safe
  <1>6. CASE StopFinished
    <2>1. /\ mon' \in Monitor /\ child' = child
          /\ mon'.startup = mon.startup /\ mon'.state = mon.state
          /\ mon'.timer => mon.timer
          /\ mon'.shutdown \in {"log", "logs"}
          /\ mon'.shutdown = "log" => mon.state # "stopped"
          /\ mon.shutdown = "final"
          /\ UNCHANGED <<health, check, orphaned, raced>>
      BY <1>1, <1>6, ReturnFacts DEF StopFinished
    <2>2. TypeOK'
      BY <1>1, <1>6, <2>1 DEF StopFinished, TypeOK
    <2>3. RestartFollowsExit'
      BY <1>1, <2>1 DEF Safe, RestartFollowsExit, Honest, RunningIsLive, Live, Up
    <2>4. Honest'
      BY <1>1, <2>1 DEF Safe, RestartFollowsExit, Honest, RunningIsLive, StoppedIsDead,
                        HealthFlagIsHonest, NothingOrphaned, Live
    <2>5. QuietShutdown'
      BY <1>1, <2>1 DEF Safe, RestartFollowsExit, Honest, StoppedIsDead, RunningIsLive,
                        QuietShutdown, Live, Up
    <2>6. KillHasTarget'
      BY <1>1, <2>1 DEF Safe, RestartFollowsExit, Honest, RunningIsLive, KillHasTarget, Live
    <2>7. QED
      BY <2>2, <2>3, <2>4, <2>5, <2>6 DEF Safe
  <1>7. CASE Exit
    <2>1. /\ mon' \in Monitor /\ child' = child
          /\ mon'.startup = "none" /\ mon'.state = mon.state /\ ~mon'.timer
          /\ mon'.shutdown = "exited" /\ mon.shutdown = "logs"
          /\ check' = [k \in Checks |-> "idle"]
          /\ UNCHANGED <<health, orphaned, raced>>
      BY <1>1, <1>7 DEF Exit, Monitor
    <2>2. TypeOK'
      BY <1>1, <1>7, <2>1 DEF Exit, TypeOK, CheckStages
    <2>3. RestartFollowsExit'
      BY <1>1, <2>1 DEF Safe, RestartFollowsExit, Honest, RunningIsLive, Live, Up
    <2>4. Honest'
      BY <1>1, <2>1 DEF Safe, RestartFollowsExit, Honest, RunningIsLive, StoppedIsDead,
                        HealthFlagIsHonest, NothingOrphaned, Live
    <2>5. QuietShutdown'
      BY <1>1, <2>1 DEF Safe, RestartFollowsExit, Honest, StoppedIsDead, RunningIsLive,
                        QuietShutdown, Live, Up
    <2>6. KillHasTarget'
      BY <1>1, <2>1 DEF Safe, RestartFollowsExit, Honest, RunningIsLive, KillHasTarget, Live
    <2>7. QED
      BY <2>2, <2>3, <2>4, <2>5, <2>6 DEF Safe
  <1>8. QED
    BY <1>2, <1>3, <1>4, <1>5, <1>6, <1>7 DEF StopStep

\* Restarting: a start() in flight or scheduled has no live process beside it.
LEMMA StartStepHolds ==
  ASSUME Safe, StartStep
  PROVE  Safe'
  <1>1. /\ mon \in Monitor /\ child \in Children /\ health \in Health
        /\ check \in [Checks -> CheckStages]
        /\ orphaned \in BOOLEAN /\ raced \in BOOLEAN
    BY DEF Safe, TypeOK
  <1>2. CASE RestartTimerFires
    <2>1. /\ mon' \in Monitor /\ mon'.state = mon.state /\ ~mon'.timer /\ mon.timer
          /\ mon'.startup \in {mon.startup, "resuming"}
          /\ mon'.shutdown = mon.shutdown /\ mon'.pass = mon.pass
          /\ raced' <=> raced \/ mon.shutdown # "up"
          /\ mon.state = "starting" => mon'.startup = "resuming"
          /\ UNCHANGED <<child, health, check, orphaned>>
      BY <1>1, <1>2 DEF RestartTimerFires, Monitor
    <2>2. TypeOK'
      BY <1>1, <1>2, <2>1 DEF RestartTimerFires, TypeOK
    <2>3. RestartFollowsExit'
      BY <1>1, <2>1 DEF Safe, RestartFollowsExit, Honest, RunningIsLive, Live, Up
    <2>4. Honest'
      BY <1>1, <2>1 DEF Safe, RestartFollowsExit, Honest, RunningIsLive, StoppedIsDead,
                        HealthFlagIsHonest, NothingOrphaned, Live
    <2>5. QuietShutdown'
      BY <1>1, <2>1 DEF Safe, RestartFollowsExit, Honest, StoppedIsDead, RunningIsLive,
                        QuietShutdown, Live, Up
    <2>6. KillHasTarget'
      BY <1>1, <2>1 DEF Safe, RestartFollowsExit, Honest, RunningIsLive, KillHasTarget, Live
    <2>7. QED
      BY <2>2, <2>3, <2>4, <2>5, <2>6 DEF Safe
  <1>3. CASE Resume
    <2>1. /\ mon' \in Monitor /\ mon'.timer = mon.timer
          /\ mon.startup = "resuming"
          /\ \/ /\ mon.state \in {"stopped", "crashed"}
                /\ mon'.state = "starting" /\ mon'.startup = "starting"
             \/ mon'.state = mon.state /\ mon'.startup = "none"
          /\ mon'.shutdown = mon.shutdown /\ mon'.pass = mon.pass
          /\ UNCHANGED <<child, health, check, orphaned, raced>>
      BY <1>1, <1>3 DEF Resume, Monitor, States
    <2>2. TypeOK'
      BY <1>1, <1>3, <2>1 DEF Resume, TypeOK
    <2>3. RestartFollowsExit'
      BY <1>1, <2>1 DEF Safe, RestartFollowsExit, Honest, RunningIsLive, Live, Up
    <2>4. Honest'
      BY <1>1, <2>1 DEF Safe, RestartFollowsExit, Honest, RunningIsLive, StoppedIsDead,
                        HealthFlagIsHonest, NothingOrphaned, Live
    <2>5. QuietShutdown'
      BY <1>1, <2>1 DEF Safe, RestartFollowsExit, Honest, StoppedIsDead, RunningIsLive,
                        QuietShutdown, Live, Up
    <2>6. KillHasTarget'
      BY <1>1, <2>1 DEF Safe, RestartFollowsExit, Honest, RunningIsLive, KillHasTarget, Live
    <2>7. QED
      BY <2>2, <2>3, <2>4, <2>5, <2>6 DEF Safe
  <1>4. CASE StartLogged \/ StableLogged
    <2> DEFINE Starts ==
          /\ mon' \in Monitor /\ child' \in Children
          /\ health' \in Health
          /\ mon.startup \in {"starting", "stable"}
          /\ mon.startup = "starting" => ~health'.restarting
          /\ mon.startup = "stable" => health' = health
          /\ mon'.timer = mon.timer /\ mon'.pass = mon.pass
          /\ UNCHANGED <<check, raced>>
          /\ orphaned' \in BOOLEAN /\ (orphaned' => orphaned \/ Live)
          /\ \/ /\ mon'.startup = "stable" /\ mon.startup = "starting"
                /\ mon'.state = mon.state /\ mon'.shutdown = mon.shutdown
                /\ child' = child
             \/ /\ mon'.startup = "none" /\ mon'.state = "running"
                /\ child' = "alive" /\ mon'.shutdown = mon.shutdown
             \/ /\ mon'.startup = "none" /\ mon'.state = "stopped"
                /\ child' \in {"none", "gone"}
                /\ mon'.shutdown \in {mon.shutdown, "exited"}
    <2>1. Starts
      <3>1. TypeOK
        BY DEF Safe
      <3>2. CASE mon' = [mon EXCEPT !.startup = "stable"] /\ UNCHANGED <<child, orphaned>>
                 /\ mon.startup = "starting"
        BY <1>1, <1>4, <3>1, <3>2, StartFacts, FreshHealthFacts DEF Monitor
      <3>3. ASSUME NEW restarts \in 0..MaxRestarts, Spawn(restarts)
            PROVE  Starts
        <4>1. /\ health' \in Health
              /\ mon.startup \in {"starting", "stable"}
              /\ mon.startup = "starting" => ~health'.restarting
              /\ mon.startup = "stable" => health' = health
              /\ UNCHANGED <<check, raced>>
          BY <1>1, <1>4, <3>1, StartFacts, FreshHealthFacts
        <4>2. child' \in {"none", "gone", "alive"} => child' \in Children
          BY DEF Children
        <4>3. orphaned' = (orphaned \/ Live) => orphaned' \in BOOLEAN
          BY <1>1
        <4>4. QED
          BY <3>1, <3>3, <4>1, <4>2, <4>3, SpawnFacts
      <3>4. QED
        BY <1>4, <3>1, <3>2, <3>3, StartFacts
    <2>2. TypeOK'
      BY <1>1, <2>1 DEF TypeOK
    <2>3. RestartFollowsExit'
      BY <1>1, <2>1 DEF Safe, RestartFollowsExit, Honest, RunningIsLive, Live, Up
    <2>4. Honest'
      BY <1>1, <2>1 DEF Safe, RestartFollowsExit, Honest, RunningIsLive, StoppedIsDead,
                        HealthFlagIsHonest, NothingOrphaned, Live
    <2>5. QuietShutdown'
      BY <1>1, <2>1 DEF Safe, RestartFollowsExit, Honest, StoppedIsDead, RunningIsLive,
                        QuietShutdown, Live, Up
    <2>6. KillHasTarget'
      BY <1>1, <2>1 DEF Safe, RestartFollowsExit, Honest, RunningIsLive, KillHasTarget, Live
    <2>7. QED
      BY <2>2, <2>3, <2>4, <2>5, <2>6 DEF Safe
  <1>5. CASE Started
    <2>1. /\ mon' \in Monitor /\ mon'.state = mon.state /\ mon'.startup = mon.startup
          /\ mon'.timer = mon.timer /\ mon'.pass = mon.pass
          /\ mon'.shutdown = "up" /\ mon.shutdown = "boot"
          /\ UNCHANGED <<child, health, check, orphaned, raced>>
      BY <1>1, <1>5 DEF Started, Monitor
    <2>2. TypeOK'
      BY <1>1, <1>5, <2>1 DEF Started, TypeOK
    <2>3. RestartFollowsExit'
      BY <1>1, <2>1 DEF Safe, RestartFollowsExit, Honest, RunningIsLive, Live, Up
    <2>4. Honest'
      BY <1>1, <2>1 DEF Safe, RestartFollowsExit, Honest, RunningIsLive, StoppedIsDead,
                        HealthFlagIsHonest, NothingOrphaned, Live
    <2>5. QuietShutdown'
      BY <1>1, <2>1 DEF Safe, RestartFollowsExit, Honest, StoppedIsDead, RunningIsLive,
                        QuietShutdown, Live, Up
    <2>6. KillHasTarget'
      BY <1>1, <2>1 DEF Safe, RestartFollowsExit, Honest, RunningIsLive, KillHasTarget, Live
    <2>7. QED
      BY <2>2, <2>3, <2>4, <2>5, <2>6 DEF Safe
  <1>6. QED
    BY <1>2, <1>3, <1>4, <1>5 DEF StartStep

\* The process: its exit is what restarts and shutdowns wait for.
LEMMA ChildStepHolds ==
  ASSUME Safe, ChildStep
  PROVE  Safe'
  <1>1. /\ mon \in Monitor /\ child \in Children /\ health \in Health
        /\ check \in [Checks -> CheckStages]
        /\ orphaned \in BOOLEAN /\ raced \in BOOLEAN
    BY DEF Safe, TypeOK
  <1>2. CASE ChildExits
    <2>1. /\ mon' \in Monitor /\ child' = "gone" /\ Live
          /\ mon'.startup = mon.startup
          /\ mon'.state \in {"stopped", "crashed"}
          /\ mon'.timer => mon.timer \/ mon.state = "running"
          /\ mon.state # "running" => mon'.state = "stopped"
          /\ \/ /\ mon.shutdown # "kill" /\ mon'.shutdown = mon.shutdown
                /\ mon'.pass = mon.pass
             \/ /\ mon.shutdown = "kill" /\ mon'.shutdown \in {"log", "logs"}
                /\ mon'.shutdown = "log" => mon'.state # "stopped"
          /\ check' = [k \in Checks |-> IF check[k] = "kill" THEN "idle" ELSE check[k]]
          /\ UNCHANGED <<health, orphaned, raced>>
      <3>1. PICK kind \in {"clean", "silent", "failed"} :
              mon' = IF mon.shutdown = "kill" THEN StopReturns(AfterExit(mon, kind))
                     ELSE AfterExit(mon, kind)
        BY <1>2 DEF ChildExits
      <3>2. CASE mon.shutdown = "kill"
        BY <1>1, <1>2, <3>1, <3>2, ExitFacts, ReturnFacts DEF ChildExits
      <3>3. CASE mon.shutdown # "kill"
        BY <1>1, <1>2, <3>1, <3>3, ExitFacts DEF ChildExits
      <3>4. QED
        BY <3>2, <3>3
    <2>2. TypeOK'
      BY <1>1, <1>2, <2>1 DEF ChildExits, TypeOK, Children, CheckStages
    <2>3. RestartFollowsExit'
      BY <1>1, <2>1 DEF Safe, RestartFollowsExit, Honest, RunningIsLive, Live, Up
    <2>4. Honest'
      BY <1>1, <2>1 DEF Safe, RestartFollowsExit, Honest, RunningIsLive, StoppedIsDead,
                        HealthFlagIsHonest, NothingOrphaned, Live
    <2>5. QuietShutdown'
      BY <1>1, <2>1 DEF Safe, RestartFollowsExit, Honest, StoppedIsDead, RunningIsLive,
                        QuietShutdown, Live, Up
    <2>6. KillHasTarget'
      BY <1>1, <2>1 DEF Safe, RestartFollowsExit, Honest, RunningIsLive, KillHasTarget, Live
    <2>7. QED
      BY <2>2, <2>3, <2>4, <2>5, <2>6 DEF Safe
  <1>3. CASE FatalError
    <2>1. /\ mon' = mon /\ child = "alive" /\ child' = "termed"
          /\ mon.state = "running" /\ mon.shutdown # "exited"
          /\ UNCHANGED <<health, check, orphaned, raced>>
      BY <1>1, <1>3 DEF FatalError, Up
    <2>2. TypeOK'
      BY <1>1, <1>3, <2>1 DEF FatalError, TypeOK, Children
    <2>3. RestartFollowsExit'
      BY <1>1, <2>1 DEF Safe, RestartFollowsExit, Honest, RunningIsLive, Live, Up
    <2>4. Honest'
      BY <1>1, <2>1 DEF Safe, RestartFollowsExit, Honest, RunningIsLive, StoppedIsDead,
                        HealthFlagIsHonest, NothingOrphaned, Live
    <2>5. QuietShutdown'
      BY <1>1, <2>1 DEF Safe, RestartFollowsExit, Honest, StoppedIsDead, RunningIsLive,
                        QuietShutdown, Live, Up
    <2>6. KillHasTarget'
      BY <1>1, <2>1 DEF Safe, RestartFollowsExit, Honest, RunningIsLive, KillHasTarget, Live
    <2>7. QED
      BY <2>2, <2>3, <2>4, <2>5, <2>6 DEF Safe
  <1>4. CASE ErrorEvent
    <2>1. /\ mon' \in Monitor /\ mon'.state = "crashed" /\ mon'.startup = mon.startup
          /\ mon'.timer = mon.timer /\ mon'.pass = mon.pass
          /\ mon'.shutdown = mon.shutdown /\ mon.shutdown # "exited"
          /\ mon.state \in {"running", "starting"} /\ Live
          /\ UNCHANGED <<child, health, check, orphaned, raced>>
      BY <1>1, <1>4 DEF ErrorEvent, Up, Monitor, States
    <2>2. TypeOK'
      BY <1>1, <1>4, <2>1 DEF ErrorEvent, TypeOK
    <2>3. RestartFollowsExit'
      BY <1>1, <2>1 DEF Safe, RestartFollowsExit, Honest, RunningIsLive, Live, Up
    <2>4. Honest'
      BY <1>1, <2>1 DEF Safe, RestartFollowsExit, Honest, RunningIsLive, StoppedIsDead,
                        HealthFlagIsHonest, NothingOrphaned, Live
    <2>5. QuietShutdown'
      BY <1>1, <2>1 DEF Safe, RestartFollowsExit, Honest, StoppedIsDead, RunningIsLive,
                        QuietShutdown, Live, Up
    <2>6. KillHasTarget'
      BY <1>1, <2>1 DEF Safe, RestartFollowsExit, Honest, RunningIsLive, KillHasTarget, Live
    <2>7. QED
      BY <2>2, <2>3, <2>4, <2>5, <2>6 DEF Safe
  <1>5. QED
    BY <1>2, <1>3, <1>4 DEF ChildStep

\* Health checks: they leave the monitor alone and only ever signal the process.
LEMMA CheckStepHolds ==
  ASSUME Safe, NEW k \in Checks, CheckStep(k)
  PROVE  Safe'
  <1>1. /\ mon \in Monitor /\ child \in Children /\ health \in Health
        /\ check \in [Checks -> CheckStages]
        /\ orphaned \in BOOLEAN /\ raced \in BOOLEAN
    BY DEF Safe, TypeOK
  <1>2. CASE CheckBegins(k)
    <2>1. /\ check' = [check EXCEPT ![k] = "probe"]
          /\ UNCHANGED <<mon, child, health, orphaned, raced>>
      BY <1>1, <1>2 DEF CheckBegins
    <2>2. TypeOK'
      BY <1>1, <1>2, <2>1 DEF CheckBegins, TypeOK, CheckStages
    <2>3. RestartFollowsExit'
      BY <1>1, <2>1 DEF Safe, RestartFollowsExit, Honest, RunningIsLive, Live, Up
    <2>4. Honest'
      BY <1>1, <2>1 DEF Safe, RestartFollowsExit, Honest, RunningIsLive, StoppedIsDead,
                        HealthFlagIsHonest, NothingOrphaned, Live
    <2>5. QuietShutdown'
      BY <1>1, <2>1 DEF Safe, RestartFollowsExit, Honest, StoppedIsDead, RunningIsLive,
                        QuietShutdown, Live, Up
    <2>6. KillHasTarget'
      BY <1>1, <2>1 DEF Safe, RestartFollowsExit, Honest, RunningIsLive, KillHasTarget, Live
    <2>7. QED
      BY <2>2, <2>3, <2>4, <2>5, <2>6 DEF Safe
  <1>3. CASE ProbeAnswered(k) \/ AnswerLogged(k)
    <2>1. /\ check' \in [Checks -> CheckStages]
          /\ \A i \in Checks : check'[i] = "kill" => check[i] = "kill"
          /\ health' \in Health
          /\ health'.restarting =>
               health.restarting /\ health'.misled = health.misled
          /\ UNCHANGED <<mon, child, orphaned, raced>>
      <3>1. /\ check' \in [Checks -> CheckStages]
            /\ \A i \in Checks : check'[i] = "kill" => check[i] = "kill"
            /\ UNCHANGED <<mon, child, orphaned, raced>>
        BY <1>1, <1>3 DEF ProbeAnswered, AnswerLogged, CheckStages
      <3>2. ClearFailures(health) \in Health /\ ~ClearFailures(health).restarting
        <4>1. 0 \in 0..FailureThreshold
          BY MonitorAssumption
        <4>2. QED
          BY <1>1, <4>1 DEF ClearFailures, Health
      <3>3. \/ health' = ClearFailures(health)
            \/ health' = [health EXCEPT !.confirmed = TRUE]
        BY <1>3 DEF ProbeAnswered, AnswerLogged
      <3>4. CASE health' = [health EXCEPT !.confirmed = TRUE]
        BY <1>1, <3>1, <3>4 DEF Health
      <3>5. QED
        BY <3>1, <3>2, <3>3, <3>4
    <2>2. TypeOK'
      BY <1>1, <2>1 DEF TypeOK
    <2>3. RestartFollowsExit'
      BY <1>1, <2>1 DEF Safe, RestartFollowsExit, Honest, RunningIsLive, Live, Up
    <2>4. Honest'
      BY <1>1, <2>1 DEF Safe, RestartFollowsExit, Honest, RunningIsLive, StoppedIsDead,
                        HealthFlagIsHonest, NothingOrphaned, Live
    <2>5. QuietShutdown'
      BY <1>1, <2>1 DEF Safe, RestartFollowsExit, Honest, StoppedIsDead, RunningIsLive,
                        QuietShutdown, Live, Up
    <2>6. KillHasTarget'
      BY <1>1, <2>1 DEF Safe, RestartFollowsExit, Honest, RunningIsLive, KillHasTarget, Live
    <2>7. QED
      BY <2>2, <2>3, <2>4, <2>5, <2>6 DEF Safe
  <1>4. CASE ProbeFailed(k)
    <2>1. /\ check' \in [Checks -> CheckStages]
          /\ \A i \in Checks : check'[i] = "kill" => check[i] = "kill"
          /\ health' \in Health /\ health'.restarting = health.restarting
          /\ health'.misled = health.misled
          /\ UNCHANGED <<mon, child, orphaned, raced>>
      BY <1>1, <1>4, MonitorAssumption DEF ProbeFailed, Health, CheckStages
    <2>2. TypeOK'
      BY <1>1, <1>4, <2>1 DEF ProbeFailed, TypeOK
    <2>3. RestartFollowsExit'
      BY <1>1, <2>1 DEF Safe, RestartFollowsExit, Honest, RunningIsLive, Live, Up
    <2>4. Honest'
      BY <1>1, <2>1 DEF Safe, RestartFollowsExit, Honest, RunningIsLive, StoppedIsDead,
                        HealthFlagIsHonest, NothingOrphaned, Live
    <2>5. QuietShutdown'
      BY <1>1, <2>1 DEF Safe, RestartFollowsExit, Honest, StoppedIsDead, RunningIsLive,
                        QuietShutdown, Live, Up
    <2>6. KillHasTarget'
      BY <1>1, <2>1 DEF Safe, RestartFollowsExit, Honest, RunningIsLive, KillHasTarget, Live
    <2>7. QED
      BY <2>2, <2>3, <2>4, <2>5, <2>6 DEF Safe
  <1>5. CASE HealthKill(k)
    <2>1. /\ check' = [check EXCEPT ![k] = IF Live THEN "kill" ELSE "idle"]
          /\ child' \in Children /\ child' = IF child = "alive" THEN "termed" ELSE child
          /\ health' \in Health /\ health'.restarting
          /\ mon.startup = "stable" => health'.misled
          /\ UNCHANGED <<mon, orphaned, raced>>
      BY <1>1, <1>5 DEF HealthKill, Health, Children
    <2>2. TypeOK'
      BY <1>1, <1>5, <2>1 DEF HealthKill, TypeOK, CheckStages
    <2>3. RestartFollowsExit'
      BY <1>1, <2>1 DEF Safe, RestartFollowsExit, Honest, RunningIsLive, Live, Up
    <2>4. Honest'
      BY <1>1, <2>1 DEF Safe, RestartFollowsExit, Honest, RunningIsLive, StoppedIsDead,
                        HealthFlagIsHonest, NothingOrphaned, Live
    <2>5. QuietShutdown'
      BY <1>1, <2>1 DEF Safe, RestartFollowsExit, Honest, StoppedIsDead, RunningIsLive,
                        QuietShutdown, Live, Up
    <2>6. KillHasTarget'
      BY <1>1, <2>1 DEF Safe, RestartFollowsExit, Honest, RunningIsLive, KillHasTarget, Live
    <2>7. QED
      BY <2>2, <2>3, <2>4, <2>5, <2>6 DEF Safe
  <1>6. CASE HealthKillTimeout(k)
    <2>1. /\ check' = [check EXCEPT ![k] = "idle"]
          /\ child' = "killed" /\ Live
          /\ UNCHANGED <<mon, health, orphaned, raced>>
      BY <1>1, <1>6 DEF HealthKillTimeout, Safe, KillHasTarget
    <2>2. TypeOK'
      BY <1>1, <1>6, <2>1 DEF HealthKillTimeout, TypeOK, Children, CheckStages
    <2>3. RestartFollowsExit'
      BY <1>1, <2>1 DEF Safe, RestartFollowsExit, Honest, RunningIsLive, Live, Up
    <2>4. Honest'
      BY <1>1, <2>1 DEF Safe, RestartFollowsExit, Honest, RunningIsLive, StoppedIsDead,
                        HealthFlagIsHonest, NothingOrphaned, Live
    <2>5. QuietShutdown'
      BY <1>1, <2>1 DEF Safe, RestartFollowsExit, Honest, StoppedIsDead, RunningIsLive,
                        QuietShutdown, Live, Up
    <2>6. KillHasTarget'
      BY <1>1, <2>1 DEF Safe, RestartFollowsExit, Honest, RunningIsLive, KillHasTarget, Live
    <2>7. QED
      BY <2>2, <2>3, <2>4, <2>5, <2>6 DEF Safe
  <1>7. QED
    BY <1>2, <1>3, <1>4, <1>5, <1>6 DEF CheckStep

-------------------------------------------------------------------------------
(* Theorems *)

LEMMA SafeInvariant == Spec => []Safe
  <1>1. ASSUME Init
        PROVE  Safe
    <2>1. TypeOK
      <3>1. mon \in Monitor
        BY <1>1, MonitorAssumption DEF Init, Monitor, States
      <3>2. health \in Health
        BY <1>1, MonitorAssumption DEF Init, Health, FreshHealth
      <3>3. QED
        BY <1>1, <3>1, <3>2 DEF Init, TypeOK, Children, CheckStages
    <2>2. RestartFollowsExit /\ KillHasTarget
      BY <1>1 DEF Init, RestartFollowsExit, KillHasTarget, Live, Up
    <2>3. Honest
      BY <1>1 DEF Init, Honest, RunningIsLive, StoppedIsDead, HealthFlagIsHonest,
                  NothingOrphaned, FreshHealth
    <2>4. QuietShutdown
      BY <1>1 DEF Init, QuietShutdown
    <2>5. QED
      BY <2>1, <2>2, <2>3, <2>4 DEF Safe
  <1>2. Safe /\ [Next]_vars => Safe'
    <2> SUFFICES ASSUME Safe, [Next]_vars
                 PROVE  Safe'
      OBVIOUS
    <2>1. CASE UNCHANGED vars
      BY <2>1
      DEF vars, Safe, TypeOK, RestartFollowsExit, Honest, RunningIsLive, StoppedIsDead,
          HealthFlagIsHonest, NothingOrphaned, QuietShutdown, KillHasTarget, Live, Up
    <2>2. CASE Next
      BY <2>2, ShutdownStep, StartStepHolds, ChildStepHolds, CheckStepHolds DEF Next
    <2>3. QED
      BY <2>1, <2>2
  <1>3. QED
    BY <1>1, <1>2, PTL DEF Spec

\* Every variable keeps its type; restartCount stays within its limit.
THEOREM MonitorTypes == Spec => []TypeOK
  BY SafeInvariant, PTL DEF Safe

\* Two restarts are never under way at once.
THEOREM OneRestartAtATime == Spec => []OneRestart
  <1>1. Safe => OneRestart
    BY DEF Safe, RestartFollowsExit, OneRestart
  <1>2. QED
    BY <1>1, SafeInvariant, PTL

\* A restart never leaves the process it replaces running.
THEOREM RestartsReplaceTheDead == Spec => []NothingOrphaned
  BY SafeInvariant, PTL DEF Safe, Honest

\* `running` is said only of a process that has not exited.
THEOREM RunningMeansLive == Spec => []RunningIsLive
  BY SafeInvariant, PTL DEF Safe, Honest

\* `stopped` is said only of a process that has exited or been sent SIGKILL.
THEOREM StoppedMeansDead == Spec => []StoppedIsDead
  BY SafeInvariant, PTL DEF Safe, Honest

\* healthRestartInProgress shields a running process from restarts only while that
\* process dies from a kill, or when a check crossed the start of this very process.
THEOREM HealthFlagStandsForAKill == Spec => []HealthFlagIsHonest
  BY SafeInvariant, PTL DEF Safe, Honest

\* A shutdown that no restart crosses leaves no process running.
THEOREM QuietShutdownKills == Spec => []ShutdownKills
  <1>1. Safe => ShutdownKills
    BY DEF Safe, QuietShutdown, ShutdownKills
  <1>2. QED
    BY <1>1, SafeInvariant, PTL

-------------------------------------------------------------------------------
(* The shutdown ends *)

\* The awaits of a shutdown, and how many of them may still come: stop() has
\* four and is called twice, by stop and by cleanup.
Awaits == {"log", "cancel", "kill", "final", "logs"}

AwaitsLeft(shutdown, pass) ==
  LET again == IF pass = 1 THEN 4 ELSE 0
  IN IF shutdown = "log" THEN 5 + again
     ELSE IF shutdown = "cancel" THEN 4 + again
     ELSE IF shutdown = "kill" THEN 3 + again
     ELSE IF shutdown = "final" THEN 2 + again
     ELSE IF shutdown = "logs" THEN 1 ELSE 0

\* A shutdown with at most n awaits ahead.
Stopping(n) ==
  /\ mon.shutdown \in Awaits \cup {"exited"}
  /\ AwaitsLeft(mon.shutdown, mon.pass) <= n

\* Weak fairness of StopStep, which can be taken in every await of a shutdown:
\* none of them lasts forever.
AwaitsEnd == []<>(mon.shutdown \notin Awaits) \/ []<><<StopStep>>_vars

\* Every return of stop() leaves fewer awaits.
LEMMA ReturnLeft ==
  ASSUME NEW m \in Monitor, m.shutdown \in {"log", "cancel", "kill", "final"}
  PROVE  /\ StopReturns(m).shutdown \in Awaits
         /\ AwaitsLeft(StopReturns(m).shutdown, StopReturns(m).pass)
              < AwaitsLeft(m.shutdown, m.pass)
  <1> DEFINE r == StopReturns(m)
  <1>1. /\ r.shutdown \in {"log", "logs"}
        /\ r.shutdown = "log" => m.pass = 1
    BY ReturnFacts
  <1>2. r.pass = 2 /\ m.pass \in {1, 2}
    BY DEF StopReturns, CleanUp, Monitor
  <1> HIDE DEF r
  <1>3. /\ r.shutdown \in Awaits
        /\ AwaitsLeft(r.shutdown, r.pass) < AwaitsLeft(m.shutdown, m.pass)
    BY <1>1, <1>2 DEF AwaitsLeft, Awaits
  <1>4. QED
    BY <1>3 DEF r

LEMMA SettleLeft ==
  ASSUME NEW m \in Monitor, m.shutdown \in {"log", "cancel", "kill"}
  PROVE  /\ StopSettles(m).shutdown \in Awaits
         /\ AwaitsLeft(StopSettles(m).shutdown, StopSettles(m).pass)
              < AwaitsLeft(m.shutdown, m.pass)
  <1>1. CASE m.state = "stopping"
    <2> DEFINE r == StopSettles(m)
    <2>1. r.shutdown = "final" /\ r.pass = m.pass /\ m.pass \in {1, 2}
      BY <1>1 DEF StopSettles, Monitor
    <2> HIDE DEF r
    <2>2. /\ r.shutdown \in Awaits
          /\ AwaitsLeft(r.shutdown, r.pass) < AwaitsLeft(m.shutdown, m.pass)
      BY <2>1 DEF AwaitsLeft, Awaits
    <2>3. QED
      BY <2>2 DEF r
  <1>2. CASE m.state # "stopping"
    BY <1>2, ReturnLeft DEF StopSettles
  <1>3. QED
    BY <1>1, <1>2

LEMMA KillLeft ==
  ASSUME NEW m \in Monitor, Kill(m), m.shutdown \in {"log", "cancel"}
  PROVE  /\ mon'.shutdown \in Awaits
         /\ AwaitsLeft(mon'.shutdown, mon'.pass) < AwaitsLeft(m.shutdown, m.pass)
  <1> DEFINE quiet == [m EXCEPT !.ticking = FALSE]
  <1>1. /\ quiet \in Monitor /\ quiet.shutdown = m.shutdown /\ quiet.pass = m.pass
        /\ m.pass \in {1, 2}
    BY DEF Monitor
  <1>2. CASE Live
    <2>1. mon'.shutdown = "kill" /\ mon'.pass = m.pass
      BY <1>1, <1>2 DEF Kill, Monitor
    <2>2. QED
      BY <1>1, <2>1 DEF AwaitsLeft, Awaits
  <1>3. CASE ~Live
    <2>1. mon' = StopSettles(quiet)
      BY <1>3 DEF Kill
    <2> HIDE DEF quiet
    <2>2. QED
      BY <1>1, <2>1, SettleLeft
  <1>4. QED
    BY <1>2, <1>3

\* A shutdown never goes back, and each of its own steps takes it on.
LEMMA ShutdownGoesOn ==
  ASSUME Safe, [Next]_vars, mon.shutdown \in Awaits \cup {"exited"}
  PROVE  /\ mon'.shutdown \in Awaits \cup {"exited"}
         /\ AwaitsLeft(mon.shutdown, mon.pass) \in 0..9
         /\ AwaitsLeft(mon'.shutdown, mon'.pass) <= AwaitsLeft(mon.shutdown, mon.pass)
         /\ StopStep => AwaitsLeft(mon'.shutdown, mon'.pass)
                          < AwaitsLeft(mon.shutdown, mon.pass)
  <1> DEFINE Goes == /\ mon'.shutdown \in Awaits \cup {"exited"}
                     /\ AwaitsLeft(mon'.shutdown, mon'.pass)
                          <= AwaitsLeft(mon.shutdown, mon.pass)
             Falls == /\ mon'.shutdown \in Awaits \cup {"exited"}
                      /\ AwaitsLeft(mon'.shutdown, mon'.pass)
                           < AwaitsLeft(mon.shutdown, mon.pass)
  <1>1. mon \in Monitor /\ mon.pass \in {1, 2} /\ TypeOK
    BY DEF Safe, TypeOK, Monitor
  <1>2. AwaitsLeft(mon.shutdown, mon.pass) \in 0..9
    BY DEF AwaitsLeft
  <1>3. ASSUME mon'.shutdown = mon.shutdown, mon'.pass = mon.pass
        PROVE  Goes
    BY <1>2, <1>3
  <1>4. ASSUME StopStep
        PROVE  Falls
    <2>1. CASE StopLogged
      <3> DEFINE m == [mon EXCEPT !.state = "stopping"]
      <3>1. m \in Monitor /\ m.shutdown = "log" /\ m.pass = mon.pass
        BY <1>1, <2>1 DEF StopLogged, Monitor, States
      <3>2. CASE mon.timer
        <4>1. mon'.shutdown = "cancel" /\ mon'.pass = mon.pass /\ mon.shutdown = "log"
          BY <1>1, <2>1, <3>2 DEF StopLogged, Monitor
        <4>2. QED
          BY <1>1, <4>1 DEF AwaitsLeft, Awaits
      <3>3. CASE ~mon.timer
        <4>1. Kill(m) /\ mon.shutdown = "log"
          BY <2>1, <3>3 DEF StopLogged
        <4> HIDE DEF m
        <4>2. QED
          BY <3>1, <4>1, KillLeft
      <3>4. QED
        BY <3>2, <3>3
    <2>2. CASE StopCancelled
      BY <1>1, <2>2, KillLeft DEF StopCancelled
    <2>3. CASE StopKillTimeout
      BY <1>1, <2>3, SettleLeft DEF StopKillTimeout
    <2>4. CASE StopFinished
      BY <1>1, <2>4, ReturnLeft DEF StopFinished
    <2>5. CASE Exit
      <3>1. mon.shutdown = "logs" /\ mon'.shutdown = "exited"
        BY <1>1, <2>5 DEF Exit, Monitor
      <3>2. QED
        BY <3>1 DEF AwaitsLeft
    <2>6. QED
      BY <1>4, <2>1, <2>2, <2>3, <2>4, <2>5 DEF StopStep
  <1>5. ASSUME StartStep
        PROVE  Goes
    <2>1. CASE RestartTimerFires
      BY <1>1, <1>3, <2>1 DEF RestartTimerFires, Monitor
    <2>2. CASE Resume
      BY <1>1, <1>3, <2>2 DEF Resume, Monitor
    <2>3. CASE StartLogged \/ StableLogged
      <3>1. \/ mon'.shutdown = mon.shutdown /\ mon'.pass = mon.pass
            \/ mon'.shutdown = "exited"
        <4>1. ASSUME NEW restarts \in 0..MaxRestarts, Spawn(restarts)
              PROVE  \/ mon'.shutdown = mon.shutdown /\ mon'.pass = mon.pass
                     \/ mon'.shutdown = "exited"
          BY <1>1, <4>1, SpawnFacts
        <4>2. CASE mon' = [mon EXCEPT !.startup = "stable"]
          BY <1>1, <4>2 DEF Monitor
        <4>3. QED
          BY <1>1, <2>3, <4>1, <4>2, StartFacts
      <3>2. QED
        BY <1>2, <1>3, <3>1 DEF AwaitsLeft
    <2>4. CASE Started
      BY <2>4 DEF Started, Awaits
    <2>5. QED
      BY <1>5, <2>1, <2>2, <2>3, <2>4 DEF StartStep
  <1>6. ASSUME ChildExits
        PROVE  Goes
    <2>1. PICK kind : LET m == AfterExit(mon, kind)
                      IN mon' = IF mon.shutdown = "kill" THEN StopReturns(m) ELSE m
      BY <1>6 DEF ChildExits
    <2> DEFINE m == AfterExit(mon, kind)
    <2>2. m \in Monitor /\ m.shutdown = mon.shutdown /\ m.pass = mon.pass
      BY <1>1, ExitFacts
    <2> HIDE DEF m
    <2>3. CASE mon.shutdown = "kill"
      BY <1>2, <2>1, <2>2, <2>3, ReturnLeft DEF m, AwaitsLeft
    <2>4. CASE mon.shutdown # "kill"
      BY <1>3, <2>1, <2>2, <2>4 DEF m
    <2>5. QED
      BY <2>3, <2>4
  <1>7. ASSUME FatalError \/ ErrorEvent
        PROVE  Goes
    BY <1>1, <1>3, <1>7 DEF FatalError, ErrorEvent, Monitor
  <1>8. ASSUME NEW k \in Checks, CheckStep(k)
        PROVE  Goes
    BY <1>3, <1>8
    DEF CheckStep, CheckBegins, ProbeAnswered, AnswerLogged, ProbeFailed, HealthKill,
        HealthKillTimeout
  <1>9. ASSUME Shutdown
        PROVE  Goes
    BY <1>9 DEF Shutdown, Awaits
  <1>10. ASSUME UNCHANGED vars
         PROVE  Goes
    BY <1>3, <1>10 DEF vars
  <1> HIDE DEF Goes, Falls
  <1>11. Falls => Goes
    BY <1>2 DEF Falls, Goes, AwaitsLeft
  <1> HIDE DEF Goes, Falls
  <1>12. Goes /\ (StopStep => Falls)
    BY <1>4, <1>5, <1>6, <1>7, <1>8, <1>9, <1>10, <1>11 DEF Next, ChildStep
  <1>13. QED
    BY <1>2, <1>12 DEF Goes, Falls

LEMMA StopsOn ==
  ASSUME Safe, [Next]_vars
  PROVE  /\ \A n \in 0..9 : Stopping(n) => Stopping(n)'
         /\ \A n \in 1..9 : Stopping(n) /\ StopStep => Stopping(n - 1)'
  <1>1. SUFFICES ASSUME mon.shutdown \in Awaits \cup {"exited"}
                 PROVE  /\ \A n \in 0..9 : Stopping(n) => Stopping(n)'
                        /\ \A n \in 1..9 : Stopping(n) /\ StopStep => Stopping(n - 1)'
    BY DEF Stopping
  <1>2. AwaitsLeft(mon'.shutdown, mon'.pass) \in Nat
    BY DEF AwaitsLeft
  <1>3. QED
    BY <1>1, <1>2, ShutdownGoesOn DEF Stopping

\* stop() never waits forever.
THEOREM ShutdownsEnd == Spec /\ AwaitsEnd => ShutdownEnds
  <1>1. Safe /\ [Next]_vars /\ Stopping(9) =>
          Stopping(9)' /\ (StopStep => Stopping(8)')
    BY StopsOn
  <1>2. Safe /\ [Next]_vars /\ Stopping(8) =>
          Stopping(8)' /\ (StopStep => Stopping(7)')
    BY StopsOn
  <1>3. Safe /\ [Next]_vars /\ Stopping(7) =>
          Stopping(7)' /\ (StopStep => Stopping(6)')
    BY StopsOn
  <1>4. Safe /\ [Next]_vars /\ Stopping(6) =>
          Stopping(6)' /\ (StopStep => Stopping(5)')
    BY StopsOn
  <1>5. Safe /\ [Next]_vars /\ Stopping(5) =>
          Stopping(5)' /\ (StopStep => Stopping(4)')
    BY StopsOn
  <1>6. Safe /\ [Next]_vars /\ Stopping(4) =>
          Stopping(4)' /\ (StopStep => Stopping(3)')
    BY StopsOn
  <1>7. Safe /\ [Next]_vars /\ Stopping(3) =>
          Stopping(3)' /\ (StopStep => Stopping(2)')
    BY StopsOn
  <1>8. Safe /\ [Next]_vars /\ Stopping(2) =>
          Stopping(2)' /\ (StopStep => Stopping(1)')
    BY StopsOn
  <1>9. Safe /\ [Next]_vars /\ Stopping(1) =>
          Stopping(1)' /\ (StopStep => Stopping(0)')
    BY StopsOn
  <1>10. Stopping(0) => mon.shutdown = "exited"
    BY DEF Stopping, AwaitsLeft, Awaits
  <1>11. Safe /\ mon.shutdown = "log" => Stopping(9)
    BY DEF Stopping, AwaitsLeft, Awaits
  <1>12. mon.shutdown \notin Awaits => (\/ mon.shutdown = "exited" \/ ~Stopping(9))
    BY DEF Stopping
  <1>13. QED
    BY <1>1, <1>2, <1>3, <1>4, <1>5, <1>6, <1>7, <1>8, <1>9, <1>10, <1>11, <1>12,
       SafeInvariant, PTL DEF Spec, AwaitsEnd, ShutdownEnds

-------------------------------------------------------------------------------
(* A process that is to be killed goes *)

\* Weak fairness of what a health check does about a process, again with the
\* states in which each step can be taken written out.
KillGoesOn(k) ==
  /\ []<>~(check[k] = "log") \/ []<><<HealthKill(k)>>_vars
  /\ []<>~(check[k] = "kill") \/ []<><<HealthKillTimeout(k)>>_vars

Killed == child = "killed" /\ Up

SigkillEnds == []<>(~Killed) \/ []<><<child = "killed" /\ ChildExits>>_vars

Gone == ~Live \/ ~Up

\* A check that has decided to kill goes on to do so, unless the monitor exits.
LEMMA CheckGoesOn ==
  ASSUME Safe, [Next]_vars, NEW k \in Checks
  PROVE  /\ check[k] = "log" => check'[k] \in {"log", "kill"} \/ Gone'
         /\ check[k] = "kill" => check'[k] = "kill" \/ Killed' \/ Gone'
         /\ Killed => Killed' \/ Gone'
  <1> DEFINE GoesOn ==
        /\ check[k] = "log" => check'[k] \in {"log", "kill"} \/ Gone'
        /\ check[k] = "kill" => check'[k] = "kill" \/ Killed' \/ Gone'
        /\ Killed => Killed' \/ Gone'
  <1>1. /\ check \in [Checks -> CheckStages]
        /\ mon.startup # "none" => ~Live
        /\ \A j \in Checks : check[j] = "kill" => Live
    BY DEF Safe, TypeOK, RestartFollowsExit, KillHasTarget
  <1>2. ASSUME check' = check, child = "killed" => child' = "killed"
        PROVE  GoesOn
    BY <1>2 DEF Killed, Gone
  <1>3. ASSUME Shutdown \/ StopStep
        PROVE  GoesOn
    <2>1. CASE Exit
      BY <2>1, <1>1 DEF Exit, Gone, Up, Killed
    <2>2. CASE ~Exit
      BY <1>2, <1>3, <2>2
      DEF Shutdown, StopStep, StopLogged, StopCancelled, StopKillTimeout,
          StopFinished, Kill
    <2>3. QED
      BY <2>1, <2>2
  <1>4. ASSUME StartStep
        PROVE  GoesOn
    <2>1. CASE StartLogged \/ StableLogged
      <3>1. ~Live /\ UNCHANGED check
        BY <1>1, <2>1 DEF StartLogged, StableLogged
      <3>2. QED
        BY <1>2, <3>1 DEF Live
    <2>2. CASE ~(StartLogged \/ StableLogged)
      BY <1>2, <1>4, <2>2 DEF StartStep, RestartTimerFires, Resume, Started
    <2>3. QED
      BY <2>1, <2>2
  <1>5. ASSUME ChildStep
        PROVE  GoesOn
    <2>1. CASE ChildExits
      BY <2>1 DEF ChildExits, Gone, Live
    <2>2. CASE ~ChildExits
      BY <1>2, <1>5, <2>2 DEF ChildStep, FatalError, ErrorEvent
    <2>3. QED
      BY <2>1, <2>2
  <1>6. ASSUME NEW j \in Checks, CheckStep(j)
        PROVE  GoesOn
    BY <1>1, <1>6
    DEF CheckStep, CheckBegins, ProbeAnswered, AnswerLogged, ProbeFailed, HealthKill,
        HealthKillTimeout, Killed, Gone, Up, Live
  <1>7. ASSUME UNCHANGED vars
        PROVE  GoesOn
    BY <1>2, <1>7 DEF vars
  <1> HIDE DEF GoesOn
  <1>8. GoesOn
    BY <1>3, <1>4, <1>5, <1>6, <1>7 DEF Next
  <1>9. QED
    BY <1>8 DEF GoesOn

\* A process that a check decides to kill goes, or the monitor does.
LEMMA HungEnds ==
  ASSUME NEW k \in Checks
  PROVE  Spec /\ KillGoesOn(k) /\ SigkillEnds =>
           (check[k] = "log" ~> ~Live \/ ~Up)
  <1>1. Safe /\ [Next]_vars =>
          /\ check[k] = "log" => (check[k] = "log")' \/ (check[k] = "kill")' \/ Gone'
          /\ check[k] = "kill" => (check[k] = "kill")' \/ Killed' \/ Gone'
          /\ Killed => Killed' \/ Gone'
    BY CheckGoesOn
  <1>2. Safe /\ <<HealthKill(k)>>_vars => (check[k] = "kill")' \/ Gone'
    BY DEF Safe, TypeOK, HealthKill, Gone, Live
  <1>3. Safe /\ <<HealthKillTimeout(k)>>_vars => Killed' \/ Gone'
    BY DEF HealthKillTimeout, Killed, Gone
  <1>4. <<child = "killed" /\ ChildExits>>_vars => Gone'
    BY DEF ChildExits, Gone, Live
  <1>5. Gone <=> ~Live \/ ~Up
    BY DEF Gone
  <1>6. QED
    BY <1>1, <1>2, <1>3, <1>4, <1>5, SafeInvariant, PTL
    DEF Spec, KillGoesOn, SigkillEnds

\* A process that a health check has found hung is gone in the end, by itself or
\* by the SIGKILL that the check sends when SIGTERM was of no use.
THEOREM HungProcessesEnd ==
  Spec /\ (\A k \in Checks : KillGoesOn(k)) /\ SigkillEnds => HungProcessEnds
  BY HungEnds DEF HungProcessEnds

-------------------------------------------------------------------------------
(* A restart happens *)

\* Weak fairness of StartStep while a restart is scheduled or in flight.
StartsGoOn == []<>~(mon.timer \/ mon.startup # "none") \/ []<><<StartStep>>_vars

Resuming == mon.startup = "resuming"

Starting == mon.startup = "starting"

Stable == mon.startup = "stable"

Settled == mon.state \in {"running", "stopped"} \/ mon.shutdown # "up"

\* Only a shutdown makes the monitor `stopping`.
StoppingInShutdown == mon.shutdown \in {"boot", "up"} => mon.state # "stopping"

LEMMA StoppingStep ==
  ASSUME Safe, StoppingInShutdown, [Next]_vars
  PROVE  StoppingInShutdown'
  <1>1. mon \in Monitor
    BY DEF Safe, TypeOK
  <1>2. ASSUME mon'.shutdown \in {"boot", "up"}, mon.shutdown \notin {"boot", "up"}
        PROVE  FALSE
    <2>1. mon'.shutdown \notin Awaits \cup {"exited"}
      BY <1>2 DEF Awaits
    <2>2. mon.shutdown \in Awaits \cup {"exited"}
      BY <1>1, <1>2 DEF Awaits, Monitor
    <2>3. QED
      BY <2>1, <2>2, ShutdownGoesOn
  <1>3. ASSUME mon.shutdown \in {"boot", "up"}, mon.state # "stopping"
        PROVE  mon'.state # "stopping" \/ mon'.shutdown \notin {"boot", "up"}
    <2>1. CASE Shutdown
      <3>1. mon'.shutdown \in Awaits
        <4>1. CASE Refused(mon)
          BY <1>1, <2>1, <4>1, ReturnFacts DEF Shutdown, Awaits
        <4>2. CASE ~Refused(mon)
          BY <1>1, <2>1, <4>2 DEF Shutdown, Awaits, Monitor
        <4>3. QED
          BY <4>1, <4>2
      <3>2. QED
        BY <3>1 DEF Awaits
    <2>2. CASE StopStep
      BY <1>3, <2>2
      DEF StopStep, StopLogged, StopCancelled, StopKillTimeout, StopFinished, Exit
    <2>3. CASE StartStep
      BY <1>1, <1>3, <2>3
      DEF StartStep, RestartTimerFires, Resume, StartLogged, StableLogged, StableRunFound,
          Spawn, Started, Runs, SpawnFails, Monitor
    <2>4. CASE ChildStep
      <3>1. ASSUME NEW kind
            PROVE  AfterExit(mon, kind).state # "stopping"
        BY <1>1, ExitFacts
      <3>2. CASE ChildExits
        <4>1. PICK kind : mon' = IF mon.shutdown = "kill"
                                 THEN StopReturns(AfterExit(mon, kind))
                                 ELSE AfterExit(mon, kind)
          BY <3>2 DEF ChildExits
        <4>2. mon' = AfterExit(mon, kind)
          BY <1>3, <4>1
        <4>3. QED
          BY <3>1, <4>2
      <3>3. CASE FatalError \/ ErrorEvent
        BY <1>1, <1>3, <3>3 DEF FatalError, ErrorEvent, Monitor
      <3>4. QED
        BY <2>4, <3>2, <3>3 DEF ChildStep
    <2>5. ASSUME NEW k \in Checks, CheckStep(k)
          PROVE  mon' = mon
      BY <2>5
      DEF CheckStep, CheckBegins, ProbeAnswered, AnswerLogged, ProbeFailed, HealthKill,
        HealthKillTimeout
    <2>6. CASE UNCHANGED vars
      BY <1>3, <2>6 DEF vars
    <2>7. QED
      BY <1>3, <2>1, <2>2, <2>3, <2>4, <2>5, <2>6 DEF Next
  <1>4. QED
    BY <1>2, <1>3 DEF StoppingInShutdown

\* A scheduled restart goes on from its timer to its spawn.
LEMMA RestartGoesOn ==
  ASSUME Safe, StoppingInShutdown, [Next]_vars, ~Settled
  PROVE  /\ mon.timer => mon'.timer \/ Resuming' \/ Settled'
         /\ mon.timer /\ StartStep => Resuming' \/ Settled'
         /\ Resuming => Resuming' \/ Starting' \/ Settled'
         /\ Resuming /\ StartStep => Starting' \/ Settled'
         /\ Starting => Starting' \/ Stable' \/ Settled'
         /\ Starting /\ StartStep => Stable' \/ Settled'
         /\ Stable => Stable' \/ Settled'
         /\ Stable /\ StartStep => Settled'
  <1> DEFINE Ahead == mon.timer \/ mon.startup # "none"
             Same == mon'.timer = mon.timer /\ mon'.startup = mon.startup
             GoesOn == /\ Ahead /\ ~StartStep => Same \/ Settled'
                       /\ mon.timer /\ StartStep => Resuming' \/ Settled'
                       /\ Resuming /\ StartStep => Starting' \/ Settled'
                       /\ Starting /\ StartStep => Stable' \/ Settled'
                       /\ Stable /\ StartStep => Settled'
  <1>1. /\ mon \in Monitor /\ child \in Children
        /\ mon.startup # "none" => ~Live
        /\ mon.timer => mon.startup = "none" /\ ~Live
        /\ mon.state = "crashed" \/ Starting \/ Stable
        /\ mon.shutdown = "up"
    <2>1. mon.shutdown = "up" /\ mon.state \in {"starting", "crashed"}
      BY DEF Safe, TypeOK, Monitor, States, Settled, StoppingInShutdown
    <2>2. mon.state = "starting" => Starting \/ Stable
      BY <2>1 DEF Safe, RestartFollowsExit, Starting, Stable, Up
    <2>3. QED
      BY <2>1, <2>2 DEF Safe, TypeOK, RestartFollowsExit
  <1>2. ASSUME StartStep
        PROVE  GoesOn
    <2>1. CASE RestartTimerFires
      BY <1>1, <1>2, <2>1 DEF RestartTimerFires, Resuming, Starting, Stable, Monitor
    <2>2. CASE Resume
      BY <1>1, <1>2, <2>2 DEF Resume, Resuming, Starting, Stable, Monitor
    <2>3. CASE StartLogged \/ StableLogged
      BY <1>1, <1>2, <2>3
      DEF StartLogged, StableLogged, StableRunFound, Spawn, Runs, SpawnFails, Resuming,
          Starting, Stable, Settled, Monitor
    <2>4. CASE Started
      BY <1>1, <2>4 DEF Started
    <2>5. QED
      BY <1>2, <2>1, <2>2, <2>3, <2>4 DEF StartStep
  <1>3. ASSUME Shutdown
        PROVE  Settled'
    <2>1. CASE Refused(mon)
      BY <1>1, <1>3, <2>1, ReturnFacts DEF Shutdown, Settled
    <2>2. CASE ~Refused(mon)
      BY <1>1, <1>3, <2>2 DEF Shutdown, Settled, Monitor
    <2>3. QED
      BY <2>1, <2>2
  <1>4. ASSUME StopStep
        PROVE  FALSE
    BY <1>1, <1>4
    DEF StopStep, StopLogged, StopCancelled, StopKillTimeout, StopFinished, Exit
  <1>5. ASSUME ChildStep, Ahead
        PROVE  Same
    BY <1>1, <1>5 DEF ChildStep, ChildExits, FatalError, ErrorEvent, Live
  <1>6. ASSUME NEW k \in Checks, CheckStep(k)
        PROVE  Same
    BY <1>6
    DEF CheckStep, CheckBegins, ProbeAnswered, AnswerLogged, ProbeFailed, HealthKill,
        HealthKillTimeout
  <1>7. ASSUME UNCHANGED vars
        PROVE  Same
    BY <1>7 DEF vars
  <1>8. GoesOn
    <2> HIDE DEF Same, Ahead
    <2>1. QED
      BY <1>2, <1>3, <1>4, <1>5, <1>6, <1>7 DEF Next
  <1>9. QED
    BY <1>8 DEF Resuming, Starting, Stable

\* A scheduled restart is carried out, fails, or is cancelled.
THEOREM RestartsHappen == Spec /\ StartsGoOn => RestartHappens
  <1>1. Init => StoppingInShutdown
    BY DEF Init, StoppingInShutdown
  <1>2. Safe /\ StoppingInShutdown /\ [Next]_vars => StoppingInShutdown'
    BY StoppingStep
  <1>3. Safe /\ StoppingInShutdown /\ [Next]_vars /\ ~Settled =>
          /\ mon.timer => (mon.timer)' \/ Resuming' \/ Settled'
          /\ mon.timer /\ StartStep => Resuming' \/ Settled'
          /\ Resuming => Resuming' \/ Starting' \/ Settled'
          /\ Resuming /\ StartStep => Starting' \/ Settled'
          /\ Starting => Starting' \/ Stable' \/ Settled'
          /\ Starting /\ StartStep => Stable' \/ Settled'
          /\ Stable => Stable' \/ Settled'
          /\ Stable /\ StartStep => Settled'
    BY RestartGoesOn
  <1>4. ~(mon.timer \/ mon.startup # "none") =>
          ~mon.timer /\ ~Resuming /\ ~Starting /\ ~Stable
    BY DEF Resuming, Starting, Stable
  <1>5. Settled <=> mon.state \in {"running", "stopped"} \/ mon.shutdown # "up"
    BY DEF Settled
  <1>6. QED
    BY <1>1, <1>2, <1>3, <1>4, <1>5, SafeInvariant, PTL
    DEF Spec, StartsGoOn, RestartHappens

-------------------------------------------------------------------------------
(* A process that had to be killed is started again *)

\* Where HealthKillRestarts does hold: the process did not answer SIGTERM, so
\* that its exit is no clean one.
KilledRestarts ==
  [][/\ mon.state = "running" /\ mon.shutdown = "up" /\ mon.restarts < MaxRestarts
     /\ child = "killed" /\ child' = "gone"
     => mon'.timer]_vars

\* The exit of a running process that was sent SIGKILL arms the restart timer
\* while restarts are left, in every interleaving with start() and other checks.
THEOREM KilledProcessesRestart == Spec => KilledRestarts
  <1>1. ASSUME Safe, [Next]_vars, mon.state = "running", mon.shutdown = "up",
               mon.restarts < MaxRestarts, child = "killed", child' = "gone"
        PROVE  mon'.timer
    <2>1. mon.startup = "none" /\ mon \in Monitor
      BY <1>1 DEF Safe, TypeOK, RestartFollowsExit, Live
    <2>2. ChildExits
      BY <1>1, <2>1
      DEF Next, vars, Shutdown, StopStep, StopLogged, StopCancelled, StopKillTimeout,
          StopFinished, Exit, StartStep, RestartTimerFires, Resume, StartLogged,
          StableLogged, Started, ChildStep, FatalError, ErrorEvent, CheckStep, CheckBegins, ProbeAnswered,
          AnswerLogged, ProbeFailed, HealthKill, HealthKillTimeout
    <2>3. mon' = AfterExit(mon, "failed")
      BY <1>1, <2>2 DEF ChildExits
    <2>4. QED
      BY <1>1, <2>1, <2>3 DEF AfterExit, CanRestart, Monitor
  <1>2. Safe /\ [Next]_vars =>
          (/\ mon.state = "running" /\ mon.shutdown = "up" /\ mon.restarts < MaxRestarts
           /\ child = "killed" /\ child' = "gone"
           => mon'.timer)
    BY <1>1
  <1>3. QED
    BY <1>2, SafeInvariant, PTL DEF Spec, KilledRestarts
===============================================================================
