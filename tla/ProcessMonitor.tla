----------------------------- MODULE ProcessMonitor -----------------------------
(***************************************************************************)
(* container/process-monitor.ts: the monitor of the dev server inside a    *)
(* sandbox, with the one caller it has, ProcessRunner of cli-tools.ts: it  *)
(* starts the monitor once, and the first SIGTERM, SIGINT or SIGHUP makes  *)
(* it stop the monitor, clean up (which stops it again) and exit.          *)
(*                                                                         *)
(* A step runs from one await to the next.  What interleaves is the        *)
(* shutdown, start() as the restart timer calls it, health checks, and the *)
(* child: every log line the monitor writes is an await between a check of *)
(* `state` and what follows the check.                                     *)
(***************************************************************************)
EXTENDS Naturals

CONSTANTS
  Checks,             \* health checks that may overlap (bound)
  MaxRestarts,        \* options.maxRestarts
  FailureThreshold    \* PORT_FAILURE_THRESHOLD, 2 in the code

ASSUME MonitorAssumption ==
  /\ MaxRestarts \in Nat
  /\ FailureThreshold \in Nat \ {0}

VARIABLES
  mon,       \* fields of the monitor and where its async functions are
  child,     \* childProcess
  health,    \* port health tracking
  check,     \* the health checks in flight
  orphaned,  \* history: a start() replaced a process that was still alive
  raced      \* history: a restart was in flight during the shutdown

vars == <<mon, child, health, check, orphaned, raced>>

-------------------------------------------------------------------------------
(* Types *)

States == {"starting", "running", "stopping", "stopped", "crashed"}

\* startup: where start() is: about to be called by the timer callback
\*   ("resuming"), at its first log line ("starting"), or at the log line about
\*   the stable run before it ("stable").
\* shutdown: the await the shutdown is in: "log" and "cancel" before the kill,
\*   "kill" for the exit, "final" after `stopped`, "logs" for the log cleanup.
Monitor == [state    : States,
            restarts : 0..MaxRestarts,       \* restartCount
            timer    : BOOLEAN,              \* restartTimer is set
            ticking  : BOOLEAN,              \* healthCheckTimer is set
            startup  : {"none", "resuming", "starting", "stable"},
            shutdown : {"boot", "up", "log", "cancel", "kill", "final", "logs",
                        "exited"},
            pass     : {1, 2}]               \* stop() by stop, by cleanup

\* "termed" and "killed" processes have been sent SIGTERM and SIGKILL.
Children == {"none", "alive", "termed", "killed", "gone"}

Health == [fails      : 0..FailureThreshold,  \* portFailureCount
           confirmed  : BOOLEAN,              \* portBindConfirmed
           restarting : BOOLEAN,              \* healthRestartInProgress
           misled     : BOOLEAN]              \* history: it was set in a start()
                                              \* that had already cleared it

\* Where a health check is: at the port probe, or at an await of what follows it:
\* the log line of an answer, the log line of a restart, or the kill.
CheckStages == {"idle", "probe", "answered", "log", "kill"}

TypeOK ==
  /\ mon \in Monitor
  /\ child \in Children
  /\ health \in Health
  /\ check \in [Checks -> CheckStages]
  /\ orphaned \in BOOLEAN
  /\ raced \in BOOLEAN

FreshHealth ==
  [fails |-> 0, confirmed |-> FALSE, restarting |-> FALSE, misled |-> FALSE]

Init ==
  /\ mon = [state |-> "starting", restarts |-> 0, timer |-> FALSE,
            ticking |-> FALSE, startup |-> "starting", shutdown |-> "boot",
            pass |-> 1]
  /\ child = "none"
  /\ health = FreshHealth
  /\ check = [k \in Checks |-> "idle"]
  /\ orphaned = FALSE
  /\ raced = FALSE

Live == child \in {"alive", "termed", "killed"}

Up == mon.shutdown # "exited"

-------------------------------------------------------------------------------
(* Shutdown: what follows each await of ProcessRunner.stop *)

\* Mutant: stop() has nothing to do for a crashed process.
RefusedCrashed(m) == m.state \in {"stopped", "starting", "crashed"}

\* stop() has nothing to do, or refuses to interrupt a start().
Refused(m) == m.state \in {"stopped", "starting"}

\* cleanup() cancels the timers and calls stop() again.
CleanUp(m) ==
  LET c == [m EXCEPT !.pass = 2, !.timer = FALSE, !.ticking = FALSE]
  IN [c EXCEPT !.shutdown = IF Refused(c) THEN "logs" ELSE "log"]

\* stop() returns, whatever its result.
StopReturns(m) == IF m.pass = 1 THEN CleanUp(m) ELSE [m EXCEPT !.shutdown = "logs"]

\* killProcess is over; the exit handler may have written `stopped` already.
StopSettles(m) ==
  IF m.state = "stopping"
  THEN [m EXCEPT !.state = "stopped", !.shutdown = "final"]
  ELSE StopReturns(m)

\* stop() from the point where the restart timer is cleared to its next await.
\* killProcess returns at once when the process has exited.
Kill(m) ==
  LET quiet == [m EXCEPT !.ticking = FALSE]
  IN IF Live
     THEN /\ mon' = [quiet EXCEPT !.shutdown = "kill"]
          /\ child' = IF child = "alive" THEN "termed" ELSE child
     ELSE mon' = StopSettles(quiet) /\ UNCHANGED child

\* The first termination signal; later ones are ignored.
Shutdown ==
  /\ mon.shutdown = "up"
  /\ mon' = IF Refused(mon) THEN StopReturns(mon) ELSE [mon EXCEPT !.shutdown = "log"]
  /\ raced' = (mon.startup # "none")
  /\ UNCHANGED <<child, health, check, orphaned>>

\* The stop request is logged; the state may have changed in the meantime.
StopLogged ==
  /\ mon.shutdown = "log"
  /\ IF mon.timer
     THEN /\ mon' = [mon EXCEPT !.state = "stopping", !.timer = FALSE,
                                !.shutdown = "cancel"]
          /\ UNCHANGED child
     ELSE Kill([mon EXCEPT !.state = "stopping"])
  /\ UNCHANGED <<health, check, orphaned, raced>>

StopCancelled ==
  /\ mon.shutdown = "cancel"
  /\ Kill(mon)
  /\ UNCHANGED <<health, check, orphaned, raced>>

\* Mutant: no SIGKILL when killTimeout is over.
StopKillTimeoutGentle ==
  /\ mon.shutdown = "kill"
  /\ mon' = StopSettles(mon)
  /\ UNCHANGED <<child, health, check, orphaned, raced>>

\* Mutant: no killTimeout.
StopKillTimeoutMissing ==
  /\ mon.shutdown = "kill"
  /\ ~Live
  /\ mon' = StopSettles(mon)
  /\ UNCHANGED <<child, health, check, orphaned, raced>>

\* killTimeout is over: SIGKILL, and stop() goes on without waiting for the exit.
StopKillTimeout ==
  /\ mon.shutdown = "kill"
  /\ child' = "killed"
  /\ mon' = StopSettles(mon)
  /\ UNCHANGED <<health, check, orphaned, raced>>

StopFinished ==
  /\ mon.shutdown = "final"
  /\ mon' = StopReturns(mon)
  /\ UNCHANGED <<child, health, check, orphaned, raced>>

\* The log file is removed; process.exit(0) ends the monitor and its timers, not
\* the child, which has its own process group.
Exit ==
  /\ mon.shutdown = "logs"
  /\ mon' = [mon EXCEPT !.shutdown = "exited", !.timer = FALSE,
                        !.ticking = FALSE, !.startup = "none"]
  /\ check' = [k \in Checks |-> "idle"]
  /\ UNCHANGED <<child, health, orphaned, raced>>

-------------------------------------------------------------------------------
(* Start and restart *)

\* Mutant: the callback gives up in the state the exit handler has left.
RestartTimerShy ==
  /\ mon.timer
  /\ mon' = [mon EXCEPT !.timer = FALSE,
                        !.startup = IF mon.state \in {"stopped", "stopping", "crashed"}
                                    THEN mon.startup ELSE "resuming"]
  /\ raced' = (raced \/ mon.shutdown # "up")
  /\ UNCHANGED <<child, health, check, orphaned>>

\* The restart timer fires: unless the monitor is stopped it logs, then starts.
RestartTimerFires ==
  /\ mon.timer
  /\ mon' = [mon EXCEPT !.timer = FALSE,
                        !.startup = IF mon.state \in {"stopped", "stopping"}
                                    THEN mon.startup ELSE "resuming"]
  /\ raced' = (raced \/ mon.shutdown # "up")
  /\ UNCHANGED <<child, health, check, orphaned>>

\* The timer callback calls start(), which refuses unless stopped or crashed.
Resume ==
  /\ mon.startup = "resuming"
  /\ mon' = IF mon.state \in {"stopped", "crashed"}
            THEN [mon EXCEPT !.state = "starting", !.startup = "starting"]
            ELSE [mon EXCEPT !.startup = "none"]
  /\ UNCHANGED <<child, health, check, orphaned, raced>>

\* spawn() has given a process.
Runs(restarts) ==
  /\ child' = "alive"
  /\ mon' = [mon EXCEPT !.state = "running", !.startup = "none",
                        !.ticking = TRUE, !.restarts = restarts]

\* Mutant: a process without a pid counts as running.
SpawnFailsUnseen(restarts) ==
  /\ child' = IF child = "none" THEN "none" ELSE "gone"
  /\ mon' = [mon EXCEPT !.state = "running", !.startup = "none",
                        !.ticking = TRUE, !.restarts = restarts]

\* spawn() has thrown, or given no pid: there is no process to kill or to wait
\* for.  When it is the first, the program ends.
SpawnFails(restarts) ==
  /\ child' = IF child = "none" THEN "none" ELSE "gone"
  /\ mon' = [mon EXCEPT !.state = "stopped", !.startup = "none",
                        !.restarts = restarts,
                        !.shutdown = IF child = "none" THEN "exited" ELSE @]

\* start() from its last await to its return: it does not look at the state again.
Spawn(restarts) ==
  /\ Runs(restarts) \/ SpawnFails(restarts)
  /\ orphaned' = (orphaned \/ Live)

\* Once a process has run, start() may find that it ran for more than five
\* minutes: it logs that restartCount starts again from 0.
StableRunFound ==
  /\ child # "none"
  /\ mon' = [mon EXCEPT !.startup = "stable"]
  /\ UNCHANGED <<child, orphaned>>

\* Mutant: the health tracking of the last run is kept.
StartLoggedStale ==
  /\ mon.startup = "starting"
  /\ StableRunFound \/ Spawn(mon.restarts)
  /\ UNCHANGED <<health, check, raced>>

\* start() after its first log line: the health tracking starts afresh.
StartLogged ==
  /\ mon.startup = "starting"
  /\ health' = FreshHealth
  /\ StableRunFound \/ Spawn(mon.restarts)
  /\ UNCHANGED <<check, raced>>

StableLogged ==
  /\ mon.startup = "stable"
  /\ Spawn(0)
  /\ UNCHANGED <<health, check, raced>>

\* ProcessCommands.start hears of the success and installs the signal handlers.
Started ==
  /\ mon.shutdown = "boot"
  /\ child # "none"
  /\ mon' = [mon EXCEPT !.shutdown = "up"]
  /\ UNCHANGED <<child, health, check, orphaned, raced>>

-------------------------------------------------------------------------------
(* The child *)

\* Mutant: a restart is scheduled once too often.
CanRestartOneMore(m, kind) == kind # "clean" /\ m.restarts <= MaxRestarts

\* shouldRestartAfterExit: "clean" is exit code 0 with recent output, "silent"
\* exit code 0 without, "failed" any other code or a signal.
CanRestart(m, kind) == kind # "clean" /\ m.restarts < MaxRestarts

\* The exit handler, with scheduleRestart.
AfterExit(m, kind) ==
  CASE m.state = "running" /\ CanRestart(m, kind) ->
         [m EXCEPT !.state = "crashed", !.timer = TRUE, !.restarts = @ + 1]
    [] m.state = "running" /\ ~CanRestart(m, kind) /\ kind = "failed" ->
         [m EXCEPT !.state = "crashed"]
    [] OTHER -> [m EXCEPT !.state = "stopped"]

\* The process exits, by itself or by a signal (it may answer SIGTERM with exit
\* code 0).  Whoever waits in killProcess goes on.
ChildExits ==
  /\ Up /\ Live
  /\ child' = "gone"
  /\ \E kind \in IF child = "killed" THEN {"failed"} ELSE {"clean", "silent", "failed"} :
       LET m == AfterExit(mon, kind)
       IN mon' = IF mon.shutdown = "kill" THEN StopReturns(m) ELSE m
  /\ check' = [k \in Checks |-> IF check[k] = "kill" THEN "idle" ELSE check[k]]
  /\ UNCHANGED <<health, orphaned, raced>>

\* handleFatalError: a fatal log line of a running process gets it a SIGTERM.
FatalError ==
  /\ Up
  /\ mon.state = "running" /\ child = "alive"
  /\ child' = "termed"
  /\ UNCHANGED <<mon, health, check, orphaned, raced>>

\* Mutant: an error is a crash to recover from.
ErrorEventRestarting ==
  /\ Up /\ Live
  /\ mon.state \in {"running", "starting"}
  /\ mon.restarts < MaxRestarts
  /\ mon' = [mon EXCEPT !.state = "crashed", !.timer = TRUE, !.restarts = @ + 1]
  /\ UNCHANGED <<child, health, check, orphaned, raced>>

\* The child emits an error, for instance because it cannot be signalled.
ErrorEvent ==
  /\ Up /\ Live
  /\ mon.state \in {"running", "starting"}
  /\ mon' = [mon EXCEPT !.state = "crashed"]
  /\ UNCHANGED <<child, health, check, orphaned, raced>>

-------------------------------------------------------------------------------
(* Health checks, for a monitor with an expected port *)

CheckBegins(k) ==
  /\ mon.ticking /\ mon.state = "running"
  /\ check[k] = "idle"
  /\ check' = [check EXCEPT ![k] = "probe"]
  /\ UNCHANGED <<mon, child, health, orphaned, raced>>

ClearFailures(h) == [h EXCEPT !.fails = 0, !.restarting = FALSE, !.misled = FALSE]

\* Something answered on the port, of this run of the process or of the last one.
\* News, or failures to forget, are logged first.
ProbeAnswered(k) ==
  LET quiet == health.confirmed /\ health.fails = 0
  IN /\ check[k] = "probe"
     /\ check' = [check EXCEPT ![k] = IF quiet THEN "idle" ELSE "answered"]
     /\ health' = IF quiet THEN ClearFailures(health)
                  ELSE [health EXCEPT !.confirmed = TRUE]
     /\ UNCHANGED <<mon, child, orphaned, raced>>

AnswerLogged(k) ==
  /\ check[k] = "answered"
  /\ check' = [check EXCEPT ![k] = "idle"]
  /\ health' = ClearFailures(health)
  /\ UNCHANGED <<mon, child, orphaned, raced>>

\* Nothing answered.  Before the port was first bound, the failure counts once
\* the start-up grace is over, for the run the check began in.
ProbeFailed(k) ==
  LET fails == IF health.fails < FailureThreshold THEN health.fails + 1
               ELSE FailureThreshold
      kill  == fails = FailureThreshold /\ ~health.restarting /\ mon.state = "running"
  IN /\ check[k] = "probe"
     /\ \/ /\ health' = [health EXCEPT !.fails = fails]
           /\ check' = [check EXCEPT ![k] = IF kill THEN "log" ELSE "idle"]
        \/ /\ ~health.confirmed
           /\ check' = [check EXCEPT ![k] = "idle"]
           /\ UNCHANGED health
     /\ UNCHANGED <<mon, child, orphaned, raced>>

\* Mutant: the restart is marked as under way and no signal is sent.
HealthKillQuiet(k) ==
  /\ check[k] = "log"
  /\ health' = [health EXCEPT !.restarting = TRUE]
  /\ check' = [check EXCEPT ![k] = "idle"]
  /\ UNCHANGED <<mon, child, orphaned, raced>>

\* The check has logged the restart; it kills whatever process there is now.
HealthKill(k) ==
  /\ check[k] = "log"
  /\ health' = [health EXCEPT !.restarting = TRUE,
                              !.misled = @ \/ mon.startup = "stable"]
  /\ check' = [check EXCEPT ![k] = IF Live THEN "kill" ELSE "idle"]
  /\ child' = IF child = "alive" THEN "termed" ELSE child
  /\ UNCHANGED <<mon, orphaned, raced>>

\* killTimeout is over: SIGKILL.
HealthKillTimeout(k) ==
  /\ check[k] = "kill"
  /\ check' = [check EXCEPT ![k] = "idle"]
  /\ child' = "killed"
  /\ UNCHANGED <<mon, health, orphaned, raced>>

-------------------------------------------------------------------------------

StopStep == StopLogged \/ StopCancelled \/ StopKillTimeout \/ StopFinished \/ Exit

StartStep == RestartTimerFires \/ Resume \/ StartLogged \/ StableLogged \/ Started

ChildStep == ChildExits \/ FatalError \/ ErrorEvent

CheckStep(k) ==
  \/ CheckBegins(k) \/ ProbeAnswered(k) \/ AnswerLogged(k) \/ ProbeFailed(k)
  \/ HealthKill(k) \/ HealthKillTimeout(k)

Next ==
  \/ Shutdown \/ StopStep \/ StartStep \/ ChildStep
  \/ \E k \in Checks : CheckStep(k)

Spec == Init /\ [][Next]_vars

\* Timers fire, log writes return, and SIGKILL ends a process.
FairSpec ==
  /\ Spec
  /\ WF_vars(StopStep)
  /\ WF_vars(StartStep)
  /\ WF_vars(child = "killed" /\ ChildExits)
  /\ \A k \in Checks : WF_vars(HealthKill(k)) /\ WF_vars(HealthKillTimeout(k))

-------------------------------------------------------------------------------
(* Properties *)

\* One restart at a time: while the restart timer is pending no start() is in
\* flight, so two never spawn side by side.
OneRestart == mon.timer => mon.startup = "none"

\* start() never replaces a process that is still alive: a restart follows the
\* exit of the process it replaces, in every interleaving with stop() and the
\* health checks.
NothingOrphaned == ~orphaned

\* The monitor says `running` only while the process it started has not exited.
RunningIsLive == mon.state = "running" => Live

\* The monitor says `stopped` only when the process has exited or has been sent
\* SIGKILL.
StoppedIsDead == mon.state = "stopped" => child \notin {"alive", "termed"}

\* healthRestartInProgress keeps later checks from restarting a running process.
\* It does so only while that process is dying from a kill, with one exception,
\* which the code has: a check that sets it while start(), past the reset, logs a
\* stable run.  The next process then runs with it set, and is not restarted when
\* it hangs, until its port has answered once.
HealthFlagIsHonest ==
  health.restarting /\ mon.state = "running"
    => child \in {"termed", "killed"} \/ health.misled

\* After a shutdown no process is left running, if no restart was in flight.
ShutdownKills ==
  mon.shutdown = "exited" /\ ~raced => child \notin {"alive", "termed"}

\* "Run in its own process group so stop/restart kills the full subtree": after
\* a shutdown no process is left running.  The code loses a restart that is past
\* its check of the state, or inside start(), when stop() is called.
ShutdownAlwaysKills == mon.shutdown = "exited" => child \notin {"alive", "termed"}

\* "Health-triggered restart": the exit of a process that a health check has
\* killed leads to a restart while restarts are left.  A process that answers
\* SIGTERM with exit code 0 is not restarted.
HealthKillRestarts ==
  [][/\ health.restarting /\ mon.state = "running" /\ mon.shutdown = "up"
     /\ mon.restarts < MaxRestarts /\ child # "gone" /\ child' = "gone"
     => mon'.timer]_vars

\* stop() never waits forever, not even for a process that has already exited.
ShutdownEnds == mon.shutdown = "log" ~> mon.shutdown = "exited"

\* A scheduled restart is carried out, fails, or is cancelled by a shutdown.
RestartHappens ==
  mon.timer ~> mon.state \in {"running", "stopped"} \/ mon.shutdown # "up"

\* A process whose port has stopped answering is not left hanging: once a check
\* decides to kill it, it goes, or the monitor itself does.
HungProcessEnds == \A k \in Checks : check[k] = "log" ~> ~Live \/ ~Up
===============================================================================
