----------------------------- MODULE SingleFlight -----------------------------
(***************************************************************************)
(* What DeploymentManager.deployToSandbox promises its callers: at any     *)
(* time at most one deployment is in flight, the caller that opened it     *)
(* owns it, callers that arrive meanwhile join it, and the flight is over  *)
(* when its owner is answered.  Retries, sandboxes and timers are left to  *)
(* the module Deployment, which implements this one.                       *)
(***************************************************************************)
CONSTANT Callers

VARIABLES role,    \* role[c]: "idle", "owner" or "joined"
          flying   \* a deployment is in flight

flightVars == <<role, flying>>

FlightInit ==
  /\ role = [c \in Callers |-> "idle"]
  /\ flying = FALSE

Open(c) ==
  /\ role[c] = "idle"
  /\ ~flying
  /\ role' = [role EXCEPT ![c] = "owner"]
  /\ flying' = TRUE

Join(c) ==
  /\ role[c] = "idle"
  /\ flying
  /\ role' = [role EXCEPT ![c] = "joined"]
  /\ UNCHANGED flying

\* The callers of S get their answer together.
Answer(S) ==
  /\ \A c \in S : role[c] # "idle"
  /\ role' = [c \in Callers |-> IF c \in S THEN "idle" ELSE role[c]]
  /\ flying' = (flying /\ \A c \in S : role[c] # "owner")

FlightNext ==
  \/ \E c \in Callers : Open(c) \/ Join(c)
  \/ \E S \in SUBSET Callers : Answer(S)

FlightSpec == FlightInit /\ [][FlightNext]_flightVars
===============================================================================
