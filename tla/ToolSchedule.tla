----------------------------- MODULE ToolSchedule -----------------------------
(***************************************************************************)
(* What worker/agents/inferutils/toolExecution.ts promises for the tool    *)
(* calls of one LLM response: "Independent tools: Execute in parallel",    *)
(* "Dependent tools: Execute sequentially".  A call may start when every   *)
(* earlier call it interferes with is over, whatever groups the code forms *)
(* and whatever its conflict rule looks like.                              *)
(***************************************************************************)
EXTENDS Resources

VARIABLES accesses,  \* what each call of the batch accesses
          phase      \* phase[i]: "waiting", "running" or "over"

scheduleVars == <<accesses, phase>>

ScheduleInit ==
  /\ accesses = <<>>
  /\ phase = <<>>

\* A batch may replace an unfinished one: the tools of that run on, unscheduled.
Begin ==
  /\ accesses' \in Seq(Access)
  /\ phase' = [i \in DOMAIN accesses' |-> "waiting"]

Start(S) ==
  /\ \A i \in S :
       /\ phase[i] = "waiting"
       /\ \A j \in 1..(i - 1) :
            Interferes(accesses[i], accesses[j]) => phase[j] = "over"
  /\ phase' = [i \in DOMAIN phase |-> IF i \in S THEN "running" ELSE phase[i]]
  /\ UNCHANGED accesses

Finish(i) ==
  /\ phase[i] = "running"
  /\ phase' = [phase EXCEPT ![i] = "over"]
  /\ UNCHANGED accesses

ScheduleNext ==
  \/ Begin
  \/ \E S \in SUBSET DOMAIN phase : Start(S)
  \/ \E i \in DOMAIN phase : Finish(i)

ScheduleSpec == ScheduleInit /\ [][ScheduleNext]_scheduleVars
===============================================================================
