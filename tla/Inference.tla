------------------------------ MODULE Inference ------------------------------
(***************************************************************************)
(* worker/agents/inferutils: one call of executeInference.  It tries infer *)
(* up to RetryLimit times; infer sends the messages to the LLM, executes   *)
(* the tool calls of the answer in groups, and calls itself with their     *)
(* results until the LLM asks for no more tools or the depth is used up.   *)
(*                                                                         *)
(* A step is what happens between two awaits.  Tools are not under the     *)
(* inference's control: they end when they end, and what Promise.all       *)
(* abandons goes on as an orphan.                                          *)
(***************************************************************************)
EXTENDS Resources, FiniteSets

CONSTANTS
  Calls,       \* tool calls the LLM may make
  MaxCalls,    \* calls of one response (bound)
  MaxDepth,    \* getMaxToolCallingDepth: 7, 40 or 100 in the code
  RetryLimit   \* retryLimit: 5 unless the caller says otherwise

\* A call of an undefined tool has no access; neither has one with bad arguments.
Call == [access : Access, defined : BOOLEAN, completes : BOOLEAN]

ASSUME InferenceAssumption ==
  /\ Calls \subseteq Call
  /\ MaxCalls \in Nat /\ MaxDepth \in Nat
  /\ RetryLimit \in Nat \ {0}

VARIABLES
  req,      \* the inference and its tool call context
  aborted,  \* its abort signal
  batch,    \* the tool calls of the response
  started,  \* indices of the calls started
  ended,    \* indices of the calls that have given a result
  useful,   \* a call that does not signal completion gave a value
  orphans,  \* number of tools running that nobody waits for
  late      \* history: batches received since the abort

vars == <<req, aborted, batch, started, ended, useful, orphans, late>>

toolVars == <<batch, started, ended, useful>>

-------------------------------------------------------------------------------
(* Types *)

\* asked and answered count the tool calls and results of the context.  The
\* callers that want an object (structured) pass no tools.
Request == [stage      : {"prepare", "llm", "received", "tools", "backoff", "done"},
            attempt    : 0..(RetryLimit - 1),
            depth      : 0..MaxDepth,
            asked      : Nat,
            answered   : Nat,
            structured : BOOLEAN,
            outcome    : {"none", "text", "object", "null", "limited", "cancelled"}]

Batches == UNION {[1..n -> Calls] : n \in 0..MaxCalls}

\* Every variable has its type, and the sets of indices belong to the batch.
TypeOK ==
  /\ req \in Request
  /\ aborted \in BOOLEAN
  /\ batch \in Batches
  /\ started \subseteq DOMAIN batch
  /\ ended \subseteq started
  /\ useful \in BOOLEAN
  /\ orphans \in Nat
  /\ late \in Nat

NewRequest(structured) ==
  [stage |-> "prepare", attempt |-> 0, depth |-> 0, asked |-> 0, answered |-> 0,
   structured |-> structured, outcome |-> "none"]

NoBatch ==
  /\ batch' = <<>>
  /\ started' = {}
  /\ ended' = {}
  /\ useful' = FALSE

Init ==
  /\ \E structured \in BOOLEAN : req = NewRequest(structured)
  /\ aborted = FALSE
  /\ batch = <<>>
  /\ started = {}
  /\ ended = {}
  /\ useful = FALSE
  /\ orphans = 0
  /\ late = 0

-------------------------------------------------------------------------------
(* Helpers *)

Done(r, outcome) == [r EXCEPT !.stage = "done", !.outcome = outcome]

\* Mutant: the attempts are not counted.
RetryForever(r) == [NewRequest(r.structured) EXCEPT !.stage = "backoff"]

\* An error that is not a cancellation: the chain starts again from the first
\* messages, unless this was the last attempt.
Retry(r) ==
  IF r.attempt + 1 < RetryLimit
  THEN [NewRequest(r.structured) EXCEPT !.stage = "backoff", !.attempt = r.attempt + 1]
  ELSE Done(r, "null")

\* Mutant: a call waits for the conflicting calls after it.
DepsReversed(i) ==
  {j \in DOMAIN batch :
     /\ j > i
     /\ batch[i].defined /\ batch[j].defined
     /\ Conflict(batch[i].access, batch[j].access)}

\* The calls a call waits for.
Deps(i) ==
  {j \in DOMAIN batch :
     /\ j < i
     /\ batch[i].defined /\ batch[j].defined
     /\ Conflict(batch[i].access, batch[j].access)}

Running == started \ ended

Waiting == DOMAIN batch \ started

First(S) == CHOOSE i \in S : \A j \in S : i <= j

\* The next parallel group of the plan.
NextGroup ==
  LET ready == {i \in Waiting : Deps(i) \subseteq started}
  IN  IF ready # {} THEN ready ELSE {First(Waiting)}

Undefined(S) == {i \in S : ~batch[i].defined}

-------------------------------------------------------------------------------
(* Asking the LLM *)

\* The rate limit, or too many messages: the caller gets the error at once.
RateLimited ==
  /\ req.stage = "prepare"
  /\ req' = Done(req, "limited")
  /\ UNCHANGED <<aborted, toolVars, orphans, late>>

\* The settings or the model's configuration cannot be had.
PrepareFails ==
  /\ req.stage = "prepare"
  /\ req.depth < MaxDepth
  /\ req' = Retry(req)
  /\ UNCHANGED <<aborted, toolVars, orphans, late>>

DepthReached ==
  /\ req.stage = "prepare"
  /\ req.depth >= MaxDepth
  /\ req' = IF req.structured THEN Retry(req) ELSE Done(req, "text")
  /\ UNCHANGED <<aborted, toolVars, orphans, late>>

\* Mutant: the request is sent without the abort signal.
SendAnyway ==
  /\ req.stage = "prepare"
  /\ req.depth < MaxDepth
  /\ req' = [req EXCEPT !.stage = "llm"]
  /\ UNCHANGED <<aborted, toolVars, orphans, late>>

\* A request with an aborted signal fails at once, and is not tried again.
Send ==
  /\ req.stage = "prepare"
  /\ req.depth < MaxDepth
  /\ req' = IF aborted THEN Done(req, "cancelled") ELSE [req EXCEPT !.stage = "llm"]
  /\ UNCHANGED <<aborted, toolVars, orphans, late>>

LlmFails ==
  /\ req.stage = "llm"
  /\ req' = Retry(req)
  /\ UNCHANGED <<aborted, toolVars, orphans, late>>

\* An error that is an abort, or speaks of one, counts as the user's.
LlmAborted ==
  /\ req.stage = "llm"
  /\ req' = Done(req, "cancelled")
  /\ UNCHANGED <<aborted, toolVars, orphans, late>>

\* The streamed text repeats itself: the request's own controller is aborted
\* and the chunk callback throws an InferError.
TextRepeats ==
  /\ req.stage = "llm"
  /\ ~req.structured
  /\ aborted' = TRUE
  /\ req' = Retry(req)
  /\ UNCHANGED <<toolVars, orphans, late>>

\* The response, or as much of a stream as came before the abort ended it.
LlmResponds ==
  /\ req.stage = "llm"
  /\ batch' \in Batches
  /\ req.structured => batch' = <<>>
  /\ req' = [req EXCEPT !.stage = "received"]
  /\ late' = IF aborted /\ batch' # <<>> THEN late + 1 ELSE late
  /\ UNCHANGED <<aborted, started, ended, useful, orphans>>

\* onAssistantMessage throws.
SaveFails ==
  /\ req.stage = "received"
  /\ req' = Retry(req)
  /\ NoBatch
  /\ UNCHANGED <<aborted, orphans, late>>

\* No tool call: the text is the answer.  So it is for a caller that wants an
\* object when the response is empty.
Answer ==
  /\ req.stage = "received"
  /\ batch = <<>>
  /\ req' = Done(req, "text")
  /\ UNCHANGED <<aborted, toolVars, orphans, late>>

AnswerObject ==
  /\ req.stage = "received"
  /\ req.structured
  /\ req' \in {Done(req, "object"), Retry(req)}
  /\ UNCHANGED <<aborted, toolVars, orphans, late>>

-------------------------------------------------------------------------------
(* Executing the tools *)

ExecuteTools ==
  /\ req.stage = "received"
  /\ batch # <<>>
  /\ req' = [req EXCEPT !.stage = "tools"]
  /\ UNCHANGED <<aborted, toolVars, orphans, late>>

\* Mutant: a rejected group ends the attempt, not the inference.
AbandonAndRetry(left) ==
  /\ req' = Retry(req)
  /\ orphans' = orphans + left
  /\ NoBatch

\* Promise.all rejects with an error that is not the inference's AbortError: no
\* results, so the text beside the calls is the answer.
Abandon(left) ==
  /\ req' = Done(req, "text")
  /\ orphans' = orphans + left
  /\ NoBatch

\* The next group starts when the one before has ended.  The call of an
\* undefined tool rejects, after its neighbours have started.
StartGroup ==
  /\ req.stage = "tools"
  /\ Running = {}
  /\ Waiting # {}
  /\ LET undefined == Undefined(NextGroup)
     IN  IF undefined = {}
         THEN /\ started' = started \cup NextGroup
              /\ UNCHANGED <<req, batch, ended, useful, orphans>>
         ELSE Abandon(Cardinality(NextGroup \ undefined))
  /\ UNCHANGED <<aborted, late>>

\* A tool returns, or fails with an error that becomes its result.
ToolEnds(i, value) ==
  /\ i \in Running
  /\ ended' = ended \cup {i}
  /\ useful' = (useful \/ (value /\ ~batch[i].completes))
  /\ UNCHANGED <<req, aborted, batch, started, orphans, late>>

\* A tool throws an error named AbortError of another class.
ToolRejects(i) ==
  /\ i \in Running
  /\ Abandon(Cardinality(Running) - 1)
  /\ UNCHANGED <<aborted, late>>

\* Mutant: the chain goes on after an aborted tool.
ToolAbortsOn(i) ==
  /\ i \in Running
  /\ req' = [req EXCEPT !.stage = "prepare", !.asked = @ + Len(batch)]
  /\ orphans' = orphans + Cardinality(Running) - 1
  /\ NoBatch
  /\ UNCHANGED <<aborted, late>>

\* A tool throws the inference's AbortError: the chain ends with a context
\* that has the calls and none of their results.
ToolAborts(i) ==
  /\ i \in Running
  /\ req' = [Done(req, "text") EXCEPT !.asked = @ + Len(batch)]
  /\ orphans' = orphans + Cardinality(Running) - 1
  /\ NoBatch
  /\ UNCHANGED <<aborted, late>>

\* All groups have ended: stop on a completion signal or when there is nothing
\* to tell the LLM, otherwise call infer with the results.
ToolsDone ==
  /\ req.stage = "tools"
  /\ ended = DOMAIN batch
  /\ LET stop == ~useful \/ \E i \in DOMAIN batch : batch[i].completes
         told == [req EXCEPT !.asked = @ + Len(batch),
                             !.answered = @ + Cardinality(ended)]
     IN  req' = IF stop THEN Done(told, "text")
                ELSE [told EXCEPT !.stage = "prepare", !.depth = @ + 1]
  /\ NoBatch
  /\ UNCHANGED <<aborted, orphans, late>>

OrphanEnds ==
  /\ orphans > 0
  /\ orphans' = orphans - 1
  /\ UNCHANGED <<req, aborted, toolVars, late>>

-------------------------------------------------------------------------------

BackoffDone ==
  /\ req.stage = "backoff"
  /\ req' = [req EXCEPT !.stage = "prepare"]
  /\ UNCHANGED <<aborted, toolVars, orphans, late>>

\* The user stops the generation.
Abort ==
  /\ ~aborted
  /\ req.stage # "done"
  /\ aborted' = TRUE
  /\ UNCHANGED <<req, toolVars, orphans, late>>

\* What the inference, the runtime and the LLM's client see to.
Proceed ==
  \/ RateLimited \/ PrepareFails \/ DepthReached \/ Send
  \/ LlmFails \/ LlmAborted \/ TextRepeats \/ LlmResponds
  \/ SaveFails \/ Answer \/ AnswerObject
  \/ ExecuteTools \/ StartGroup \/ ToolsDone
  \/ BackoffDone

Next ==
  \/ Proceed
  \/ \E i \in DOMAIN batch :
       \/ \E value \in BOOLEAN : ToolEnds(i, value)
       \/ ToolRejects(i)
       \/ ToolAborts(i)
  \/ OrphanEnds
  \/ Abort

Spec == Init /\ [][Next]_vars

\* Timers fire, the LLM's client gives up in the end; a tool need never end.
FairSpec == Spec /\ WF_vars(Proceed)

-------------------------------------------------------------------------------
(* Properties *)

\* The tools run as ToolSchedule says: a call never runs beside an earlier one
\* that it interferes with, nor before it.  Interference is stated there in
\* terms of what is read and written, and an abandoned batch is gone.
Schedule ==
  INSTANCE ToolSchedule WITH
    accesses <- [i \in DOMAIN batch |->
                   IF batch[i].defined THEN batch[i].access ELSE NoAccess],
    phase    <- [i \in DOMAIN batch |->
                   IF i \in ended THEN "over"
                   ELSE IF i \in started THEN "running" ELSE "waiting"]

ImplementsSchedule == Schedule!ScheduleSpec

\* Every tool call of the context that goes to the LLM has its result there:
\* the providers refuse a conversation in which one has not.
ChainAnswered == req.stage \in {"prepare", "llm"} => req.asked = req.answered

\* After the abort at most one more response, the one under way, has its tools
\* executed, whatever retries and recursion were left.
AbortBites == late <= 1

\* Tools that nobody waits for run on only when the inference is over, never
\* beside a later request or a later batch of the same inference.
OrphansAfterTheEnd == orphans > 0 => req.stage = "done"

\* The inference ends, or waits for a tool that does not.
InferenceEnds == <>(req.stage = "done") \/ <>[](Running # {})
===============================================================================
