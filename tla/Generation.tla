------------------------------ MODULE Generation ------------------------------
(***************************************************************************)
(* worker/agents/core: when an agent generates code.  Requests of the      *)
(* client (generate_all, resume, stop) and the user's messages start a     *)
(* generation, add to the requests it works on, wait for it, debug when it *)
(* is over, and share an abort controller with it.  The handlers are async *)
(* functions of one Durable Object, which may be evicted between two of    *)
(* their steps.                                                            *)
(*                                                                         *)
(* What build() does lies in the behaviors the repository refers to and    *)
(* does not contain: it fetches the pending requests, asks for inference   *)
(* contexts, and returns or throws.                                        *)
(***************************************************************************)
EXTENDS Naturals, FiniteSets

CONSTANTS
  Messages,     \* user messages that may be handled at the same time
  MaxPending,   \* requests that wait for a generation (bound)
  Build, Debug  \* the generation and the deep debugger among those that infer

ASSUME GenerationAssumption ==
  /\ MaxPending \in Nat \ {0}
  /\ Build # Debug
  /\ Build \notin Messages /\ Debug \notin Messages

VARIABLES
  gen,         \* where the generation is; generationPromise is set unless "none"
  loaded,      \* templateDetailsCache is set
  mvp,         \* state.mvpGenerated
  pending,     \* number of state.pendingUserInputs
  should,      \* state.shouldBeGenerating
  asked,       \* a generate_all request has attached its finally()
  message,     \* what the conversation about each message does
  debugged,    \* messages that have called deep_debug in this turn (callCount > 0)
  current,     \* currentAbortController is set (and then never aborted)
  signal,      \* the abort signal under which each of them infers
  cut,         \* history: those whose controller a generation has cleared
  missed       \* history: a request came when no build could see it any more

vars == <<gen, loaded, mvp, pending, should, asked, message, debugged,
          current, signal, cut, missed>>

intent == <<should, asked>>

abortVars == <<current, signal, cut>>

Holders == Messages \cup {Build, Debug}

-------------------------------------------------------------------------------
(* Types *)

\* "stuck": buildWrapper has thrown before its try block, so that its rejected
\* promise stays in generationPromise.
Stages == {"none", "template", "building", "closing", "stuck"}

Talks == {"idle", "handled", "awaitsBuild", "awaitsDebug", "debugging"}

\* No inference; one under the current controller, under a controller that was
\* aborted, or under one that is neither.
Signals == {"none", "current", "aborted", "detached"}

TypeOK ==
  /\ gen \in Stages
  /\ loaded \in BOOLEAN
  /\ mvp \in BOOLEAN
  /\ pending \in 0..MaxPending
  /\ should \in BOOLEAN
  /\ asked \in BOOLEAN
  /\ message \in [Messages -> Talks]
  /\ debugged \subseteq Messages
  /\ current \in BOOLEAN
  /\ signal \in [Holders -> Signals]
  /\ cut \subseteq Holders
  /\ missed \in BOOLEAN

Init ==
  /\ gen = "none"
  /\ loaded = FALSE
  /\ mvp = FALSE
  /\ pending = 0
  /\ should = FALSE
  /\ asked = FALSE
  /\ message = [m \in Messages |-> "idle"]
  /\ debugged = {}
  /\ current = FALSE
  /\ signal = [h \in Holders |-> "none"]
  /\ cut = {}
  /\ missed = FALSE

-------------------------------------------------------------------------------
(* The abort controller *)

\* What becomes of the signals when the current controller is forgotten.
Lose(as) ==
  [h \in Holders |-> IF signal[h] = "current" THEN as ELSE signal[h]]

\* Mutant: a nested operation gets a controller of its own.
TakeNewController(h) ==
  /\ current' = TRUE
  /\ signal' = [Lose("detached") EXCEPT ![h] = "current"]

\* getOrCreateAbortController: the current controller, or a new one.
TakeController(h) ==
  /\ current' = TRUE
  /\ signal' = [signal EXCEPT ![h] = "current"]

-------------------------------------------------------------------------------
(* The generation *)

\* Mutant: a finished product needs no generation, whatever the user asked for.
StartUnlessDone == gen' = IF gen = "none" /\ ~mvp THEN "building" ELSE gen

\* generateAllFiles, and buildWrapper up to its first wait: the template that
\* is still to be fetched, or the build.
StartGeneration ==
  gen' = IF gen # "none" \/ (mvp /\ pending = 0) THEN gen
         ELSE IF loaded THEN "building" ELSE "template"

\* Conversations that wait go on.
Woken(stage) ==
  [m \in Messages |-> IF message[m] = stage THEN "handled" ELSE message[m]]

\* Requests that stay behind when no build will look for them by itself.
Leaves(stages) == missed' = (missed \/ (pending > 0 /\ gen \in stages))

TemplateReady ==
  /\ gen = "template"
  /\ gen' = "building"
  /\ loaded' = TRUE
  /\ UNCHANGED <<mvp, pending, intent, message, debugged, abortVars, missed>>

\* ensureTemplateDetails throws: who waits for the promise goes on, and the
\* promise stays.
TemplateFails ==
  /\ gen = "template"
  /\ gen' = "stuck"
  /\ asked' = FALSE
  /\ message' = Woken("awaitsBuild")
  /\ Leaves({"template"})
  /\ UNCHANGED <<loaded, mvp, pending, should, debugged, abortVars>>

\* fetchPendingUserRequests
BuildFetches ==
  /\ gen = "building"
  /\ pending > 0
  /\ pending' = 0
  /\ missed' = FALSE
  /\ UNCHANGED <<gen, loaded, mvp, intent, message, debugged, abortVars>>

\* getInferenceContext
BuildInfers ==
  /\ gen = "building"
  /\ TakeController(Build)
  /\ UNCHANGED <<gen, loaded, mvp, pending, intent, message, debugged, cut, missed>>

\* setMVPGenerated
BuildCompletes ==
  /\ gen = "building"
  /\ ~mvp
  /\ mvp' = TRUE
  /\ UNCHANGED <<gen, loaded, pending, intent, message, debugged, abortVars, missed>>

\* build() returns with no request left, or throws: the finally block clears
\* the abort controller, also under the others that use it, and starts to
\* update the app.
BuildEnds(failed) ==
  /\ gen = "building"
  /\ failed \/ pending = 0
  /\ gen' = "closing"
  /\ current' = FALSE
  /\ signal' = [Lose("detached") EXCEPT ![Build] = "none"]
  /\ cut' = cut \cup {h \in Holders \ {Build} : signal[h] = "current"}
  /\ Leaves({"building"})
  /\ UNCHANGED <<loaded, mvp, pending, intent, message, debugged>>

\* updateApp has answered: the promise is cleared, then resolved, and the
\* finally() of generate_all finds it cleared.
Closed ==
  /\ gen = "closing"
  /\ gen' = "none"
  /\ asked' = FALSE
  /\ should' = (should /\ ~asked)
  /\ message' = Woken("awaitsBuild")
  /\ UNCHANGED <<loaded, mvp, pending, debugged, abortVars, missed>>

-------------------------------------------------------------------------------
(* Requests of the client *)

\* generate_all, with the finally() it attaches to the generation it starts or
\* to the call that returns at once.
GenerateAll ==
  /\ StartGeneration
  /\ should' = (gen' # "none")
  /\ asked' = (asked \/ gen' # gen)
  /\ UNCHANGED <<loaded, mvp, pending, message, debugged, abortVars, missed>>

\* resume_generation
Resume ==
  /\ should' = TRUE
  /\ StartGeneration
  /\ UNCHANGED <<loaded, mvp, pending, asked, message, debugged, abortVars, missed>>

\* stop_generation, with cancelCurrentInference
Stop ==
  /\ should' = FALSE
  /\ current' = FALSE
  /\ signal' = Lose("aborted")
  /\ UNCHANGED <<gen, loaded, mvp, pending, asked, message, debugged, cut, missed>>

-------------------------------------------------------------------------------
(* Messages of the user *)

\* handleUserInput, up to the inference of the conversation: the template has
\* been fetched.
MessageArrives(m) ==
  /\ message[m] = "idle"
  /\ message' = [message EXCEPT ![m] = "handled"]
  /\ loaded' = TRUE
  /\ TakeController(m)
  /\ UNCHANGED <<gen, mvp, pending, intent, debugged, cut, missed>>

\* A tool that the conversation about m calls, and that waits from then on.
Calls(m, stage) ==
  /\ message[m] = "handled"
  /\ message' = [message EXCEPT ![m] = stage]

\* The tool queue_request.
QueueRequest(m) ==
  /\ message[m] = "handled"
  /\ pending < MaxPending
  /\ pending' = pending + 1
  /\ UNCHANGED <<gen, loaded, mvp, intent, message, debugged, abortVars, missed>>

\* Mutant: a promise that has failed is waited for as well.
WaitAlways(m) ==
  /\ gen # "none"
  /\ Calls(m, "awaitsBuild")
  /\ UNCHANGED <<gen, loaded, mvp, pending, intent, debugged, abortVars, missed>>

\* The tool wait_for_generation; a rejected promise is no wait.
WaitForGeneration(m) ==
  /\ gen \in {"template", "building", "closing"}
  /\ Calls(m, "awaitsBuild")
  /\ UNCHANGED <<gen, loaded, mvp, pending, intent, debugged, abortVars, missed>>

IsDeepDebugging == \E m \in Messages : message[m] = "debugging"

\* The tool deep_debug: once in a turn, and when neither a generation nor
\* another session is under way.
DeepDebug(m) ==
  /\ m \notin debugged
  /\ Calls(m, "debugging")
  /\ gen = "none" /\ ~IsDeepDebugging
  /\ debugged' = debugged \cup {m}
  /\ TakeController(Debug)
  /\ UNCHANGED <<gen, loaded, mvp, pending, intent, cut, missed>>

\* Refused because of one of them, the call of this turn is spent all the same.
DeepDebugRefused(m) ==
  /\ m \notin debugged
  /\ message[m] = "handled"
  /\ gen # "none" \/ IsDeepDebugging
  /\ debugged' = debugged \cup {m}
  /\ UNCHANGED <<gen, loaded, mvp, pending, intent, message, abortVars, missed>>

\* executeDeepDebug returns or fails.
DebugEnds(m) ==
  /\ message[m] = "debugging"
  /\ message' = [Woken("awaitsDebug") EXCEPT ![m] = "handled"]
  /\ signal' = [signal EXCEPT ![Debug] = "none"]
  /\ cut' = cut \ {Debug}
  /\ UNCHANGED <<gen, loaded, mvp, pending, intent, debugged, current, missed>>

\* The tool wait_for_debug.
WaitForDebug(m) ==
  /\ IsDeepDebugging
  /\ Calls(m, "awaitsDebug")
  /\ UNCHANGED <<gen, loaded, mvp, pending, intent, debugged, abortVars, missed>>

\* The conversation about m is over.
Leave(m) ==
  /\ message[m] = "handled"
  /\ message' = [message EXCEPT ![m] = "idle"]
  /\ debugged' = debugged \ {m}
  /\ signal' = [signal EXCEPT ![m] = "none"]
  /\ cut' = cut \ {m}
  /\ UNCHANGED <<loaded, mvp, pending, intent, current>>

\* handleUserInput: an idle agent starts to generate, one with a promise is
\* taken to be at work.
MessageHandled(m) ==
  /\ Leave(m)
  /\ StartGeneration
  /\ Leaves({"closing", "stuck"})

\* handleUserInput throws: no generation is started.
MessageFails(m) ==
  /\ Leave(m)
  /\ Leaves({"none", "closing", "stuck"})
  /\ gen' = gen

\* The Durable Object is evicted: what is not in its state is gone.
Evict ==
  /\ gen' = "none"
  /\ loaded' = FALSE
  /\ asked' = FALSE
  /\ message' = [m \in Messages |-> "idle"]
  /\ debugged' = {}
  /\ current' = FALSE
  /\ signal' = [h \in Holders |-> "none"]
  /\ cut' = {}
  /\ missed' = (pending > 0)
  /\ UNCHANGED <<mvp, pending, should>>

-------------------------------------------------------------------------------

Next ==
  \/ TemplateReady \/ TemplateFails
  \/ BuildFetches \/ BuildInfers \/ BuildCompletes
  \/ \E failed \in BOOLEAN : BuildEnds(failed)
  \/ Closed
  \/ GenerateAll \/ Resume \/ Stop
  \/ \E m \in Messages :
       \/ MessageArrives(m) \/ QueueRequest(m) \/ WaitForGeneration(m)
       \/ DeepDebug(m) \/ DeepDebugRefused(m) \/ DebugEnds(m) \/ WaitForDebug(m)
       \/ MessageHandled(m) \/ MessageFails(m)
  \/ Evict

Spec == Init /\ [][Next]_vars

\* Fetches and database updates end.  Inferences end, and so do a build (it has
\* at most MAX_PHASES phases), a debug session and a conversation (they have a
\* limited depth of tool calls).
FairSpec ==
  /\ Spec
  /\ WF_vars(TemplateReady \/ TemplateFails)
  /\ WF_vars(\E failed \in BOOLEAN : BuildEnds(failed))
  /\ WF_vars(Closed)
  /\ \A m \in Messages : WF_vars(DebugEnds(m))
  /\ \A m \in Messages : SF_vars(MessageHandled(m) \/ MessageFails(m))

-------------------------------------------------------------------------------
(* Properties *)

\* An agent that does nothing has no request of the user left, unless it came
\* when the build was over and its promise not yet cleared, or the build, the
\* conversation or the object itself failed.
RequestsServed ==
  gen = "none" /\ (\A m \in Messages : message[m] = "idle") =>
    pending = 0 \/ missed

\* stop_generation reaches every inference under way, of the generation, of the
\* debugger and of all messages: each works under the controller that
\* cancelCurrentInference aborts, or under one aborted before.  The exceptions
\* are those under which the end of a generation has cleared the controller.
StopReaches ==
  \A h \in Holders :
    /\ signal[h] = "current" => current
    /\ signal[h] = "detached" => h \in cut

\* Every message of the user is handled to its end, though its tools wait for
\* generations and debug sessions that other messages keep starting.
EveryMessageEnds ==
  \A m \in Messages : message[m] # "idle" ~> message[m] = "idle"
===============================================================================
