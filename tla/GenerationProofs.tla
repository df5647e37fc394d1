--------------------------- MODULE GenerationProofs ---------------------------
(* Theorems about Generation, for all sets of messages and all bounds. *)
EXTENDS Generation, TLAPS

-------------------------------------------------------------------------------
(* Types *)

LEMMA WokenType ==
  ASSUME message \in [Messages -> Talks], NEW stage
  PROVE  Woken(stage) \in [Messages -> Talks]
  BY DEF Woken, Talks

LEMMA LoseType ==
  ASSUME signal \in [Holders -> Signals], NEW as \in Signals
  PROVE  Lose(as) \in [Holders -> Signals]
  BY DEF Lose

LEMMA TakeControllerType ==
  ASSUME signal \in [Holders -> Signals], NEW h \in Holders, TakeController(h)
  PROVE  current' \in BOOLEAN /\ signal' \in [Holders -> Signals]
  BY DEF TakeController, Signals

LEMMA StartType ==
  ASSUME gen \in Stages, StartGeneration
  PROVE  gen' \in Stages
  BY DEF StartGeneration, Stages

LEMMA NoneWaiting == 0 \in 0..MaxPending
  BY GenerationAssumption

LEMMA TypeStep ==
  ASSUME TypeOK, [Next]_vars
  PROVE  TypeOK'
  <1> USE DEF TypeOK, intent, abortVars
  <1> Build \in Holders /\ Debug \in Holders /\ Messages \subseteq Holders
    BY DEF Holders
  <1>1. CASE TemplateReady
    BY <1>1 DEF TemplateReady, Stages
  <1>2. CASE TemplateFails
    BY <1>2, WokenType DEF TemplateFails, Stages, Leaves
  <1>3. CASE BuildFetches
    BY <1>3, NoneWaiting DEF BuildFetches
  <1>4. CASE BuildInfers
    BY <1>4, TakeControllerType DEF BuildInfers
  <1>5. CASE BuildCompletes
    BY <1>5 DEF BuildCompletes
  <1>6. CASE \E failed \in BOOLEAN : BuildEnds(failed)
    <2> PICK failed \in BOOLEAN : BuildEnds(failed)
      BY <1>6
    <2>1. "detached" \in Signals /\ "none" \in Signals
      BY DEF Signals
    <2>2. signal' \in [Holders -> Signals]
      BY <2>1, LoseType DEF BuildEnds
    <2>3. gen' \in Stages /\ missed' \in BOOLEAN /\ cut' \subseteq Holders
      BY DEF BuildEnds, Stages, Leaves
    <2>4. QED
      BY <2>2, <2>3 DEF BuildEnds
  <1>7. CASE Closed
    BY <1>7, WokenType DEF Closed, Stages
  <1>8. CASE GenerateAll
    BY <1>8, StartType DEF GenerateAll
  <1>9. CASE Resume
    BY <1>9, StartType DEF Resume
  <1>10. CASE Stop
    <2>1. "aborted" \in Signals
      BY DEF Signals
    <2>2. QED
      BY <1>10, <2>1, LoseType DEF Stop
  <1>11. ASSUME NEW m \in Messages, MessageArrives(m)
         PROVE  TypeOK'
    BY <1>11, TakeControllerType DEF MessageArrives, Talks
  <1>12. ASSUME NEW m \in Messages, QueueRequest(m) \/ DeepDebugRefused(m)
         PROVE  TypeOK'
    BY <1>12, GenerationAssumption DEF QueueRequest, DeepDebugRefused
  <1>13. ASSUME NEW m \in Messages, WaitForGeneration(m)
         PROVE  TypeOK'
    BY <1>13 DEF WaitForGeneration, Calls, Talks
  <1>14. ASSUME NEW m \in Messages, DeepDebug(m)
         PROVE  TypeOK'
    BY <1>14, TakeControllerType DEF DeepDebug, Calls, Talks
  <1>15. ASSUME NEW m \in Messages, DebugEnds(m)
         PROVE  TypeOK'
    <2>1. message' \in [Messages -> Talks]
      BY <1>15, WokenType DEF DebugEnds, Talks
    <2>2. signal' \in [Holders -> Signals]
      BY <1>15 DEF DebugEnds, Signals
    <2>3. QED
      BY <1>15, <2>1, <2>2 DEF DebugEnds
  <1>16. ASSUME NEW m \in Messages, WaitForDebug(m)
         PROVE  TypeOK'
    BY <1>16 DEF WaitForDebug, Calls, Talks
  <1>17. ASSUME NEW m \in Messages, Leave(m), gen' \in Stages, missed' \in BOOLEAN
         PROVE  TypeOK'
    BY <1>17 DEF Leave, Talks, Signals
  <1>18. ASSUME NEW m \in Messages, MessageHandled(m)
         PROVE  TypeOK'
    BY <1>17, <1>18, StartType DEF MessageHandled, Leaves
  <1>19. ASSUME NEW m \in Messages, MessageFails(m)
         PROVE  TypeOK'
    BY <1>17, <1>19 DEF MessageFails, Leaves
  <1>20. CASE Evict
    <2>1. (pending > 0) \in BOOLEAN
      BY GenerationAssumption
    <2>2. missed' = (pending > 0)
      BY <1>20 DEF Evict
    <2>3. missed' \in BOOLEAN
      BY <2>1, <2>2, Zenon
    <2>4. QED
      BY <1>20, <2>3 DEF Evict, Stages, Talks, Signals
  <1>21. CASE UNCHANGED vars
    BY <1>21 DEF vars
  <1>22. QED
    BY <1>1, <1>2, <1>3, <1>4, <1>5, <1>6, <1>7, <1>8, <1>9, <1>10, <1>11, <1>12,
       <1>13, <1>14, <1>15, <1>16, <1>18, <1>19, <1>20, <1>21 DEF Next

LEMMA TypeInit ==
  ASSUME Init
  PROVE  TypeOK
  BY NoneWaiting DEF Init, TypeOK, Stages, Talks, Signals

\* Type correctness.
THEOREM GenerationTypeOK == Spec => []TypeOK
  BY TypeInit, TypeStep, PTL DEF Spec

-------------------------------------------------------------------------------
(* stop_generation reaches every inference *)

LEMMA TakeReaches ==
  ASSUME TypeOK, StopReaches, NEW h \in Holders, TakeController(h), cut' = cut
  PROVE  StopReaches'
  BY DEF TakeController, StopReaches, TypeOK

LEMMA ReachesStep ==
  ASSUME TypeOK, StopReaches, [Next]_vars
  PROVE  StopReaches'
  <1> Build \in Holders /\ Debug \in Holders /\ Messages \subseteq Holders
    BY DEF Holders
  <1>1. ASSUME UNCHANGED abortVars
        PROVE  StopReaches'
    BY <1>1 DEF StopReaches, abortVars
  <1>2. ASSUME NEW h \in Holders, signal' = [signal EXCEPT ![h] = "none"],
               cut' = cut \ {h}, current' = current
        PROVE  StopReaches'
    BY <1>2 DEF StopReaches, TypeOK
  <1>3. ASSUME NEW failed \in BOOLEAN, BuildEnds(failed)
        PROVE  StopReaches'
    BY <1>3 DEF BuildEnds, Lose, StopReaches, TypeOK
  <1>4. CASE Stop
    BY <1>4 DEF Stop, Lose, StopReaches, TypeOK
  <1>5. ASSUME NEW m \in Messages,
               \/ MessageArrives(m) \/ DeepDebug(m)
        PROVE  StopReaches'
    BY <1>5, TakeReaches DEF MessageArrives, DeepDebug
  <1>6. CASE BuildInfers
    BY <1>6, TakeReaches DEF BuildInfers
  <1>7. ASSUME NEW m \in Messages,
               DebugEnds(m) \/ MessageHandled(m) \/ MessageFails(m)
        PROVE  StopReaches'
    BY <1>2, <1>7 DEF DebugEnds, MessageHandled, MessageFails, Leave
  <1>8. CASE Evict
    BY <1>8 DEF Evict, StopReaches
  <1>9. ASSUME NEW m \in Messages,
               \/ QueueRequest(m) \/ DeepDebugRefused(m)
               \/ WaitForGeneration(m) \/ WaitForDebug(m)
        PROVE  StopReaches'
    BY <1>1, <1>9 DEF QueueRequest, DeepDebugRefused, WaitForGeneration, WaitForDebug
  <1>10. CASE \/ TemplateReady \/ TemplateFails \/ BuildFetches \/ BuildCompletes
              \/ Closed \/ GenerateAll \/ Resume \/ UNCHANGED vars
    BY <1>1, <1>10 DEF TemplateReady, TemplateFails, BuildFetches, BuildCompletes,
       Closed, GenerateAll, Resume, vars, abortVars
  <1>11. QED
    BY <1>3, <1>4, <1>5, <1>6, <1>7, <1>8, <1>9, <1>10 DEF Next

\* Every inference that stop_generation does not reach is one under which the
\* end of a generation has cleared the controller.
THEOREM GenerationStopReaches == Spec => []StopReaches
  <1>1. Init => StopReaches
    BY DEF Init, StopReaches
  <1>2. QED
    BY <1>1, GenerationTypeOK, ReachesStep, PTL DEF Spec

-------------------------------------------------------------------------------
(* No request is left behind *)

\* A request is in the hands of a build that has not ended or of a conversation
\* that has not, or it was missed.
Served ==
  \/ pending = 0
  \/ missed
  \/ gen \in {"template", "building"}
  \/ \E m \in Messages : message[m] # "idle"

\* A step that keeps the requests, the generation and who talks to the user.
LEMMA ServedKept ==
  ASSUME TypeOK, Served, gen' = gen, pending' = pending, missed' = missed,
         \A m \in Messages : message[m] # "idle" => message'[m] # "idle"
  PROVE  Served'
  BY DEF Served

LEMMA PendingOrNot ==
  ASSUME TypeOK
  PROVE  pending = 0 \/ pending > 0
  BY GenerationAssumption DEF TypeOK

\* Requests that are left are missed.
LEMMA LeavesFacts ==
  ASSUME NEW stages, Leaves(stages)
  PROVE  /\ missed => missed'
         /\ pending > 0 /\ gen \in stages => missed'
  BY Zenon DEF Leaves

LEMMA StartServes ==
  ASSUME TypeOK, StartGeneration, pending' = pending, Leaves({"closing", "stuck"})
  PROVE  Served'
  <1>1. CASE pending = 0
    BY <1>1 DEF Served
  <1>2. CASE pending > 0 /\ gen \in {"closing", "stuck"}
    BY <1>2, LeavesFacts DEF Served
  <1>3. CASE pending > 0 /\ gen \in {"none", "template", "building"}
    BY <1>3 DEF StartGeneration, Served
  <1>4. QED
    BY <1>1, <1>2, <1>3, PendingOrNot DEF TypeOK, Stages

LEMMA WokenTalks ==
  ASSUME TypeOK, NEW stage, stage # "idle", NEW m \in Messages, message[m] # "idle"
  PROVE  Woken(stage)[m] # "idle"
  BY DEF Woken, TypeOK

LEMMA ServedStep ==
  ASSUME TypeOK, Served, [Next]_vars
  PROVE  Served'
  <1> USE DEF intent
  <1>1. CASE TemplateReady \/ BuildFetches
    BY <1>1 DEF TemplateReady, BuildFetches, Served
  <1>2. CASE TemplateFails
    BY <1>2, PendingOrNot, LeavesFacts DEF TemplateFails, Served
  <1>3. CASE BuildInfers \/ BuildCompletes \/ Stop
    BY <1>3, ServedKept DEF BuildInfers, BuildCompletes, Stop
  <1>4. ASSUME NEW failed \in BOOLEAN, BuildEnds(failed)
        PROVE  Served'
    BY <1>4, PendingOrNot, LeavesFacts DEF BuildEnds, Served
  <1>5. CASE Closed
    <2>1. \A m \in Messages : message[m] # "idle" => message'[m] # "idle"
      BY <1>5, WokenTalks DEF Closed
    <2>2. QED
      BY <1>5, <2>1 DEF Closed, Served
  <1>6. CASE GenerateAll \/ Resume
    BY <1>6 DEF GenerateAll, Resume, StartGeneration, Served, TypeOK, Stages
  <1>7. ASSUME NEW m \in Messages, NEW stage, stage # "idle",
               message' = [message EXCEPT ![m] = stage],
               gen' = gen, pending' = pending, missed' = missed
        PROVE  Served'
    <2>1. \A n \in Messages : message[n] # "idle" => message'[n] # "idle"
      BY <1>7 DEF TypeOK
    <2>2. QED
      BY <1>7, <2>1, ServedKept
  <1>8. ASSUME NEW m \in Messages, MessageArrives(m)
        PROVE  Served'
    BY <1>7, <1>8 DEF MessageArrives
  <1>9. ASSUME NEW m \in Messages, QueueRequest(m) \/ DeepDebugRefused(m)
        PROVE  Served'
    BY <1>9 DEF QueueRequest, DeepDebugRefused, Served
  <1>10. ASSUME NEW m \in Messages,
                WaitForGeneration(m) \/ DeepDebug(m) \/ WaitForDebug(m)
         PROVE  Served'
    BY <1>7, <1>10 DEF WaitForGeneration, DeepDebug, WaitForDebug, Calls
  <1>11. ASSUME NEW m \in Messages, DebugEnds(m)
         PROVE  Served'
    BY <1>11 DEF DebugEnds, Served, TypeOK, Woken
  <1>12. ASSUME NEW m \in Messages, MessageHandled(m)
         PROVE  Served'
    BY <1>12, StartServes DEF MessageHandled, Leave
  <1>13. ASSUME NEW m \in Messages, MessageFails(m)
         PROVE  Served'
    BY <1>13, PendingOrNot, LeavesFacts
       DEF MessageFails, Leave, Served, TypeOK, Stages
  <1>14. CASE Evict
    <2>1. pending > 0 => missed'
      BY <1>14, Zenon DEF Evict
    <2>2. QED
      BY <1>14, <2>1, PendingOrNot DEF Evict, Served
  <1>15. CASE UNCHANGED vars
    BY <1>15 DEF vars, Served
  <1>16. QED
    BY <1>1, <1>2, <1>3, <1>4, <1>5, <1>6, <1>8, <1>9, <1>10, <1>11, <1>12,
       <1>13, <1>14, <1>15 DEF Next

\* An agent that does nothing has served what its user asked for, but for the
\* requests of the exceptions.
THEOREM GenerationRequestsServed == Spec => []RequestsServed
  <1>1. Init => Served
    BY DEF Init, Served
  <1>2. Served => RequestsServed
    BY DEF Served, RequestsServed
  <1>3. QED
    BY <1>1, <1>2, GenerationTypeOK, ServedStep, PTL DEF Spec

-------------------------------------------------------------------------------
(* No conversation waits in vain *)

\* Who waits for the generation waits for one that goes on; who waits for a
\* debug session waits for one that runs; and one session runs at a time.  A
\* session and a generation wait for no message, so no wait is circular.
WaitersAwaited ==
  /\ \A m \in Messages :
       /\ message[m] = "awaitsBuild" => gen \in {"template", "building", "closing"}
       /\ message[m] = "awaitsDebug" => IsDeepDebugging
  /\ \A m, n \in Messages :
       message[m] = "debugging" /\ message[n] = "debugging" => m = n

LEMMA StartKeepsBusy ==
  ASSUME StartGeneration, gen # "none"
  PROVE  gen' = gen
  BY DEF StartGeneration

\* A step that lets one message go on to what is no wait.
LEMMA AwaitedOtherwise ==
  ASSUME TypeOK, WaitersAwaited, NEW m \in Messages, message[m] # "debugging",
         NEW talk \in {"idle", "handled"}, message' = [message EXCEPT ![m] = talk],
         gen' = gen \/ gen = "none"
  PROVE  WaitersAwaited'
  <1>1. \A n \in Messages : message'[n] = IF n = m THEN talk ELSE message[n]
    BY DEF TypeOK
  <1>2. IsDeepDebugging => IsDeepDebugging'
    BY DEF IsDeepDebugging, TypeOK
  <1>3. QED
    BY <1>1, <1>2 DEF WaitersAwaited

LEMMA AwaitedStep ==
  ASSUME TypeOK, WaitersAwaited, [Next]_vars
  PROVE  WaitersAwaited'
  <1> USE DEF intent
  <1>1. ASSUME message' = message,
               \/ gen' = gen
               \/ gen = "none"
               \/ gen = "template" /\ gen' = "building"
               \/ gen = "building" /\ gen' = "closing"
        PROVE  WaitersAwaited'
    BY <1>1 DEF WaitersAwaited, IsDeepDebugging
  <1>2. ASSUME message' = Woken("awaitsBuild")
        PROVE  WaitersAwaited'
    <2>1. \A n \in Messages :
            /\ message'[n] # "awaitsBuild"
            /\ message'[n] = message[n] \/ message'[n] = "handled"
            /\ message[n] = "debugging" => message'[n] = "debugging"
      BY <1>2 DEF Woken
    <2>2. IsDeepDebugging => IsDeepDebugging'
      BY <2>1 DEF IsDeepDebugging
    <2>3. QED
      BY <1>2, <2>1, <2>2 DEF WaitersAwaited
  <1>3. CASE TemplateReady \/ BuildFetches \/ BuildInfers \/ BuildCompletes \/ Stop
    BY <1>1, <1>3 DEF TemplateReady, BuildFetches, BuildInfers, BuildCompletes, Stop
  <1>4. ASSUME NEW failed \in BOOLEAN, BuildEnds(failed)
        PROVE  WaitersAwaited'
    BY <1>1, <1>4 DEF BuildEnds
  <1>5. CASE TemplateFails \/ Closed
    BY <1>2, <1>5 DEF TemplateFails, Closed
  <1>6. CASE GenerateAll \/ Resume
    BY <1>1, <1>6, StartKeepsBusy DEF GenerateAll, Resume
  <1>7. ASSUME NEW m \in Messages, MessageArrives(m)
        PROVE  WaitersAwaited'
    BY <1>7, AwaitedOtherwise DEF MessageArrives
  <1>8. ASSUME NEW m \in Messages, QueueRequest(m) \/ DeepDebugRefused(m)
        PROVE  WaitersAwaited'
    BY <1>1, <1>8 DEF QueueRequest, DeepDebugRefused
  <1>9. ASSUME NEW m \in Messages, WaitForGeneration(m)
        PROVE  WaitersAwaited'
    BY <1>9 DEF WaitForGeneration, Calls, WaitersAwaited, IsDeepDebugging, TypeOK
  <1>10. ASSUME NEW m \in Messages, DeepDebug(m)
         PROVE  WaitersAwaited'
    BY <1>10 DEF DeepDebug, Calls, WaitersAwaited, IsDeepDebugging, TypeOK
  <1>11. ASSUME NEW m \in Messages, DebugEnds(m)
         PROVE  WaitersAwaited'
    <2>1. \A n \in Messages :
            /\ message'[n] \notin {"awaitsDebug", "debugging"}
            /\ message'[n] = message[n] \/ message'[n] = "handled"
      BY <1>11 DEF DebugEnds, Woken, WaitersAwaited, TypeOK
    <2>2. QED
      BY <1>11, <2>1 DEF DebugEnds, WaitersAwaited
  <1>12. ASSUME NEW m \in Messages, WaitForDebug(m)
         PROVE  WaitersAwaited'
    BY <1>12 DEF WaitForDebug, Calls, WaitersAwaited, IsDeepDebugging, TypeOK
  <1>13. ASSUME NEW m \in Messages, MessageHandled(m) \/ MessageFails(m)
         PROVE  WaitersAwaited'
    BY <1>13, AwaitedOtherwise, StartKeepsBusy DEF MessageHandled, MessageFails, Leave
  <1>14. CASE Evict
    BY <1>14 DEF Evict, WaitersAwaited
  <1>15. CASE UNCHANGED vars
    BY <1>1, <1>15 DEF vars
  <1>16. QED
    BY <1>3, <1>4, <1>5, <1>6, <1>7, <1>8, <1>9, <1>10, <1>11, <1>12, <1>13,
       <1>14, <1>15 DEF Next

\* No tool of a conversation waits for what nobody will bring about.
THEOREM GenerationWaitersAwaited == Spec => []WaitersAwaited
  <1>1. Init => WaitersAwaited
    BY DEF Init, WaitersAwaited
  <1>2. QED
    BY <1>1, GenerationTypeOK, AwaitedStep, PTL DEF Spec

-------------------------------------------------------------------------------
(* Every message is handled *)

\* The fairness of FairSpec, with the states written out in which each of its
\* actions can be taken.
FetchEnds == TemplateReady \/ TemplateFails
BuildReturns == \E failed \in BOOLEAN : BuildEnds(failed)
SessionEnds == \E m \in Messages : DebugEnds(m)
TalkEnds(m) == MessageHandled(m) \/ MessageFails(m)

\* Conversations that come back from their waits again and again end.
ThingsEnd ==
  /\ []<>~(gen = "template") \/ []<><<FetchEnds>>_vars
  /\ []<>~(gen = "building") \/ []<><<BuildReturns>>_vars
  /\ []<>~(gen = "closing") \/ []<><<Closed>>_vars
  /\ []<>~IsDeepDebugging \/ []<><<SessionEnds>>_vars

TalksEnd(m) == <>[]~(message[m] = "handled") \/ []<><<TalkEnds(m)>>_vars


OnBuild(m, stage) == message[m] = "awaitsBuild" /\ gen = stage

OnDebug(m) == message[m] = "awaitsDebug"

Debugging(m) == message[m] = "debugging"

Talking(m) == message[m] = "handled"

Over(m) == message[m] = "idle"

\* A generation goes on to its end.
BuildGoesOn ==
  \/ gen' = gen
  \/ gen = "template" /\ gen' = "building"
  \/ gen = "building" /\ gen' = "closing"

\* A conversation waits on, while what it waits for goes on, or the wait is over.
LEMMA TalkStep ==
  ASSUME TypeOK, WaitersAwaited, [Next]_vars, NEW m \in Messages, ~Talking(m), ~Over(m)
  PROVE  \/ Talking(m)' \/ Over(m)'
         \/ message'[m] = message[m] /\ (message[m] = "awaitsBuild" => BuildGoesOn)
  <1> USE DEF intent
  <1> DEFINE Goes ==
        \/ Talking(m)' \/ Over(m)'
        \/ message'[m] = message[m] /\ (message[m] = "awaitsBuild" => BuildGoesOn)
  <1>1. ASSUME message' = message, BuildGoesOn \/ gen = "none"
        PROVE  Goes
    BY <1>1 DEF WaitersAwaited
  <1>2. ASSUME NEW n \in Messages, message'[m] = message[m] \/ n = m,
               n = m => message'[m] \in {"handled", "idle"}, gen' = gen \/ gen = "none"
        PROVE  Goes
    BY <1>2 DEF WaitersAwaited, BuildGoesOn, Talking, Over
  <1>3. CASE TemplateReady \/ BuildFetches \/ BuildInfers \/ BuildCompletes \/ Stop
    BY <1>1, <1>3
    DEF TemplateReady, BuildFetches, BuildInfers, BuildCompletes, Stop, BuildGoesOn
  <1>4. ASSUME NEW failed \in BOOLEAN, BuildEnds(failed)
        PROVE  Goes
    BY <1>1, <1>4 DEF BuildEnds, BuildGoesOn
  <1>5. CASE TemplateFails \/ Closed
    BY <1>5 DEF TemplateFails, Closed, Woken, Talking, Over
  <1>6. CASE GenerateAll \/ Resume
    BY <1>1, <1>6, StartKeepsBusy DEF GenerateAll, Resume, BuildGoesOn
  <1>7. ASSUME NEW n \in Messages, MessageArrives(n)
        PROVE  Goes
    BY <1>2, <1>7 DEF MessageArrives, TypeOK
  <1>8. ASSUME NEW n \in Messages, QueueRequest(n) \/ DeepDebugRefused(n)
        PROVE  Goes
    BY <1>1, <1>8 DEF QueueRequest, DeepDebugRefused, BuildGoesOn
  <1>9. ASSUME NEW n \in Messages,
               WaitForGeneration(n) \/ DeepDebug(n) \/ WaitForDebug(n)
        PROVE  Goes
    <2>1. n # m /\ message'[m] = message[m] /\ gen' = gen
      BY <1>9 DEF WaitForGeneration, DeepDebug, WaitForDebug, Calls, Talking, TypeOK
    <2>2. QED
      BY <2>1 DEF BuildGoesOn
  <1>10. ASSUME NEW n \in Messages, DebugEnds(n)
         PROVE  Goes
    BY <1>10 DEF DebugEnds, Woken, TypeOK, BuildGoesOn, Talking
  <1>11. ASSUME NEW n \in Messages, MessageHandled(n) \/ MessageFails(n)
         PROVE  Goes
    BY <1>2, <1>11, StartKeepsBusy DEF MessageHandled, MessageFails, Leave, TypeOK
  <1>12. CASE Evict
    BY <1>12 DEF Evict, Over
  <1>13. CASE UNCHANGED vars
    BY <1>1, <1>13 DEF vars, BuildGoesOn
  <1>14. QED
    BY <1>3, <1>4, <1>5, <1>6, <1>7, <1>8, <1>9, <1>10, <1>11, <1>12, <1>13 DEF Next

\* What ends each wait.
LEMMA WaitEnds ==
  ASSUME TypeOK, WaitersAwaited, NEW m \in Messages
  PROVE  /\ OnBuild(m, "template") /\ (TemplateReady \/ TemplateFails) =>
              OnBuild(m, "building")' \/ Talking(m)'
         /\ OnBuild(m, "building") /\ (\E failed \in BOOLEAN : BuildEnds(failed)) =>
              OnBuild(m, "closing")'
         /\ OnBuild(m, "closing") /\ Closed => Talking(m)'
         /\ OnDebug(m) /\ (\E n \in Messages : DebugEnds(n)) => Talking(m)'
         /\ Debugging(m) /\ (\E n \in Messages : DebugEnds(n)) => Talking(m)'
         /\ MessageHandled(m) \/ MessageFails(m) => Over(m)'
  <1> USE DEF OnBuild, OnDebug, Talking, Over
  <1>1. OnBuild(m, "template") /\ (TemplateReady \/ TemplateFails) =>
          OnBuild(m, "building")' \/ Talking(m)'
    BY DEF TemplateReady, TemplateFails, Woken
  <1>2. OnBuild(m, "building") /\ (\E failed \in BOOLEAN : BuildEnds(failed)) =>
          OnBuild(m, "closing")'
    BY DEF BuildEnds
  <1>3. OnBuild(m, "closing") /\ Closed => Talking(m)'
    BY DEF Closed, Woken
  <1>4. OnDebug(m) /\ (\E n \in Messages : DebugEnds(n)) => Talking(m)'
    BY DEF DebugEnds, Woken, TypeOK
  <1>5. MessageHandled(m) \/ MessageFails(m) => Over(m)'
    BY DEF MessageHandled, MessageFails, Leave, TypeOK
  <1>6. Debugging(m) /\ (\E n \in Messages : DebugEnds(n)) => Talking(m)'
    BY DEF DebugEnds, Woken, TypeOK, WaitersAwaited, Debugging
  <1>7. QED
    BY <1>1, <1>2, <1>3, <1>4, <1>5, <1>6

LEMMA MessageEnds ==
  ASSUME NEW m \in Messages
  PROVE  Spec /\ ThingsEnd /\ TalksEnd(m) => (~Over(m) ~> Over(m))
  <1> DEFINE OnTemplate == OnBuild(m, "template")
             Building == OnBuild(m, "building")
             Closing == OnBuild(m, "closing")
             Free == Talking(m) \/ Over(m)
  <1>1. TypeOK /\ WaitersAwaited =>
          /\ Free \/ OnTemplate \/ Building \/ Closing \/ OnDebug(m) \/ Debugging(m)
          /\ OnTemplate => gen = "template"
          /\ Building => gen = "building"
          /\ Closing => gen = "closing"
          /\ OnDebug(m) \/ Debugging(m) => IsDeepDebugging
    BY DEF TypeOK, Talks, WaitersAwaited, IsDeepDebugging, OnBuild, OnDebug, Debugging,
           Talking, Over
  <1>2. TypeOK /\ WaitersAwaited /\ [Next]_vars =>
          /\ OnTemplate => OnTemplate' \/ Building' \/ Free'
          /\ Building => Building' \/ Closing' \/ Free'
          /\ Closing => Closing' \/ Free'
          /\ OnDebug(m) => OnDebug(m)' \/ Free'
          /\ Debugging(m) => Debugging(m)' \/ Free'
    BY TalkStep DEF BuildGoesOn, OnBuild, OnDebug, Debugging, Talking, Over
  <1>3. TypeOK /\ WaitersAwaited =>
          /\ OnTemplate /\ <<FetchEnds>>_vars => Building' \/ Free'
          /\ Building /\ <<BuildReturns>>_vars => Closing'
          /\ Closing /\ <<Closed>>_vars => Free'
          /\ OnDebug(m) /\ <<SessionEnds>>_vars => Free'
          /\ Debugging(m) /\ <<SessionEnds>>_vars => Free'
          /\ <<TalkEnds(m)>>_vars => Over(m)'
    BY WaitEnds DEF FetchEnds, BuildReturns, SessionEnds, TalkEnds
  <1>4. Talking(m) <=> message[m] = "handled"
    BY DEF Talking
  <1> HIDE DEF OnTemplate, Building, Closing
  <1>5. QED
    BY <1>1, <1>2, <1>3, <1>4, GenerationTypeOK, GenerationWaitersAwaited, PTL
    DEF Spec, ThingsEnd, TalksEnd

\* Every message of the user is handled to its end.
THEOREM EveryMessageIsHandled ==
  Spec /\ ThingsEnd /\ (\A m \in Messages : TalksEnd(m)) => EveryMessageEnds
  <1>1. ASSUME NEW m \in Messages
        PROVE  Spec /\ ThingsEnd /\ TalksEnd(m) =>
                 (message[m] # "idle" ~> message[m] = "idle")
    <2>1. Over(m) <=> message[m] = "idle"
      BY DEF Over
    <2>2. ~Over(m) <=> message[m] # "idle"
      BY DEF Over
    <2>3. QED
      BY <2>1, <2>2, MessageEnds, PTL
  <1>2. QED
    BY <1>1 DEF EveryMessageEnds
===============================================================================
