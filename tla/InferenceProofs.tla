--------------------------- MODULE InferenceProofs ---------------------------
(* Theorems about Resources and Inference, for all calls and all limits. *)
EXTENDS Inference, FiniteSetTheorems, WellFoundedInduction, TLAPS

-------------------------------------------------------------------------------
(* The conflict rule *)

\* hasResourceConflict does not depend on the order of the two calls: the plan
\* asks it of a call and the calls before it only.
THEOREM ConflictSymmetric ==
  ASSUME NEW a \in Access, NEW b \in Access
  PROVE  Conflict(a, b) <=> Conflict(b, a)
  BY DEF Conflict, PathsOverlap, Exclusive

\* hasResourceConflict says conflict whenever one of two calls changes what the
\* other one uses, and, in a project that has files, only then.
THEOREM ConflictIsInterference ==
  ASSUME NEW a \in Access, NEW b \in Access, Path # {}
  PROVE  Conflict(a, b) <=> Interferes(a, b)
  <1>1. ASSUME NEW P \in SUBSET Path, NEW Q \in SUBSET Path
        PROVE  PathsOverlap(P, Q) <=> AllIfEmpty(P) \cap AllIfEmpty(Q) # {}
    BY <1>1 DEF PathsOverlap, AllIfEmpty
  <1>2. \A P \in SUBSET Path : AllIfEmpty(P) # {} /\ AllIfEmpty(P) \subseteq Path
    BY DEF AllIfEmpty
  <1>3. /\ a.paths \in SUBSET Path /\ b.paths \in SUBSET Path
        /\ a.files \in {"none", "read", "write"}
        /\ b.files \in {"none", "read", "write"}
        /\ a.sandbox \in {"none", "read", "exec", "analysis", "deploy"}
        /\ b.sandbox \in {"none", "read", "exec", "analysis", "deploy"}
    BY DEF Access
  <1>4. /\ "none" \notin {a.sandbox, b.sandbox}
        /\ {a.sandbox, b.sandbox} \cap Exclusive # {}
        <=>
        /\ "none" \notin {a.sandbox, b.sandbox}
        /\ {a.sandbox, b.sandbox} # {"read"}
    BY <1>3 DEF Exclusive
  <1> DEFINE touch(x, y) ==
        FilesWritten(x) \cap (FilesWritten(y) \cup FilesRead(y)) # {}
  <1>5. ASSUME NEW x \in {a, b}, NEW y \in {a, b}
        PROVE  touch(x, y) <=>
                 /\ x.files = "write"
                 /\ \/ y.files # "none" /\ PathsOverlap(x.paths, y.paths)
                    \/ y.gitCommit
    <2>1. CASE x.files # "write"
      BY <2>1 DEF FilesWritten
    <2>2. CASE x.files = "write" /\ y.gitCommit
      BY <2>2, <1>2, <1>3 DEF FilesWritten, FilesRead
    <2>3. CASE x.files = "write" /\ ~y.gitCommit
      <3>1. FilesWritten(y) \cup FilesRead(y) =
              IF y.files = "none" THEN {} ELSE AllIfEmpty(y.paths)
        BY <2>3, <1>3 DEF FilesWritten, FilesRead
      <3>2. FilesWritten(x) = AllIfEmpty(x.paths)
        BY <2>3 DEF FilesWritten
      <3>3. PathsOverlap(x.paths, y.paths) <=>
              AllIfEmpty(x.paths) \cap AllIfEmpty(y.paths) # {}
        BY <1>1, <1>3
      <3>4. QED
        BY <3>1, <3>2, <3>3, <2>3
    <2>4. QED
      BY <2>1, <2>2, <2>3
  <1>6. PathsOverlap(a.paths, b.paths) <=> PathsOverlap(b.paths, a.paths)
    BY DEF PathsOverlap
  <1>7. /\ touch(a, b) <=>
             /\ a.files = "write"
             /\ \/ b.files # "none" /\ PathsOverlap(a.paths, b.paths)
                \/ b.gitCommit
        /\ touch(b, a) <=>
             /\ b.files = "write"
             /\ \/ a.files # "none" /\ PathsOverlap(b.paths, a.paths)
                \/ a.gitCommit
    BY <1>5
  <1>8. Interferes(a, b) <=>
          \/ touch(a, b) \/ touch(b, a)
          \/ /\ "none" \notin {a.sandbox, b.sandbox}
             /\ {a.sandbox, b.sandbox} # {"read"}
          \/ a.blueprint /\ b.blueprint
    BY DEF Interferes
  <1>9. QED
    BY <1>3, <1>4, <1>6, <1>7, <1>8 DEF Conflict

LEMMA InterferenceConflicts ==
  ASSUME NEW a \in Access, NEW b \in Access, Interferes(a, b)
  PROVE  Conflict(a, b)
  <1>1. CASE Path # {}
    BY <1>1, ConflictIsInterference
  <1>2. CASE Path = {}
    <2>1. \A x \in {a, b} : FilesWritten(x) = {} /\ FilesRead(x) = {}
      BY <1>2 DEF FilesWritten, FilesRead, AllIfEmpty, Access
    <2>2. \/ /\ "none" \notin {a.sandbox, b.sandbox}
             /\ {a.sandbox, b.sandbox} # {"read"}
          \/ a.blueprint /\ b.blueprint
      BY <2>1 DEF Interferes
    <2>3. /\ a.sandbox \in {"none", "read", "exec", "analysis", "deploy"}
          /\ b.sandbox \in {"none", "read", "exec", "analysis", "deploy"}
      BY DEF Access
    <2>4. QED
      BY <2>2, <2>3 DEF Conflict, Exclusive
  <1>3. QED
    BY <1>1, <1>2

-------------------------------------------------------------------------------
(* Types *)

LEMMA FirstOf ==
  ASSUME NEW S \in SUBSET Nat, S # {}
  PROVE  First(S) \in S /\ \A j \in S : First(S) <= j
  <1>1. PICK x \in S : \A y \in S : <<y, x>> \notin OpToRel(<, Nat)
    BY NatLessThanWellFounded, WFMin
  <1>2. ASSUME NEW y \in S
        PROVE  x <= y
    <2>1. ~(y < x)
      BY <1>1 DEF OpToRel
    <2>2. QED
      BY <2>1
  <1>3. QED
    BY <1>2 DEF First

LEMMA EmptyBatch == <<>> \in Batches /\ DOMAIN <<>> = {}
  <1>1. <<>> \in [1..0 -> Calls]
    OBVIOUS
  <1>2. 0 \in 0..MaxCalls
    BY InferenceAssumption
  <1>3. QED
    BY <1>1, <1>2 DEF Batches

LEMMA BatchFacts ==
  ASSUME NEW b \in Batches
  PROVE  /\ Len(b) \in Nat /\ DOMAIN b = 1..Len(b)
         /\ IsFiniteSet(DOMAIN b) /\ Cardinality(DOMAIN b) = Len(b)
         /\ b \in Seq(Calls)
  <1>1. PICK n \in 0..MaxCalls : b \in [1..n -> Calls]
    BY DEF Batches
  <1>2. n \in Nat /\ DOMAIN b = 1..n
    BY <1>1, InferenceAssumption
  <1>3. b \in Seq(Calls) /\ Len(b) = n
    BY <1>1, <1>2
  <1>4. IsFiniteSet(1..n) /\ Cardinality(1..n) = IF 1 > n THEN 0 ELSE n - 1 + 1
    BY <1>2, FS_Interval
  <1>5. QED
    BY <1>2, <1>3, <1>4

\* Sets of indices of the batch are finite.
LEMMA Indices ==
  ASSUME batch \in Batches, NEW S \in SUBSET DOMAIN batch
  PROVE  IsFiniteSet(S) /\ Cardinality(S) \in Nat
  BY BatchFacts, FS_Subset, FS_CardinalityType

LEMMA GroupFacts ==
  ASSUME batch \in Batches, Waiting # {}
  PROVE  /\ NextGroup \subseteq Waiting
         /\ \A i \in NextGroup : Deps(i) \subseteq started
  <1>1. Waiting \in SUBSET Nat
    BY BatchFacts DEF Waiting
  <1>2. First(Waiting) \in Waiting /\ \A j \in Waiting : First(Waiting) <= j
    BY <1>1, FirstOf
  <1>3. ASSUME NEW j \in Deps(First(Waiting))
        PROVE  j \in started
    <2>1. j \in DOMAIN batch /\ j < First(Waiting)
      BY DEF Deps
    <2>2. j \in Nat
      BY <2>1, BatchFacts
    <2>3. First(Waiting) \in Nat
      BY <1>1, <1>2
    <2>4. j \notin Waiting
      BY <2>1, <2>2, <2>3, <1>2
    <2>5. QED
      BY <2>1, <2>4 DEF Waiting
  <1>4. QED
    BY <1>2, <1>3 DEF NextGroup

LEMMA OthersRunning ==
  ASSUME batch \in Batches, started \subseteq DOMAIN batch, NEW i \in Running
  PROVE  Cardinality(Running) \in Nat /\ Cardinality(Running) - 1 \in Nat
  <1>1. IsFiniteSet(Running) /\ Cardinality(Running) \in Nat
    BY Indices DEF Running
  <1>2. Cardinality(Running) # 0
    BY <1>1, FS_EmptySet
  <1>3. QED
    BY <1>1, <1>2

LEMMA RetryFacts ==
  ASSUME req \in Request
  PROVE  /\ Retry(req) \in Request
         /\ Retry(req).stage \in {"backoff", "done"}
         /\ Retry(req).stage = "backoff" => Retry(req).asked = Retry(req).answered
         /\ Retry(req).structured = req.structured
  <1>1. NewRequest(req.structured) \in Request
    BY InferenceAssumption DEF NewRequest, Request
  <1>2. CASE req.attempt + 1 < RetryLimit
    <2>1. req.attempt + 1 \in 0..(RetryLimit - 1)
      BY <1>2, InferenceAssumption DEF Request
    <2>2. Retry(req) = [NewRequest(req.structured) EXCEPT !.stage = "backoff",
                                                        !.attempt = req.attempt + 1]
      BY <1>2 DEF Retry
    <2>3. QED
      BY <1>1, <2>1, <2>2 DEF NewRequest, Request
  <1>3. CASE ~(req.attempt + 1 < RetryLimit)
    BY <1>3 DEF Retry, Done, Request
  <1>4. QED
    BY <1>2, <1>3

LEMMA DoneFacts ==
  ASSUME req \in Request,
         NEW outcome \in {"text", "object", "null", "limited", "cancelled"}
  PROVE  /\ Done(req, outcome) \in Request
         /\ Done(req, outcome).stage = "done"
         /\ Done(req, outcome).structured = req.structured
  BY DEF Done, Request

\* The results go to the LLM, or the chain is over.
LEMMA ToldFacts ==
  ASSUME req \in Request, batch \in Batches, ended \subseteq DOMAIN batch,
         req.stage = "tools" => req.depth < MaxDepth, ToolsDone
  PROVE  /\ req' \in Request
         /\ req'.stage \in {"done", "prepare"}
         /\ req.asked = req.answered => req'.asked = req'.answered
  <1> DEFINE n == Len(batch)
             told == [req EXCEPT !.asked = req.asked + n,
                                 !.answered = req.answered + n]
  <1>1. n \in Nat /\ Cardinality(ended) = n
    BY BatchFacts DEF ToolsDone
  <1>2. \/ req' = [told EXCEPT !.stage = "done", !.outcome = "text"]
        \/ req' = [told EXCEPT !.stage = "prepare", !.depth = told.depth + 1]
    BY <1>1 DEF ToolsDone, Done
  <1>3. req.depth + 1 \in 0..MaxDepth
    BY InferenceAssumption DEF ToolsDone, Request
  <1> HIDE DEF n
  <1>4. told \in Request /\ told.depth = req.depth
    <2>1. req.asked + n \in Nat /\ req.answered + n \in Nat
      BY <1>1 DEF Request
    <2>2. \A x, y \in Nat :
            /\ [req EXCEPT !.asked = x, !.answered = y] \in Request
            /\ [req EXCEPT !.asked = x, !.answered = y].depth = req.depth
      BY DEF Request
    <2>3. QED
      BY <2>1, <2>2
  <1>5. told.asked = req.asked + n /\ told.answered = req.answered + n
    <2>1. DOMAIN req = {"stage", "attempt", "depth", "asked", "answered",
                        "structured", "outcome"}
      BY DEF Request
    <2>2. QED
      BY <2>1, Zenon
  <1> HIDE DEF told
  <1>6. CASE req' = [told EXCEPT !.stage = "done", !.outcome = "text"]
    BY <1>4, <1>5, <1>6 DEF Request
  <1>7. CASE req' = [told EXCEPT !.stage = "prepare", !.depth = told.depth + 1]
    BY <1>3, <1>4, <1>5, <1>7 DEF Request
  <1>8. QED
    BY <1>2, <1>6, <1>7

\* What the stage says about the batch and the depth.
Batched ==
  /\ req.stage \notin {"received", "tools"} => batch = <<>>
  /\ req.stage # "tools" => started = {}
  /\ req.structured => batch = <<>>

DepthLeft == req.stage \in {"llm", "received", "tools"} => req.depth < MaxDepth

Shape == TypeOK /\ Batched /\ DepthLeft

LEMMA BatchGone ==
  ASSUME Shape, NoBatch, req' \in Request,
         req'.stage \notin {"llm", "received", "tools"},
         NEW left \in Nat, orphans' = orphans + left, UNCHANGED <<aborted, late>>
  PROVE  Shape'
  <1>1. orphans' \in Nat
    BY DEF Shape, TypeOK
  <1>2. QED
    BY <1>1, EmptyBatch DEF Shape, TypeOK, Batched, DepthLeft, NoBatch

LEMMA ShapeInit == Init => Shape
  <1> SUFFICES ASSUME Init PROVE Shape
    OBVIOUS
  <1>1. req \in Request /\ req.stage = "prepare"
    BY InferenceAssumption DEF Init, NewRequest, Request
  <1>2. QED
    BY <1>1, EmptyBatch DEF Init, Shape, TypeOK, Batched, DepthLeft

LEMMA ShapeStep ==
  ASSUME Shape, [Next]_vars
  PROVE  Shape'
  <1> USE DEF Shape, TypeOK, Batched, DepthLeft, toolVars
  <1>1. CASE RateLimited
    BY <1>1, DoneFacts DEF RateLimited
  <1>2. CASE PrepareFails
    BY <1>2, RetryFacts DEF PrepareFails
  <1>3. CASE DepthReached
    BY <1>3, DoneFacts, RetryFacts DEF DepthReached
  <1>4. CASE Send
    <2>1. CASE aborted
      BY <1>4, <2>1, DoneFacts DEF Send
    <2>2. CASE ~aborted
      BY <1>4, <2>2 DEF Send, Request
    <2>3. QED
      BY <2>1, <2>2
  <1>5. CASE LlmFails
    BY <1>5, RetryFacts DEF LlmFails
  <1>6. CASE LlmAborted
    BY <1>6, DoneFacts DEF LlmAborted
  <1>7. CASE TextRepeats
    BY <1>7, RetryFacts DEF TextRepeats
  <1>8. CASE LlmResponds
    <2>1. req' \in Request /\ req'.stage = "received"
      BY <1>8 DEF LlmResponds, Request
    <2>2. req'.depth = req.depth /\ req'.structured = req.structured
      BY <1>8 DEF LlmResponds, Request
    <2>3. started = {} /\ ended = {}
      BY <1>8 DEF LlmResponds
    <2>4. QED
      BY <1>8, <2>1, <2>2, <2>3 DEF LlmResponds
  <1>9. CASE SaveFails
    BY <1>9, RetryFacts, EmptyBatch DEF SaveFails, NoBatch
  <1>10. CASE Answer
    BY <1>10, DoneFacts DEF Answer
  <1>11. CASE AnswerObject
    BY <1>11, DoneFacts, RetryFacts DEF AnswerObject
  <1>12. CASE ExecuteTools
    BY <1>12 DEF ExecuteTools, Request
  <1>13. CASE StartGroup
    <2>1. NextGroup \subseteq DOMAIN batch
      BY <1>13, GroupFacts DEF StartGroup, Waiting
    <2>2. CASE Undefined(NextGroup) = {}
      BY <1>13, <2>1, <2>2 DEF StartGroup
    <2>3. CASE Undefined(NextGroup) # {}
      <3>1. Cardinality(NextGroup \ Undefined(NextGroup)) \in Nat
        BY <2>1, Indices
      <3>2. Abandon(Cardinality(NextGroup \ Undefined(NextGroup)))
        BY <1>13, <2>3 DEF StartGroup
      <3>3. UNCHANGED <<aborted, late>>
        BY <1>13 DEF StartGroup
      <3>4. QED
        BY <3>1, <3>2, <3>3, DoneFacts, BatchGone DEF Abandon
    <2>4. QED
      BY <2>2, <2>3
  <1>14. CASE \E i \in DOMAIN batch, value \in BOOLEAN : ToolEnds(i, value)
    <2> PICK i \in DOMAIN batch, value \in BOOLEAN : ToolEnds(i, value)
      BY <1>14
    <2>1. useful' \in BOOLEAN
      BY DEF ToolEnds
    <2>2. QED
      BY <2>1 DEF ToolEnds, Running
  <1>15. CASE \E i \in DOMAIN batch : ToolRejects(i)
    <2> PICK i \in DOMAIN batch : ToolRejects(i)
      BY <1>15
    <2>1. Cardinality(Running) \in Nat /\ Cardinality(Running) - 1 \in Nat
      BY OthersRunning DEF ToolRejects
    <2>2. QED
      BY <2>1, DoneFacts, BatchGone DEF ToolRejects, Abandon
  <1>16. CASE \E i \in DOMAIN batch : ToolAborts(i)
    <2> PICK i \in DOMAIN batch : ToolAborts(i)
      BY <1>16
    <2>1. Cardinality(Running) \in Nat /\ Cardinality(Running) - 1 \in Nat
      BY OthersRunning DEF ToolAborts
    <2>2. Done(req, "text") \in Request /\ Done(req, "text").stage = "done"
      BY DoneFacts
    <2>3. Len(batch) \in Nat
      BY BatchFacts
    <2>4. req' = [Done(req, "text") EXCEPT !.asked = Done(req, "text").asked + Len(batch)]
      BY DEF ToolAborts
    <2>5. req' \in Request /\ req'.stage = "done"
      BY <2>2, <2>3, <2>4 DEF Request
    <2>6. orphans' = orphans + (Cardinality(Running) - 1)
      BY <2>1 DEF ToolAborts
    <2>7. QED
      BY <2>1, <2>5, <2>6, BatchGone DEF ToolAborts
  <1>17. CASE ToolsDone
    <2>1. req' \in Request /\ req'.stage \in {"done", "prepare"}
      BY <1>17, ToldFacts
    <2>2. QED
      BY <1>17, <2>1, EmptyBatch DEF ToolsDone, NoBatch
  <1>18. CASE OrphanEnds
    BY <1>18 DEF OrphanEnds
  <1>19. CASE BackoffDone
    BY <1>19 DEF BackoffDone, Request
  <1>20. CASE Abort
    BY <1>20 DEF Abort
  <1>21. CASE UNCHANGED vars
    BY <1>21 DEF vars
  <1>22. QED
    BY <1>1, <1>2, <1>3, <1>4, <1>5, <1>6, <1>7, <1>8, <1>9, <1>10, <1>11, <1>12,
       <1>13, <1>14, <1>15, <1>16, <1>17, <1>18, <1>19, <1>20, <1>21
       DEF Next, Proceed

\* Every variable keeps its type, and a batch is there only between a response
\* and the end of its tools (infer in worker/agents/inferutils/core.ts).
THEOREM InferenceTypeOK == Spec => []TypeOK
  <1>1. Shape => TypeOK
    BY DEF Shape
  <1>2. QED
    BY ShapeInit, ShapeStep, <1>1, PTL DEF Spec

-------------------------------------------------------------------------------
(* The chain, the abort and the orphans *)

\* ChainAnswered for the stages between two requests too.
Balanced == req.stage # "done" => req.asked = req.answered

\* The batch received after the abort ends the requests.
LateOnce ==
  /\ late \in {0, 1}
  /\ late = 1 => aborted /\ req.stage # "llm"

ChainInv == Balanced /\ LateOnce /\ OrphansAfterTheEnd

LEMMA ChainInit == Init => ChainInv
  BY DEF Init, NewRequest, ChainInv, Balanced, LateOnce, OrphansAfterTheEnd

LEMMA ChainStep ==
  ASSUME Shape, ChainInv, [Next]_vars
  PROVE  ChainInv'
  <1> USE DEF ChainInv, Balanced, LateOnce, OrphansAfterTheEnd, toolVars
  <1>t. req \in Request /\ batch \in Batches /\ ended \subseteq DOMAIN batch
        /\ (req.stage = "tools" => req.depth < MaxDepth)
        /\ (Running # {} => req.stage = "tools")
    BY DEF Shape, TypeOK, Batched, DepthLeft, Running
  <1>1. CASE RateLimited
    BY <1>1, <1>t, DoneFacts DEF RateLimited
  <1>2. CASE PrepareFails
    BY <1>2, <1>t, RetryFacts DEF PrepareFails
  <1>3. CASE DepthReached
    BY <1>3, <1>t, DoneFacts, RetryFacts DEF DepthReached
  <1>4. CASE Send
    <2>1. CASE aborted
      BY <1>4, <2>1, <1>t, DoneFacts DEF Send
    <2>2. CASE ~aborted
      BY <1>4, <2>2, <1>t DEF Send, Request
    <2>3. QED
      BY <2>1, <2>2
  <1>5. CASE LlmFails
    BY <1>5, <1>t, RetryFacts DEF LlmFails
  <1>6. CASE LlmAborted
    BY <1>6, <1>t, DoneFacts DEF LlmAborted
  <1>7. CASE TextRepeats
    BY <1>7, <1>t, RetryFacts DEF TextRepeats
  <1>8. CASE LlmResponds
    BY <1>8, <1>t DEF LlmResponds, Request
  <1>9. CASE SaveFails
    BY <1>9, <1>t, RetryFacts DEF SaveFails
  <1>10. CASE Answer
    BY <1>10, <1>t, DoneFacts DEF Answer
  <1>11. CASE AnswerObject
    BY <1>11, <1>t, DoneFacts, RetryFacts DEF AnswerObject
  <1>12. CASE ExecuteTools
    BY <1>12, <1>t DEF ExecuteTools, Request
  <1>13. CASE StartGroup
    BY <1>13, <1>t, DoneFacts DEF StartGroup, Abandon
  <1>14. CASE \E i \in DOMAIN batch, value \in BOOLEAN : ToolEnds(i, value)
    BY <1>14 DEF ToolEnds
  <1>15. CASE \E i \in DOMAIN batch : ToolRejects(i)
    BY <1>15, <1>t, DoneFacts DEF ToolRejects, Abandon
  <1>16. CASE \E i \in DOMAIN batch : ToolAborts(i)
    <2>1. req'.stage = "done"
      BY <1>16, <1>t, DoneFacts DEF ToolAborts, Request
    <2>2. QED
      BY <1>16, <2>1 DEF ToolAborts
  <1>17. CASE ToolsDone
    BY <1>17, <1>t, ToldFacts DEF ToolsDone
  <1>18. CASE OrphanEnds
    BY <1>18 DEF OrphanEnds, Shape, TypeOK
  <1>19. CASE BackoffDone
    BY <1>19, <1>t DEF BackoffDone, Request
  <1>20. CASE Abort
    BY <1>20 DEF Abort
  <1>21. CASE UNCHANGED vars
    BY <1>21 DEF vars
  <1>22. QED
    BY <1>1, <1>2, <1>3, <1>4, <1>5, <1>6, <1>7, <1>8, <1>9, <1>10, <1>11, <1>12,
       <1>13, <1>14, <1>15, <1>16, <1>17, <1>18, <1>19, <1>20, <1>21
       DEF Next, Proceed

LEMMA ChainInvariant == Spec => [](Shape /\ ChainInv)
  BY ShapeInit, ShapeStep, ChainInit, ChainStep, PTL DEF Spec

\* Whatever chain of responses, retries and failing tools led there, a context
\* that goes to the LLM has a result for each of its tool calls.
THEOREM InferenceChainAnswered == Spec => []ChainAnswered
  <1>1. ChainInv => ChainAnswered
    BY DEF ChainInv, Balanced, ChainAnswered
  <1>2. QED
    BY ChainInvariant, <1>1, PTL

\* After an abort at most one response has its tools executed, for any number of
\* attempts and any depth.
THEOREM InferenceAbortBites == Spec => []AbortBites
  <1>1. ChainInv => AbortBites
    BY DEF ChainInv, LateOnce, AbortBites
  <1>2. QED
    BY ChainInvariant, <1>1, PTL

\* A tool that is not waited for never runs beside a later step of the inference
\* that started it.
THEOREM InferenceOrphansAfterTheEnd == Spec => []OrphansAfterTheEnd
  <1>1. ChainInv => OrphansAfterTheEnd
    BY DEF ChainInv
  <1>2. QED
    BY ChainInvariant, <1>1, PTL

-------------------------------------------------------------------------------
(* The groups of executeToolCallsWithDefinitions implement the schedule *)

\* The abstract variables.
AccessIn(b) == [i \in DOMAIN b |-> IF b[i].defined THEN b[i].access ELSE NoAccess]

PhaseOf(b, st, en) ==
  [i \in DOMAIN b |->
     IF i \in en THEN "over" ELSE IF i \in st THEN "running" ELSE "waiting"]

LEMMA NoAccessType == NoAccess \in Access
  BY DEF NoAccess, Access

\* A call that accesses nothing interferes with none.
LEMMA NoAccessFree ==
  ASSUME NEW a \in Access
  PROVE  ~Interferes(a, NoAccess) /\ ~Interferes(NoAccess, a)
  BY DEF Interferes, NoAccess, FilesWritten, FilesRead

LEMMA AccessInType ==
  ASSUME NEW b \in Batches
  PROVE  AccessIn(b) \in Seq(Access) /\ DOMAIN AccessIn(b) = DOMAIN b
  <1>1. Len(b) \in Nat /\ DOMAIN b = 1..Len(b) /\ b \in Seq(Calls)
    BY BatchFacts
  <1>2. ASSUME NEW i \in DOMAIN b
        PROVE  (IF b[i].defined THEN b[i].access ELSE NoAccess) \in Access
    <2>1. b[i] \in Call
      BY <1>1, InferenceAssumption
    <2>2. QED
      BY <2>1, NoAccessType DEF Call
  <1>3. AccessIn(b) \in [1..Len(b) -> Access]
    BY <1>1, <1>2 DEF AccessIn
  <1>4. QED
    BY <1>1, <1>3

\* ToolSchedule has its own copy of the definitions of Resources.
LEMMA SameResources ==
  /\ Schedule!Access = Access
  /\ \A a, b \in Access : Schedule!Interferes(a, b) <=> Interferes(a, b)
  <1>1. Schedule!Access = Access
    BY DEF Schedule!Access, Access
  <1>2. ASSUME NEW a \in Access
        PROVE  /\ Schedule!FilesWritten(a) = FilesWritten(a)
               /\ Schedule!FilesRead(a) = FilesRead(a)
    BY DEF Schedule!FilesWritten, FilesWritten, Schedule!FilesRead, FilesRead,
           Schedule!AllIfEmpty, AllIfEmpty
  <1>3. QED
    BY <1>1, <1>2 DEF Schedule!Interferes, Interferes

LEMMA ScheduleBegins ==
  ASSUME batch' \in Batches, started' = {}, ended' = {}
  PROVE  Schedule!Begin
  <1>1. AccessIn(batch') \in Seq(Access) /\ DOMAIN AccessIn(batch') = DOMAIN batch'
    BY AccessInType
  <1>2. PhaseOf(batch', started', ended') = [i \in DOMAIN batch' |-> "waiting"]
    BY DEF PhaseOf
  <1>3. QED
    BY <1>1, <1>2, SameResources DEF Schedule!Begin, AccessIn, PhaseOf

\* A group starts when everything its calls interfere with is over.
LEMMA ScheduleStarts ==
  ASSUME Shape, StartGroup, Undefined(NextGroup) = {}, NEW S, S = NextGroup
  PROVE  Schedule!Start(S)
  <1>1. /\ batch \in Batches /\ started \subseteq DOMAIN batch
        /\ ended \subseteq started /\ started = ended
    BY DEF Shape, TypeOK, StartGroup, Running
  <1>2. /\ S \subseteq Waiting
        /\ \A i \in S : Deps(i) \subseteq started
    BY <1>1, GroupFacts DEF StartGroup
  <1>3. /\ started' = started \cup S
        /\ batch' = batch /\ ended' = ended
    BY DEF StartGroup
  <1>4. AccessIn(batch) \in Seq(Access) /\ DOMAIN AccessIn(batch) = DOMAIN batch
    BY <1>1, AccessInType
  <1>5. DOMAIN batch = 1..Len(batch) /\ Len(batch) \in Nat
    BY <1>1, BatchFacts
  <1>6. ASSUME NEW i \in S
        PROVE  /\ i \in DOMAIN batch
               /\ PhaseOf(batch, started, ended)[i] = "waiting"
    BY <1>1, <1>2 DEF Waiting, PhaseOf
  <1>7. ASSUME NEW i \in S, NEW j \in 1..(i - 1),
               Interferes(AccessIn(batch)[i], AccessIn(batch)[j])
        PROVE  PhaseOf(batch, started, ended)[j] = "over"
    <2>1. i \in Nat /\ i <= Len(batch)
      BY <1>5, <1>6
    <2>2. j \in Nat /\ j < i /\ j \in DOMAIN batch
      BY <2>1, <1>5
    <2>3. AccessIn(batch)[i] \in Access /\ AccessIn(batch)[j] \in Access
      BY <1>4, <1>6, <2>2
    <2>4. batch[i].defined /\ batch[j].defined
      BY <1>6, <1>7, <2>2, <2>3, NoAccessFree DEF AccessIn
    <2>5. AccessIn(batch)[i] = batch[i].access /\ AccessIn(batch)[j] = batch[j].access
      BY <1>6, <2>2, <2>4 DEF AccessIn
    <2>6. Conflict(batch[i].access, batch[j].access)
      BY <1>7, <2>3, <2>5, InterferenceConflicts
    <2>7. j \in Deps(i)
      BY <2>2, <2>4, <2>6 DEF Deps
    <2>8. j \in ended
      BY <1>1, <1>2, <2>7
    <2>9. QED
      BY <2>2, <2>8 DEF PhaseOf
  <1>8. PhaseOf(batch', started', ended') =
          [i \in DOMAIN PhaseOf(batch, started, ended) |->
             IF i \in S THEN "running" ELSE PhaseOf(batch, started, ended)[i]]
    BY <1>1, <1>2, <1>3 DEF PhaseOf, Waiting
  <1>9. AccessIn(batch') = AccessIn(batch)
    BY <1>3
  <1>10. ASSUME NEW i \in S, NEW j \in 1..(i - 1),
                Schedule!Interferes(AccessIn(batch)[i], AccessIn(batch)[j])
         PROVE  PhaseOf(batch, started, ended)[j] = "over"
    <2>1. i \in Nat /\ i <= Len(batch)
      BY <1>5, <1>6
    <2>2. j \in DOMAIN batch
      BY <2>1, <1>5
    <2>3. Interferes(AccessIn(batch)[i], AccessIn(batch)[j])
      BY <1>4, <1>6, <1>10, <2>2, SameResources
    <2>4. QED
      BY <1>7, <2>3
  <1>11. \A i \in S : \A j \in 1..(i - 1) :
           Schedule!Interferes(AccessIn(batch)[i], AccessIn(batch)[j])
             => PhaseOf(batch, started, ended)[j] = "over"
    BY <1>10
  <1>12. \A i \in S : PhaseOf(batch, started, ended)[i] = "waiting"
    BY <1>6
  <1>13. UNCHANGED AccessIn(batch)
    BY <1>9
  <1>14. QED
    BY <1>8, <1>11, <1>12, <1>13 DEF Schedule!Start, AccessIn, PhaseOf

LEMMA ScheduleFinishes ==
  ASSUME Shape, NEW i \in DOMAIN batch, NEW value \in BOOLEAN, ToolEnds(i, value)
  PROVE  Schedule!Finish(i)
  <1>1. PhaseOf(batch, started, ended)[i] = "running"
    BY DEF ToolEnds, Running, PhaseOf
  <1>2. batch' = batch /\ started' = started /\ ended' = ended \cup {i}
    BY DEF ToolEnds
  <1>3. PhaseOf(batch', started', ended') =
          [PhaseOf(batch, started, ended) EXCEPT ![i] = "over"]
    BY <1>2 DEF PhaseOf
  <1>4. QED
    BY <1>1, <1>2, <1>3 DEF Schedule!Finish, PhaseOf

LEMMA ScheduleStutters ==
  ASSUME UNCHANGED <<batch, started, ended>>
  PROVE  UNCHANGED Schedule!scheduleVars
  <1>1. AccessIn(batch') = AccessIn(batch)
    OBVIOUS
  <1>2. PhaseOf(batch', started', ended') = PhaseOf(batch, started, ended)
    OBVIOUS
  <1>3. QED
    BY <1>1, <1>2 DEF Schedule!scheduleVars, AccessIn, PhaseOf

LEMMA ScheduleInits == Init => Schedule!ScheduleInit
  <1> SUFFICES ASSUME Init PROVE Schedule!ScheduleInit
    OBVIOUS
  <1>1. batch = <<>> /\ DOMAIN batch = {}
    BY EmptyBatch DEF Init
  <1>2. AccessIn(batch) = <<>> /\ PhaseOf(batch, started, ended) = <<>>
    BY <1>1 DEF AccessIn, PhaseOf
  <1>3. QED
    BY <1>2 DEF Schedule!ScheduleInit, AccessIn, PhaseOf

LEMMA ScheduleStep ==
  ASSUME Shape, Shape', [Next]_vars
  PROVE  [Schedule!ScheduleNext]_(Schedule!scheduleVars)
  <1> USE DEF toolVars
  <1>b. batch' \in Batches
    BY DEF Shape, TypeOK
  <1>g. NoBatch => Schedule!Begin
    BY <1>b, ScheduleBegins DEF NoBatch
  <1>1. CASE \/ RateLimited \/ PrepareFails \/ DepthReached \/ Send \/ LlmFails
             \/ LlmAborted \/ TextRepeats \/ Answer \/ AnswerObject \/ ExecuteTools
             \/ BackoffDone \/ OrphanEnds \/ Abort \/ UNCHANGED vars
    <2>1. UNCHANGED <<batch, started, ended>>
      BY <1>1 DEF RateLimited, PrepareFails, DepthReached, Send, LlmFails, LlmAborted,
                  TextRepeats, Answer, AnswerObject, ExecuteTools, BackoffDone,
                  OrphanEnds, Abort, vars
    <2>2. QED
      BY <2>1, ScheduleStutters
  <1>2. CASE LlmResponds
    <2>1. started' = {} /\ ended' = {}
      BY <1>2 DEF LlmResponds, Shape, Batched, TypeOK
    <2>2. QED
      BY <1>b, <2>1, ScheduleBegins DEF Schedule!ScheduleNext
  <1>3. CASE SaveFails \/ ToolsDone
    BY <1>3, <1>g DEF SaveFails, ToolsDone, Schedule!ScheduleNext
  <1>4. CASE StartGroup
    <2>1. CASE Undefined(NextGroup) = {}
      <3> PICK S : S = NextGroup
        OBVIOUS
      <3>1. Schedule!Start(S)
        BY <1>4, <2>1, ScheduleStarts
      <3>2. S \in SUBSET DOMAIN PhaseOf(batch, started, ended)
        BY <1>4, GroupFacts DEF Shape, TypeOK, StartGroup, Waiting, PhaseOf
      <3>3. QED
        BY <3>1, <3>2 DEF Schedule!ScheduleNext, PhaseOf
    <2>2. CASE Undefined(NextGroup) # {}
      BY <1>4, <2>2, <1>g DEF StartGroup, Abandon, Schedule!ScheduleNext
    <2>3. QED
      BY <2>1, <2>2
  <1>5. CASE \E i \in DOMAIN batch, value \in BOOLEAN : ToolEnds(i, value)
    <2> PICK i \in DOMAIN batch, value \in BOOLEAN : ToolEnds(i, value)
      BY <1>5
    <2>1. Schedule!Finish(i)
      BY ScheduleFinishes
    <2>2. i \in DOMAIN PhaseOf(batch, started, ended)
      BY DEF PhaseOf
    <2>3. QED
      BY <2>1, <2>2 DEF Schedule!ScheduleNext, PhaseOf
  <1>6. CASE \E i \in DOMAIN batch : ToolRejects(i) \/ ToolAborts(i)
    BY <1>6, <1>g DEF ToolRejects, ToolAborts, Abandon, Schedule!ScheduleNext
  <1>7. QED
    BY <1>1, <1>2, <1>3, <1>4, <1>5, <1>6 DEF Next, Proceed

\* The groups that executeToolCallsWithDefinitions forms with hasResourceConflict
\* run no call beside an earlier one it interferes with, nor before it, for all
\* calls and all sizes of a batch.
THEOREM InferenceImplementsSchedule == Spec => ImplementsSchedule
  <1>1. Spec => []Shape
    BY ShapeInit, ShapeStep, PTL DEF Spec
  <1>2. QED
    BY <1>1, ScheduleInits, ScheduleStep, PTL
       DEF Spec, ImplementsSchedule, Schedule!ScheduleSpec

-------------------------------------------------------------------------------
(* Merging keeps conflicts *)

LEMMA MergeType ==
  ASSUME NEW s \in Access, NEW t \in Access
  PROVE  Merge(t, s) \in Access
  <1>1. MergePaths(t, s) \in SUBSET Path
    BY DEF MergePaths, Access
  <1>2. QED
    BY <1>1 DEF Merge, Access

\* A call conflicts with everything that one of its arguments conflicts with:
\* mergeResources forgets no file, commit or blueprint.  Of two sandbox
\* operations it keeps the last, so that an exclusive one must not be followed
\* by a read.
THEOREM MergeKeepsConflicts ==
  ASSUME NEW s \in Access, NEW t \in Access, NEW c \in Access,
         t.sandbox \in Exclusive => s.sandbox # "read",
         Conflict(t, c) \/ Conflict(s, c)
  PROVE  Conflict(Merge(t, s), c)
  <1> DEFINE m == Merge(t, s)
  <1>1. /\ m.files = IF "write" \in {t.files, s.files} THEN "write"
                     ELSE IF s.files = "none" THEN t.files ELSE s.files
        /\ m.paths = MergePaths(t, s)
        /\ m.sandbox = IF s.sandbox = "none" THEN t.sandbox ELSE s.sandbox
        /\ m.blueprint = (t.blueprint \/ s.blueprint)
        /\ m.gitCommit = (t.gitCommit \/ s.gitCommit)
    BY DEF Merge
  <1> HIDE DEF m
  <1>2. /\ s.files \in {"none", "read", "write"} /\ t.files \in {"none", "read", "write"}
        /\ c.files \in {"none", "read", "write"}
        /\ s.sandbox \in {"none", "read", "exec", "analysis", "deploy"}
        /\ t.sandbox \in {"none", "read", "exec", "analysis", "deploy"}
        /\ c.sandbox \in {"none", "read", "exec", "analysis", "deploy"}
        /\ m.blueprint \in BOOLEAN /\ m.gitCommit \in BOOLEAN
    BY <1>1 DEF Access
  <1>3. ASSUME NEW a \in {s, t}, "none" \notin {a.files, c.files},
               "write" \in {a.files, c.files}, PathsOverlap(a.paths, c.paths)
        PROVE  /\ "none" \notin {m.files, c.files}
               /\ "write" \in {m.files, c.files}
               /\ PathsOverlap(m.paths, c.paths)
    <2>1. "none" \notin {m.files, c.files} /\ "write" \in {m.files, c.files}
      BY <1>1, <1>2, <1>3
    <2>2. PathsOverlap(m.paths, c.paths)
      BY <1>1, <1>2, <1>3 DEF MergePaths, PathsOverlap
    <2>3. QED
      BY <2>1, <2>2
  <1>4. ASSUME NEW a \in {s, t}, "none" \notin {a.sandbox, c.sandbox},
               {a.sandbox, c.sandbox} \cap Exclusive # {}
        PROVE  /\ "none" \notin {m.sandbox, c.sandbox}
               /\ {m.sandbox, c.sandbox} \cap Exclusive # {}
    BY <1>1, <1>2, <1>4 DEF Exclusive
  <1>5. ASSUME NEW a \in {s, t}
        PROVE  /\ a.blueprint => m.blueprint
               /\ a.gitCommit => m.gitCommit
               /\ a.files = "write" => m.files = "write"
    BY <1>1
  <1>6. PICK a \in {s, t} : Conflict(a, c)
    OBVIOUS
  <1>7. QED
    BY <1>3, <1>4, <1>5, <1>6 DEF Conflict, m

-------------------------------------------------------------------------------
(* The plan of the groups *)

\* While calls wait, one of them has all that it waits for among those started.
NoCircle == Waiting # {} => \E i \in Waiting : Deps(i) \subseteq started

\* buildExecutionPlan never falls back to sequential execution: a call waits for
\* calls before it only, so that the first one waiting can always start.
THEOREM InferencePlanHasNoCircle == Spec => []NoCircle
  <1>1. ASSUME Shape, Waiting # {}
        PROVE  \E i \in Waiting : Deps(i) \subseteq started
    <2>1. /\ NextGroup \subseteq Waiting
          /\ \A i \in NextGroup : Deps(i) \subseteq started
      BY <1>1, GroupFacts DEF Shape, TypeOK
    <2>2. NextGroup # {}
      BY DEF NextGroup
    <2>3. QED
      BY <2>1, <2>2
  <1>2. Spec => []Shape
    BY ShapeInit, ShapeStep, PTL DEF Spec
  <1>3. Shape => NoCircle
    BY <1>1 DEF NoCircle
  <1>4. QED
    BY <1>2, <1>3, PTL

-------------------------------------------------------------------------------
(* The inference gets closer to its end *)

\* How far a stage is from the end of its turn.
ToGo == [backoff |-> 5, prepare |-> 4, llm |-> 3, received |-> 2, tools |-> 1,
         done |-> 0]

\* A step of the tools: one more has started, or one more has ended.
ToolsProgress ==
  /\ batch' = batch
  /\ \/ started \subseteq started' /\ started # started' /\ ended' = ended
     \/ ended \subseteq ended' /\ ended # ended' /\ started' = started

\* The measure of the step, in lexicographic order: attempts, then depth, then
\* the stage, then the tools.  TypeOK bounds each of them.
Closer ==
  \/ req'.attempt > req.attempt
  \/ /\ req'.attempt = req.attempt
     /\ \/ req'.depth > req.depth
        \/ /\ req'.depth = req.depth
           /\ \/ ToGo[req'.stage] < ToGo[req.stage]
              \/ req' = req /\ ToolsProgress

AlwaysCloser == [][Closer \/ UNCHANGED <<req, toolVars>>]_vars

\* A new attempt, or the end of the last one.
LEMMA RetryCloser ==
  ASSUME req \in Request, req.stage # "done"
  PROVE  req' = Retry(req) => Closer
  <1>1. CASE req.attempt + 1 < RetryLimit
    <2>1. Retry(req).attempt = req.attempt + 1
      BY <1>1 DEF Retry, NewRequest
    <2>2. req.attempt \in Int
      BY InferenceAssumption DEF Request
    <2>3. QED
      BY <2>1, <2>2 DEF Closer
  <1>2. CASE ~(req.attempt + 1 < RetryLimit)
    BY <1>2 DEF Retry, Done, Closer, ToGo, Request
  <1>3. QED
    BY <1>1, <1>2

LEMMA DoneCloser ==
  ASSUME req \in Request, req.stage # "done", NEW outcome, req' = Done(req, outcome)
  PROVE  Closer
  BY DEF Done, Closer, ToGo, Request

LEMMA CloserStep ==
  ASSUME Shape, [Next]_vars
  PROVE  Closer \/ UNCHANGED <<req, toolVars>>
  <1> USE DEF toolVars
  <1>t. req \in Request /\ batch \in Batches /\ ended \subseteq DOMAIN batch
        /\ started \subseteq DOMAIN batch
        /\ (req.stage = "tools" => req.depth < MaxDepth)
        /\ (Running # {} => req.stage = "tools")
        /\ req.depth \in Nat /\ req.attempt \in Nat
    BY InferenceAssumption DEF Shape, TypeOK, Batched, DepthLeft, Running, Request
  <1>1. CASE RateLimited
    BY <1>1, <1>t, DoneCloser DEF RateLimited
  <1>2. CASE PrepareFails \/ LlmFails \/ TextRepeats \/ SaveFails
    BY <1>2, <1>t, RetryCloser DEF PrepareFails, LlmFails, TextRepeats, SaveFails
  <1>3. CASE DepthReached
    BY <1>3, <1>t, DoneCloser, RetryCloser DEF DepthReached
  <1>4. CASE Send
    <2>1. CASE aborted
      BY <1>4, <2>1, <1>t, DoneCloser DEF Send
    <2>2. CASE ~aborted
      BY <1>4, <2>2, <1>t DEF Send, Request, Closer, ToGo
    <2>3. QED
      BY <2>1, <2>2
  <1>5. CASE LlmAborted
    BY <1>5, <1>t, DoneCloser DEF LlmAborted
  <1>6. CASE LlmResponds
    BY <1>6, <1>t DEF LlmResponds, Request, Closer, ToGo
  <1>7. CASE Answer
    BY <1>7, <1>t, DoneCloser DEF Answer
  <1>8. CASE AnswerObject
    BY <1>8, <1>t, DoneCloser, RetryCloser DEF AnswerObject
  <1>9. CASE ExecuteTools
    BY <1>9, <1>t DEF ExecuteTools, Request, Closer, ToGo
  <1>10. CASE StartGroup
    <2>1. CASE Undefined(NextGroup) = {}
      <3>1. NextGroup \subseteq Waiting /\ NextGroup # {}
        BY <1>10, <1>t, GroupFacts DEF StartGroup, NextGroup
      <3>2. started' = started \cup NextGroup /\ UNCHANGED <<req, batch, ended>>
        BY <1>10, <2>1 DEF StartGroup
      <3>3. started \subseteq started' /\ started # started'
        BY <3>1, <3>2 DEF Waiting
      <3>4. QED
        BY <3>2, <3>3 DEF Closer, ToolsProgress
    <2>2. CASE Undefined(NextGroup) # {}
      BY <1>10, <1>t, <2>2, DoneCloser DEF StartGroup, Abandon
    <2>3. QED
      BY <2>1, <2>2
  <1>11. CASE \E i \in DOMAIN batch, value \in BOOLEAN : ToolEnds(i, value)
    BY <1>11 DEF ToolEnds, Running, Closer, ToolsProgress
  <1>12. CASE \E i \in DOMAIN batch : ToolRejects(i)
    BY <1>12, <1>t, DoneCloser DEF ToolRejects, Abandon
  <1>13. CASE \E i \in DOMAIN batch : ToolAborts(i)
    <2>1. /\ req' = [Done(req, "text") EXCEPT !.asked = Done(req, "text").asked + Len(batch)]
          /\ req.stage = "tools"
      BY <1>13, <1>t DEF ToolAborts
    <2>2. /\ req'.stage = "done" /\ req'.attempt = req.attempt
          /\ req'.depth = req.depth
      BY <2>1, <1>t DEF Done, Request
    <2>3. QED
      BY <2>1, <2>2 DEF Closer, ToGo
  <1>14. CASE ToolsDone
    <2>1. PICK n, k :
            \/ req' = Done([req EXCEPT !.asked = n, !.answered = k], "text")
            \/ req' = [[req EXCEPT !.asked = n, !.answered = k]
                         EXCEPT !.stage = "prepare", !.depth = req.depth + 1]
      BY <1>14, <1>t DEF ToolsDone, Request
    <2>2. req.stage = "tools"
      BY <1>14 DEF ToolsDone
    <2>3. CASE req' = Done([req EXCEPT !.asked = n, !.answered = k], "text")
      BY <2>2, <2>3, <1>t DEF Done, Request, Closer, ToGo
    <2>4. CASE req' = [[req EXCEPT !.asked = n, !.answered = k]
                         EXCEPT !.stage = "prepare", !.depth = req.depth + 1]
      BY <2>4, <1>t DEF Request, Closer
    <2>5. QED
      BY <2>1, <2>3, <2>4
  <1>15. CASE OrphanEnds \/ Abort
    BY <1>15 DEF OrphanEnds, Abort
  <1>16. CASE BackoffDone
    BY <1>16, <1>t DEF BackoffDone, Request, Closer, ToGo
  <1>17. CASE UNCHANGED vars
    BY <1>17 DEF vars
  <1>18. QED
    BY <1>1, <1>2, <1>3, <1>4, <1>5, <1>6, <1>7, <1>8, <1>9, <1>10, <1>11, <1>12,
       <1>13, <1>14, <1>15, <1>16, <1>17
       DEF Next, Proceed

\* Whatever the LLM answers, and however often attempts fail and tools lead to
\* further requests, every step takes the inference closer to its end: the
\* safety half of InferenceEnds, for all limits.
THEOREM InferenceAlwaysCloser == Spec => AlwaysCloser
  <1>1. Spec => []Shape
    BY ShapeInit, ShapeStep, PTL DEF Spec
  <1>2. QED
    BY <1>1, CloserStep, PTL DEF Spec, AlwaysCloser
===============================================================================
