------------------------------ MODULE Resources ------------------------------
(***************************************************************************)
(* worker/agents/tools: what a tool call declares to access, how the       *)
(* accesses of its arguments are merged, and the rule that says which      *)
(* calls of one LLM response may run beside each other.                    *)
(***************************************************************************)
EXTENDS Naturals, Sequences, SequencesExt

CONSTANT Path    \* files of the project

\* A declared access.  "none" stands for a missing field; an empty set of paths
\* stands for all files, the ones the call creates too.
Access == [files     : {"none", "read", "write"},
           paths     : SUBSET Path,
           sandbox   : {"none", "read", "exec", "analysis", "deploy"},
           blueprint : BOOLEAN,
           gitCommit : BOOLEAN]

NoAccess == [files |-> "none", paths |-> {}, sandbox |-> "none",
             blueprint |-> FALSE, gitCommit |-> FALSE]

-------------------------------------------------------------------------------
(* Merging *)

\* Paths of two file accesses together.
MergePaths(t, s) ==
  CASE s.files = "none" -> t.paths
    [] t.files = "none" -> s.paths
    [] {} \in {t.paths, s.paths} -> {}
    [] OTHER -> t.paths \cup s.paths

\* mergeResources(target, source): the last sandbox operation wins.
Merge(t, s) ==
  [files     |-> IF "write" \in {t.files, s.files} THEN "write"
                 ELSE IF s.files = "none" THEN t.files ELSE s.files,
   paths     |-> MergePaths(t, s),
   sandbox   |-> IF s.sandbox = "none" THEN t.sandbox ELSE s.sandbox,
   blueprint |-> t.blueprint \/ s.blueprint,
   gitCommit |-> t.gitCommit \/ s.gitCommit]

\* What a call declares whose arguments declare args.
AccessOf(args) == FoldLeft(Merge, NoAccess, args)

-------------------------------------------------------------------------------
(* The rule of the code *)

PathsOverlap(P, Q) == P = {} \/ Q = {} \/ P \cap Q # {}

Exclusive == {"exec", "analysis", "deploy"}

\* Mutant: a commit is forgotten.
ConflictNoCommit(a, b) ==
  \/ /\ "none" \notin {a.files, b.files}
     /\ "write" \in {a.files, b.files}
     /\ PathsOverlap(a.paths, b.paths)
  \/ /\ "none" \notin {a.sandbox, b.sandbox}
     /\ {a.sandbox, b.sandbox} \cap Exclusive # {}
  \/ a.blueprint /\ b.blueprint

\* hasResourceConflict
Conflict(a, b) ==
  \/ /\ "none" \notin {a.files, b.files}
     /\ "write" \in {a.files, b.files}
     /\ PathsOverlap(a.paths, b.paths)
  \/ /\ "none" \notin {a.sandbox, b.sandbox}
     /\ {a.sandbox, b.sandbox} \cap Exclusive # {}
  \/ a.blueprint /\ b.blueprint
  \/ a.gitCommit /\ b.files = "write"
  \/ b.gitCommit /\ a.files = "write"

-------------------------------------------------------------------------------
(* What the rule is for: one call changes what the other one uses *)

AllIfEmpty(paths) == IF paths = {} THEN Path ELSE paths

FilesWritten(a) == IF a.files = "write" THEN AllIfEmpty(a.paths) ELSE {}

\* A commit reads every file.
FilesRead(a) ==
  (IF a.files = "read" THEN AllIfEmpty(a.paths) ELSE {})
    \cup (IF a.gitCommit THEN Path ELSE {})

Interferes(a, b) ==
  \/ FilesWritten(a) \cap (FilesWritten(b) \cup FilesRead(b)) # {}
  \/ FilesWritten(b) \cap FilesRead(a) # {}
  \/ /\ "none" \notin {a.sandbox, b.sandbox}
     /\ {a.sandbox, b.sandbox} # {"read"}
  \/ a.blueprint /\ b.blueprint
===============================================================================
