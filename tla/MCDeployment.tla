----------------------------- MODULE MCDeployment -----------------------------
(* Instances of Deployment for TLC. *)
EXTENDS Deployment, TLC

\* Callers, loops and jobs are interchangeable; session and instance ids are
\* not, because fresh ones are picked with CHOOSE.
Slots == Permutations(Callers) \cup Permutations(Loops) \cup Permutations(Jobs)

\* What of an id the actions and the properties can tell apart: whether it is
\* there, and whether it is the current one.  A past id never becomes current.
Rank(id, current) ==
  CASE id = None -> "none" [] id = current -> "current" [] OTHER -> "past"

SessionRank(s) == Rank(s, mgr.session)
InstanceRank(i) == Rank(i, mgr.instance)

UpToIds ==
  <<promise, role, waits, loop, deployed, disturbed,
    mgr.instance = None, SessionRank(mgr.home), SessionRank(mgr.client),
    InstanceRank(mgr.interval),
    [j \in Jobs |-> <<job[j].stage, job[j].loop, job[j].fresh, job[j].late,
                      SessionRank(job[j].client), InstanceRank(job[j].inst)>>]>>
===============================================================================
