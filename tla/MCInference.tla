----------------------------- MODULE MCInference -----------------------------
(* An instance of Inference for TLC: calls as the tools of the agent declare  *)
(* them, one of each sort the conflict rule tells apart.                       *)
EXTENDS Inference

CONSTANTS p1, p2

Reads(paths)  == [NoAccess EXCEPT !.files = "read", !.paths = paths]
Writes(paths) == [NoAccess EXCEPT !.files = "write", !.paths = paths]
Uses(op)      == [NoAccess EXCEPT !.sandbox = op]

Of(args) == [access |-> AccessOf(args), defined |-> TRUE, completes |-> FALSE]

MCPath == {p1, p2}

MCCalls ==
  {Of(<<Writes({p1})>>),                              \* regenerate_file
   Of(<<Reads({p1})>>),                               \* read_files
   Of(<<Writes({p1}), Writes({p2})>>),                \* generate_files
   Of(<<[NoAccess EXCEPT !.gitCommit = TRUE]>>),      \* git
   Of(<<Uses("deploy"), Reads({})>>),                 \* deploy_preview
   Of(<<Uses("read"), Uses("read")>>),                \* get_logs
   [Of(<<>>) EXCEPT !.defined = FALSE],
   [Of(<<>>) EXCEPT !.completes = TRUE]}
===============================================================================
