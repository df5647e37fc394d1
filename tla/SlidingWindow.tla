---------------------------- MODULE SlidingWindow ----------------------------
(***************************************************************************)
(* What a rate limiter with rolling windows promises: a request is         *)
(* accepted only when every window that ends now still has credit, and     *)
(* rejected only when some window, seen Slack longer, has none.            *)
(***************************************************************************)
EXTENDS Integers, Functions

CONSTANTS
  MaxTime,  \* the time runs from 0 to here (bound)
  Costs,    \* what a request may cost, in credits
  Windows,  \* the limits in force: [limit, length]
  Slack     \* how much longer than its length a window may be seen

VARIABLES
  now,      \* the clock
  spent,    \* the credits accepted at each time
  answer    \* to the last request: "accepted", "rejected", or "none" since

Times == 0..MaxTime

Spent(length) == FoldFunctionOnSet(+, 0, spent, {t \in Times : now - length <= t})

WindowInit ==
  /\ now = 0
  /\ spent = [t \in Times |-> 0]
  /\ answer = "none"

Tick ==
  /\ now < MaxTime
  /\ now' = now + 1
  /\ answer' = "none"
  /\ spent' = spent

Admit(cost) ==
  /\ \A w \in Windows : Spent(w.length) < w.limit
  /\ spent' = [spent EXCEPT ![now] = @ + cost]
  /\ answer' = "accepted"
  /\ now' = now

Refuse ==
  /\ \E w \in Windows : Spent(w.length + Slack) >= w.limit
  /\ answer' = "rejected"
  /\ UNCHANGED <<now, spent>>

Forget ==
  /\ spent' = [t \in Times |-> 0]
  /\ answer' = "none"
  /\ now' = now

WindowNext == Tick \/ (\E cost \in Costs : Admit(cost)) \/ Refuse \/ Forget

WindowSpec == WindowInit /\ [][WindowNext]_<<now, spent, answer>>

===============================================================================
