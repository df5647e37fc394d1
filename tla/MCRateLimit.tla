----------------------------- MODULE MCRateLimit -----------------------------
(* RateLimit with a main and a daily window. *)
EXTENDS RateLimit

MCWindows == {[limit |-> 3, length |-> 3], [limit |-> 4, length |-> 6]}

===============================================================================
