------------------------------ MODULE MCFilter ------------------------------
(* The request filter, for TLC: what a handler may start in a callback that  *)
(* more of the request follows.                                             *)
EXTENDS Filter

\* Callouts that stay pending without a body handler; with one, those that are over
\* when the callback returns.
MCOpenAsync ==
  [m \in Modes |-> IF m = "none" THEN {"none", "refused", "early", "pending"}
                   ELSE {"none", "refused", "early"}]

\* Callouts that stay pending, also with a body handler.
PendingAsync == [m \in Modes |-> {"none", "pending"}]

\* Goroutines.
GoAsync == [m \in Modes |-> {"none", "go"}]
=============================================================================
