----------------------------- MODULE MCStreams -----------------------------
(***************************************************************************)
(* A request through the filter, and a response through a tap, for TLC.    *)
(* They share nothing, so each behaviour is one of one of them; the other  *)
(* stays as it began.                                                      *)
(***************************************************************************)
EXTENDS MCFilter, StreamTap

VARIABLE part

allVars == <<part, vars, tapVars>>

\* A message in events, one whose first line is cut off by the tail, a stream of
\* data lines, a short one, one that ends in the middle of a line.
MCBodies ==
    {<<"E", "s", "n", "D", "i", "n", "D", "x", "n", "D", "x", "n", "E", "t", "n", "D", "o", "n">>,
     <<"D", "x", "n", "D", "x", "x", "n", "D", "x", "n", "D", "u", "n">>,
     <<"D", "u", "n">>, <<"D", "x", "n", "D", "u">>, <<>>}

MCInit ==
    /\ part \in {"filter", "tap"}
    /\ Init /\ TapInit
    /\ part = "filter" => stream = <<>>
    /\ part = "tap" => mode = "none"

MCNext ==
    \/ part = "filter" /\ Next /\ UNCHANGED <<part, tapVars>>
    \/ part = "tap" /\ TapNext /\ UNCHANGED <<part, vars>>

\* The fairness of Filter's FairSpec; a tap needs none.
MCSpec ==
    /\ MCInit /\ [][MCNext]_allVars
    /\ part = "filter" => /\ WF_vars(ClientSends)
                          /\ WF_vars(\E c \in inflight : OnHttpCalloutDone(c))
                          /\ WF_vars(GoRuns)
=============================================================================
