---------------------------- MODULE ResolveOnce ----------------------------
(***************************************************************************)
(* What a promise owes its users, with no locks and no lists: one value,   *)
(* chosen once and never changed, and for each subscriber one outcome, the *)
(* value or the cancellation, whichever is decided first.                  *)
(***************************************************************************)
CONSTANTS
    Resolvers,   \* the goroutines that offer a value (each offers itself)
    Callbacks,   \* the subscribers
    NoValue

VARIABLES
    value,       \* the published value, NoValue before it is chosen
    sub          \* the outcome of each subscriber

vars == <<value, sub>>

Init ==
    /\ value = NoValue
    /\ sub = [c \in Callbacks |-> "absent"]

Publish(r) ==
    /\ value = NoValue
    /\ value' = r
    /\ UNCHANGED sub

Subscribe(c) ==
    /\ sub[c] = "absent"
    /\ sub' = [sub EXCEPT ![c] = "waiting"]
    /\ UNCHANGED value

Deliver(c) ==
    /\ value # NoValue
    /\ sub[c] = "waiting"
    /\ sub' = [sub EXCEPT ![c] = "delivered"]
    /\ UNCHANGED value

Withdraw(c) ==
    /\ sub[c] = "waiting"
    /\ sub' = [sub EXCEPT ![c] = "withdrawn"]
    /\ UNCHANGED value

Next ==
    \/ \E r \in Resolvers : Publish(r)
    \/ \E c \in Callbacks : Subscribe(c) \/ Deliver(c) \/ Withdraw(c)

Safety == Init /\ [][Next]_vars

Spec == Safety /\ \A c \in Callbacks : WF_vars(Deliver(c))
============================================================================
