------------------------------ MODULE KeyBudget ------------------------------
(***************************************************************************)
(* What the Bungie client promises about one API key: requests leave at    *)
(* least Interval apart, however many callers ask at once, and none leaves *)
(* while the key is throttled, no matter which request was told so.  Time  *)
(* counts down: rest is what remains of the last request's slot, quiet     *)
(* what remains of the longest throttle.                                   *)
(***************************************************************************)
EXTENDS Integers

CONSTANTS
    Callers,    \* whoever may have a request under way at the same time
    Interval    \* the slot of one request

VARIABLES waiting, flying, rest, quiet

budgetVars == <<waiting, flying, rest, quiet>>

Init == waiting = {} /\ flying = {} /\ rest = 0 /\ quiet = 0

Ask(c) ==
    /\ c \notin waiting \cup flying
    /\ waiting' = waiting \cup {c}
    /\ UNCHANGED <<flying, rest, quiet>>

Leave(c) ==
    /\ c \in waiting
    /\ rest = 0 /\ quiet = 0
    /\ waiting' = waiting \ {c}
    /\ flying' = flying \cup {c}
    /\ rest' = Interval
    /\ UNCHANGED quiet

\* An answer that throttles the key can only prolong what is in force.
Settle(c) ==
    /\ c \in flying
    /\ flying' = flying \ {c}
    /\ quiet' \in Nat /\ quiet' >= quiet
    /\ UNCHANGED <<waiting, rest>>

Pass ==
    /\ rest' = IF rest > 0 THEN rest - 1 ELSE 0
    /\ quiet' = IF quiet > 0 THEN quiet - 1 ELSE 0
    /\ UNCHANGED <<waiting, flying>>

Next == (\E c \in Callers : Ask(c) \/ Leave(c) \/ Settle(c)) \/ Pass

Spec == Init /\ [][Next]_budgetVars
=============================================================================
