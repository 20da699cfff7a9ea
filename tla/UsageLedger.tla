---------------------------- MODULE UsageLedger ----------------------------
(***************************************************************************)
(* What metering promises, with no stream, no worker and no batch: an      *)
(* event that was spent is billed at most once, in one step with any       *)
(* others, never before it was spent and never to a deleted paddock.       *)
(* Whether it is billed at all is not promised.                            *)
(***************************************************************************)
EXTENDS Naturals

CONSTANTS Events, Paddocks, PaddockOf

VARIABLES
    spent,     \* events whose request was admitted
    billed,    \* [Events -> how many times the event is in its rollup row]
    open       \* paddocks that exist

vars == <<spent, billed, open>>

Init ==
    /\ spent = {}
    /\ billed = [e \in Events |-> 0]
    /\ open = Paddocks

Spend(e) ==
    /\ e \notin spent
    /\ spent' = spent \cup {e}
    /\ UNCHANGED <<billed, open>>

Bill(batch) ==
    /\ \A e \in batch : e \in spent /\ billed[e] = 0 /\ PaddockOf[e] \in open
    /\ billed' = [e \in Events |-> IF e \in batch THEN 1 ELSE billed[e]]
    /\ UNCHANGED <<spent, open>>

\* The rows of a deleted paddock go with it.
Close(p) ==
    /\ p \in open
    /\ open' = open \ {p}
    /\ billed' = [e \in Events |-> IF PaddockOf[e] = p THEN 0 ELSE billed[e]]
    /\ UNCHANGED spent

Next ==
    \/ \E e \in Events : Spend(e)
    \/ \E batch \in SUBSET Events : Bill(batch)
    \/ \E p \in Paddocks : Close(p)

Spec == Init /\ [][Next]_vars
=============================================================================
