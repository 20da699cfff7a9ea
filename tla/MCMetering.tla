----------------------------- MODULE MCMetering -----------------------------
(* Small instances of Metering for TLC. *)
EXTENDS Metering, TLC

CONSTANTS e1, e2, e3, p1, p2, w1, w2

ThreeEvents == (e1 :> p1) @@ (e2 :> p1) @@ (e3 :> p2)
TwoEvents == (e1 :> p1) @@ (e2 :> p1)
WorkerSymmetry == Permutations(Workers)
=============================================================================
