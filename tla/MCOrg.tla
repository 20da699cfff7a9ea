------------------------------- MODULE MCOrg -------------------------------
(* Small instances of Org for TLC. *)
EXTENDS Org, TLC

CONSTANTS ann, bob, cat, r1, r2, r3, a1, a2

RequestSymmetry == Permutations(Requests) \cup Permutations(Accepts)
=============================================================================
