--------------------------- MODULE MCConfigCache ---------------------------
(* Small instances of ConfigCache for TLC. *)
EXTENDS ConfigCache, TLC

CONSTANTS k1, a, b, r1, r2, i1

\* Keys are granted paddock a; b is created later, or holds another slug.
GrantA == [k \in Keys |-> {a}]
Unexpiring == [k \in Keys |-> MaxTime + 1]
ExpiringLast == [k \in Keys |-> MaxTime - 1]
OneInstance == [r \in Requests |-> i1]
=============================================================================
