------------------------------ MODULE MCRetain ------------------------------
(* Instance of Retain for TLC: two verdicts of one author that hit the     *)
(* same rule, taken up by two handlers.                                    *)
EXTENDS Retain, TLC

CONSTANTS e1, e2, v1, v2, r, p1, u, h1, h2

MCOwn == [e \in Event |-> IF e = e1 THEN {v1} ELSE {v2}]
MCHits == [e \in Event |-> {r}]
MCScopesOf == [e \in Event |-> IF e = e1 THEN {p1, u} ELSE {u}]

Symmetry == Permutations(Handler)
=============================================================================
