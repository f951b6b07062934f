------------------------------ MODULE MCFetch -------------------------------
(* Two regions; a secret that is valid, has one field less, or a bad field. *)
EXTENDS Fetch, TLC

CONSTANTS both, one, spoilt   \* versions of the secret

GoodIn == [v \in Versions |-> IF v = both THEN {1, 2} ELSE {1}]
BadIn  == [v \in Versions |-> IF v = spoilt THEN {2} ELSE {}]

Symmetric == Permutations(Fetches)
=============================================================================
