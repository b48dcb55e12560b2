---- MODULE MCOwnership ----
(* Instances of Ownership for TLC: symmetry of rows and of requests.        *)
EXTENDS Ownership, TLC

Symmetric == Permutations(Members) \union Permutations(Requests)
====
