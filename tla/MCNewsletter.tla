---- MODULE MCNewsletter ----
(* Instances of Newsletter for TLC: symmetry of rows and of workers.        *)
EXTENDS Newsletter, TLC

SymmetricRows == Permutations(Subs) \union Permutations(JobIds)

Symmetric == SymmetricRows \union Permutations(Workers)
====
