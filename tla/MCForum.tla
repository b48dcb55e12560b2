---- MODULE MCForum ----
(* An instance of Forum for TLC, with the ladder it shares moving under it. *)
EXTENDS Forum, TLC

Symmetric == Permutations(Threads)
====
