---- MODULE MCJobQueue ----
(* Instances of JobQueue for TLC: names and symmetry.                       *)
EXTENDS JobQueue, TLC

Symmetric ==
  Permutations(TaskIds) \union Permutations(CleanupIds) \union Permutations(CheckIds)

====
