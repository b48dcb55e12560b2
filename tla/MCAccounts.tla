---- MODULE MCAccounts ----
(***************************************************************************)
(* Instances of Accounts for TLC: requests are interchangeable. The state  *)
(* space is explored in three parts, chosen in the initial state: the      *)
(* console, reset links, and invitations. They meet in the accounts.       *)
(***************************************************************************)
EXTENDS Accounts, TLC

VARIABLE part

MCInit == Init /\ part \in {"console", "resets", "invitations"}

MCNext ==
  /\ UNCHANGED part
  /\ \/ Entry
     \/ part = "console" /\ (Passwords \/ Console)
     \/ part = "resets" /\ (Passwords \/ Elsewhere \/ Resets)
     \/ part = "invitations" /\ (Elsewhere \/ Invitations)

MCSpec == MCInit /\ [][MCNext]_<<vars, part>>

Symmetric == Permutations(Requests) \union Permutations(Links)
====
