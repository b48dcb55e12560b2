---- MODULE MCThread ----
(***************************************************************************)
(* Instances of Thread for TLC: requests are interchangeable. The state    *)
(* space is explored in parts, chosen in the initial state: replies only,  *)
(* as many as an answer to an answer takes; threads of an item and two     *)
(* replies; switches, marks and one reply.                                 *)
(***************************************************************************)
EXTENDS Thread, TLC

VARIABLE part

MCInit == Init /\ part \in {"replies", "threads", "switches"}

UpTo(n) == \A x \in Replies : x > n => reply'[x].is = "none"

MCNext ==
  /\ UNCHANGED part
  /\ \/ Posting
     \/ \E i \in Items : part = "threads" /\ DeleteItem(i)
     \/ \E r \in Requests :
          \/ Replying(r)
          \/ Die(r)
          \/ part = "threads" /\ Opening(r)
          \/ part = "switches" /\ (Moderating(r) \/ Marking(r))
  /\ UpTo(CASE part = "replies" -> 3 [] part = "threads" -> 2 [] OTHER -> 1)

MCSpec == MCInit /\ [][MCNext]_<<vars, part>>

Symmetric == Permutations(Requests)
====
