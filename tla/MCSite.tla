---- MODULE MCSite ----
(***************************************************************************)
(* Instances of Site for TLC.  The state space is explored in parts, chosen *)
(* in the initial state: the ladder, and members on one that changes; authors; *)
(* blocks; sections, and two administrators saving them at once.  Authors  *)
(* have two items.  Where the ladder stands still it has two tiers;        *)
(* sections begin with items the other parts make.  Forum, which shares the *)
(* ladder only, is explored on the two tiers, and the cached feed beside   *)
(* an item and a section that one administrator at a time opens and closes. *)
(***************************************************************************)
EXTENDS Feeds, Forum, TLC

VARIABLE part

Second == CHOOSE t \in Tiers \ {Free} : TRUE    \* in Init only: requests and tiers are symmetric
Upper == {t \in Ladder : tier[t].rank = 2}
OneAtATime == {r \in Requests : \A q \in Requests \ {r} : editing[q].at = "idle" /\ climbing[q].at = "idle"}

TwoTiers == [t \in Tiers |->
  IF t = Free THEN [there |-> TRUE, id |-> 1, rank |-> 1, active |-> TRUE]
  ELSE IF t = Second THEN [there |-> TRUE, id |-> 2, rank |-> 2, active |-> TRUE] ELSE NoRow]

Made(type, slug, parent, gate) ==
  [NoContent EXCEPT !.there = TRUE, !.type = type, !.slug = slug, !.parent = parent, !.gate = gate,
                    !.status = "published", !.stamp = 1]

\* An event or a page, and a lesson in it.
Items0 == {[i \in Items |-> IF i = 1 THEN Made(t, "a", NoItem, g)
                            ELSE IF i = 2 THEN Made("lesson", "b", 1, h) ELSE NoContent] :
             t \in {"event", "page"}, g \in {"public", Second}, h \in {"public", "members"}}

Events(n) == [i \in Items |-> IF i \in 1..n THEN Made("event", IF i = 1 THEN "a" ELSE "b", NoItem, "public")
                              ELSE NoContent]

MCInit ==
  /\ part \in {"ladder", "members", "authors", "blocks", "sections", "saves", "feeds", "forum"}
  /\ IF part \in {"ladder", "members"} THEN TiersInit
     ELSE /\ tier = TwoTiers /\ held = [u \in Members |-> NoTier]
          /\ climbing = [r \in Requests |-> Still]
  /\ IF part \in {"ladder", "members", "authors"} THEN ContentInit
     ELSE /\ setting = Away.blob /\ editing = [r \in Requests |-> Away] /\ clock = 1
          /\ item \in CASE part = "sections" -> Items0
                        [] part = "blocks" -> {Events(1), Events(2)}
                        [] OTHER -> {Events(1)}
          /\ numbered = HighestId
  /\ ForumInit /\ FeedsInit

MCNext ==
  /\ UNCHANGED part
  /\ IF part = "forum" THEN Grouping({"public"} \union Upper) \/ Posting ELSE UNCHANGED forum
  /\ \/ part = "ladder" /\ Climb(Requests) /\ UNCHANGED works
     \/ part = "members" /\ (Climb(OneAtATime) \/ Stand) /\ UNCHANGED works
     \/ part = "forum" /\ UNCHANGED <<ladder, works>>
     \/ /\ UNCHANGED ladder
        /\ \/ /\ part = "authors"
              /\ Authoring(Requests, {"page", "event"}, {"a", "events"}, {"public"})
              /\ item'[3] = NoContent
           \/ part = "blocks" /\ Blocks(Requests, {"public"})
           \/ part = "sections" /\ Sections(OneAtATime, Types, {"public", "members"} \union Upper, {"unset", "no"})
           \/ /\ part = "feeds"
              /\ \/ Sections(OneAtATime, {"event"}, {"public", "members"}, {"unset", "no"})
                 \/ Authoring(OneAtATime, {}, {"a"}, {"public", "members"})
                 \/ UNCHANGED works
           \/ part = "saves" /\ Sections(Requests, {"event"}, {"public", "members"}, {"unset", "yes"})
  /\ IF part = "feeds" THEN Watch \/ Syndicating ELSE UNCHANGED syndication

MCSpec == MCInit /\ [][MCNext]_<<ladder, works, forum, syndication, part>>

Symmetric == Permutations(Requests) \union Permutations(Tiers \ {Free})
====
