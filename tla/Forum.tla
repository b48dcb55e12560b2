------------------------------- MODULE Forum --------------------------------
(***************************************************************************)
(* The discussion groups of one organization and every place that shows a  *)
(* post of theirs (DiscussionGroup and Post of app/models/discussion.py,   *)
(* controllers/discussions.py, the group routes of manage.py, the home of  *)
(* orgs.py, the helpers of app/__init__.py).  Visitors, gates and the      *)
(* ladder are those of Tiers; what two requests do to one post at once is  *)
(* in Thread.                                                              *)
(***************************************************************************)
EXTENDS Tiers

CONSTANTS
  Groups,       \* groups that may be made: numbers, in the order of their names
  General,      \* the one that provisioning makes, "general"
  Threads,      \* posts that may be made
  NoGroup,      \* no group
  RailSize      \* how many posts a rail or a section of the site shows

ASSUME ForumAssumption ==
  /\ Groups \subseteq Nat /\ General \in Groups /\ NoGroup \notin Groups
  /\ IsFiniteSet(Groups) /\ IsFiniteSet(Threads) /\ RailSize \in Nat

VARIABLES
  group,        \* group[g]: its gate, and its position
  area,         \* discussions_visibility: "per_group", or one gate for all
  chosen,       \* content_discussion_group
  post,         \* post[p]: its group, and its flags
  activity      \* <<p, q>>: of the posts there are, p moved after q

forum == <<group, area, chosen, post, activity>>

NoSuchGroup == [there |-> FALSE, gate |-> "members", position |-> 0]
NoPost == [there |-> FALSE, group |-> NoGroup, hidden |-> FALSE, pinned |-> FALSE]

ForumInit ==
  /\ group = [g \in Groups |-> IF g = General THEN [there |-> TRUE, gate |-> "public", position |-> 1]
                               ELSE NoSuchGroup]
  /\ area = "per_group" /\ chosen = NoGroup
  /\ post = [p \in Threads |-> NoPost]
  /\ activity = {}

-----------------------------------------------------------------------------
(* Reading *)

Standing == {g \in Groups : group[g].there}
Moderates(v) == v.role \in {"admin", "owner"}

\* readable_by_current_visitor: the switch over the area, when it is set.
GroupReadable(v, g) == CanRead(Ranks, v, IF area = "per_group" THEN group[g].gate ELSE area)

\* area_readable_by_current_visitor, readable_ids.
AreaReadable(v) == area = "per_group" \/ CanRead(Ranks, v, area)
ReadableIds(v) == {g \in Standing : GroupReadable(v, g)}

\* _post_or_404 and post: what the address of a post answers.
Opens(v, p) == post[p].there /\ GroupReadable(v, post[p].group) /\ (~post[p].hidden \/ Moderates(v))

In(groups) == {p \in Threads : post[p].there /\ post[p].group \in groups}
Unhidden(posts) == {p \in posts : ~post[p].hidden}
ForModerator(v, posts) == IF Moderates(v) THEN posts ELSE Unhidden(posts)
Newest(n, posts) == {p \in posts : Cardinality({q \in posts : <<q, p>> \in activity}) < n}

\* index: the recent posts and what a search finds; group: its own.
Directory(v) == IF AreaReadable(v) THEN ForModerator(v, In(ReadableIds(v))) ELSE {}
GroupPage(v, g) == IF GroupReadable(v, g) THEN ForModerator(v, In({g})) ELSE {}

\* Fault: the newest pinned posts are taken, then asked who may read them.
RailThenAsk(v) ==
  {p \in Newest(RailSize, Unhidden({p \in In(Groups) : post[p].pinned})) : post[p].group \in ReadableIds(v)}

\* pinned_for_rail and latest_for_site: no queue for moderators, in either.
Rail(v) == Newest(RailSize, Unhidden({p \in In(ReadableIds(v)) : post[p].pinned}))
LatestForSite(v) == Newest(RailSize, Unhidden(In(ReadableIds(v))))

\* dashboard, for who is inside.
Home(v) == IF Inside(v) THEN Unhidden(In(ReadableIds(v))) ELSE {}

\* recent_by_author on a member's profile asks for no group.
Profile(v) == IF Inside(v) THEN ForModerator(v, In(Groups)) ELSE {}

-----------------------------------------------------------------------------
(* Groups *)

\* in_order: ties in the order of names.
Above(g, h) == \/ group[g].position < group[h].position
               \/ group[g].position = group[h].position /\ g < h
Place(g) == 1 + Cardinality({h \in Standing : Above(h, g)})

\* for_content_threads; of several in the first position, the oldest.
ThreadGroups == IF chosen \in Standing THEN {chosen}
                ELSE IF General \in Standing THEN {General}
                ELSE {g \in Standing : \A h \in Standing : group[g].position <= group[h].position}

AddGroup(g, gate) ==
  /\ ~group[g].there /\ gate \in Gates
  /\ group' = [group EXCEPT ![g] = [there |-> TRUE, gate |-> gate, position |-> Cardinality(Standing) + 1]]
  /\ UNCHANGED <<area, chosen, post, activity>>

\* toggle_group_visibility, and the switch over the area: a retired tier too.
SetGate(g, gate) ==
  /\ g \in Standing /\ gate \in Gates
  /\ group' = [group EXCEPT ![g].gate = gate]
  /\ UNCHANGED <<area, chosen, post, activity>>

SetArea(value) ==
  /\ value \in Gates \union {"per_group"}
  /\ area' = value
  /\ UNCHANGED <<group, chosen, post, activity>>

Choose(g) ==
  /\ g \in Standing \union {NoGroup}
  /\ chosen' = g
  /\ UNCHANGED <<group, area, post, activity>>

\* move: renumbered first, then the two neighbours swapped.
MoveGroup(g, step) ==
  /\ g \in Standing
  /\ LET there == Place(g) + step
         Renumbered(h) == IF there \notin 1..Cardinality(Standing) THEN Place(h)
                          ELSE IF h = g THEN there
                          ELSE IF Place(h) = there THEN Place(g) ELSE Place(h)
     IN group' = [h \in Groups |-> IF h \in Standing THEN [group[h] EXCEPT !.position = Renumbered(h)]
                                   ELSE group[h]]
  /\ UNCHANGED <<area, chosen, post, activity>>

\* The order among the posts that stay; a post that moves is the last one to.
Among(posts) == {pair \in activity : pair[1] \in posts /\ pair[2] \in posts}
MovedLast(p) == LET others == {q \in Threads : post[q].there} \ {p}
                IN Among(others) \union ({p} \X others)

\* delete_group, and its posts with it.
DeleteGroup(g) ==
  /\ g \in Standing
  /\ group' = [group EXCEPT ![g] = NoSuchGroup]
  /\ post' = [p \in Threads |-> IF post[p].group = g THEN NoPost ELSE post[p]]
  /\ activity' = Among({p \in Threads : post[p].group # g})
  /\ UNCHANGED <<area, chosen>>

-----------------------------------------------------------------------------
(* Posts *)

Write(p, g) ==
  /\ ~post[p].there /\ g \in Standing
  /\ post' = [post EXCEPT ![p] = [NoPost EXCEPT !.there = TRUE, !.group = g]]
  /\ activity' = MovedLast(p)
  /\ UNCHANGED <<group, area, chosen>>

\* new_post, in a group; start_content_discussion, in the one for threads.
NewPost(p, g) == Write(p, g)
DiscussThis(p) == \E g \in ThreadGroups : Write(p, g)

\* A reply moves its post to the front.
Touch(p) ==
  /\ post[p].there
  /\ activity' = MovedLast(p)
  /\ UNCHANGED <<group, area, chosen, post>>

Pin(p) == post[p].there /\ post' = [post EXCEPT ![p].pinned = ~@] /\ UNCHANGED <<group, area, chosen, activity>>
Hide(p) == post[p].there /\ post' = [post EXCEPT ![p].hidden = ~@] /\ UNCHANGED <<group, area, chosen, activity>>

DeletePost(p) ==
  /\ post[p].there
  /\ post' = [post EXCEPT ![p] = NoPost]
  /\ activity' = Among(Threads \ {p})
  /\ UNCHANGED <<group, area, chosen>>

Grouping(gates) ==
  \/ \E g \in Groups : \/ DeleteGroup(g)
                       \/ \E gate \in gates : AddGroup(g, gate) \/ SetGate(g, gate)
                       \/ \E step \in {-1, 1} : MoveGroup(g, step)
  \/ \E value \in gates \union {"per_group"} : SetArea(value)
  \/ \E g \in Groups \union {NoGroup} : Choose(g)

Posting ==
  \E p \in Threads : \/ DiscussThis(p) \/ Touch(p) \/ Pin(p) \/ Hide(p) \/ DeletePost(p)
                     \/ \E g \in Groups : NewPost(p, g)

ForumSpec ==
  /\ TiersInit /\ ForumInit
  /\ [][ \/ TiersNext /\ UNCHANGED forum
         \/ (Grouping(Gates) \/ Posting) /\ UNCHANGED ladder ]_<<ladder, forum>>

-----------------------------------------------------------------------------
(* Properties *)

\* Whatever post the directory, a group, the rail, the site or the home shows a
\* visitor, its address opens for him: wherever groups are gated or deleted, the
\* area switched, posts hidden or pinned. A profile asks for no group, and what
\* it shows opens where he may read the group. The rail is short only when it
\* has all that is pinned and he may read.
PostsOpen ==
  \A v \in Visitors :
    LET open == {p \in Threads : Opens(v, p)}
    IN /\ Directory(v) \union Rail(v) \union LatestForSite(v) \union Home(v) \subseteq open
       /\ \A g \in Standing : GroupPage(v, g) \subseteq open
       /\ {p \in Profile(v) : post[p].group \in ReadableIds(v)} \subseteq open
       /\ Cardinality(Rail(v)) < RailSize => {p \in open : post[p].pinned /\ ~post[p].hidden} \subseteq Rail(v)

\* Post titles are gated content, and anything that queries posts across groups
\* asks readable_ids first (the docstring of readable_ids): no list that crosses
\* groups shows a post of a group the visitor may not read.
AsksFirst ==
  \A v \in Visitors :
    Directory(v) \union Rail(v) \union LatestForSite(v) \union Home(v) \union Profile(v)
      \subseteq In(ReadableIds(v))
=============================================================================
