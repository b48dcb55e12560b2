------------------------------- MODULE Thread -------------------------------
(***************************************************************************)
(* Discussion threads of one organization (app/models/discussion.py and    *)
(* the writing routes of controllers/discussions.py): posts, their replies *)
(* and reply counts, the one thread of a published item, moderation flags, *)
(* and the reactions and flags that name a post or a reply. A request      *)
(* commits several times; others run in between.                           *)
(***************************************************************************)
EXTENDS Naturals, FiniteSets

CONSTANTS
  MaxPosts,     \* bound on post ids
  MaxReplies,   \* bound on reply ids
  Switches,     \* the moderators' switches considered: "hidden", "locked"
  Markable,     \* what reactions and flags are considered on: "post", "reply"
  Items,        \* published content items
  NoItem,       \* a post about nothing in particular
  Requests,     \* requests that may be under way at the same time
  IsPostgres    \* ids come from a sequence

Posts == 1..MaxPosts
Replies == 1..MaxReplies
NoReply == 0    \* a NULL parent_id

ASSUME ThreadAssumption ==
  /\ MaxPosts \in Nat /\ MaxReplies \in Nat
  /\ Switches \subseteq {"hidden", "locked"}
  /\ Markable \subseteq {"post", "reply"}
  /\ NoItem \notin Items
  /\ IsPostgres \in BOOLEAN

VARIABLES
  post,         \* post[p]: the table of posts
  reply,        \* reply[x]: the table of replies
  marked,       \* <<table, id>> of what has a reaction or a flag
  live,         \* the items that have not been deleted
  req           \* req[r]: what request r is doing

vars == <<post, reply, marked, live, req>>

NoPostRow  == [is |-> "none", item |-> NoItem, on |-> {}, count |-> 0]
NoReplyRow == [is |-> "none", post |-> 0, parent |-> NoReply]

HasPost(p)  == p \in Posts /\ post[p].is = "there"
HasReply(x) == x \in Replies /\ reply[x].is = "there"

RepliesOf(p) == {x \in Replies : HasReply(x) /\ reply[x].post = p}
ThreadsOf(i) == {p \in Posts : HasPost(p) /\ post[p].item = i}

\* A request: where it is, the row it is about, what it has in memory, and
\* whether it has had the application to itself (a history variable).
Idle == [at |-> "idle", post |-> 0, reply |-> NoReply, item |-> NoItem,
         loaded |-> 0, tally |-> 0, flag |-> FALSE, alone |-> TRUE]

Init ==
  /\ post = [p \in Posts |-> NoPostRow]
  /\ reply = [x \in Replies |-> NoReplyRow]
  /\ marked = {}
  /\ live = Items
  /\ req = [r \in Requests |-> Idle]

\* A request about post p and reply x.
About(place, p, x, flag) ==
  [Idle EXCEPT !.at = place, !.post = p, !.reply = x, !.flag = flag]

\* The request table after r has begun with `started`.
Begin(r, started) ==
  LET others == \A s \in Requests \ {r} : req[s].at = "idle" IN
  /\ req[r].at = "idle"
  /\ req' = [s \in Requests |->
               IF s = r THEN [started EXCEPT !.alone = others]
                        ELSE [req[s] EXCEPT !.alone = req[s].at = "idle"]]

ToRefresh(r) == req' = [req EXCEPT ![r].at = "refreshing", ![r].reply = NoReply]
End(r) == req' = [req EXCEPT ![r] = Idle]

\* The id of the next row: after every id given out, or, on SQLite, after the
\* highest there is.
NextId(ids, used, present) ==
  {n \in ids : \A k \in (IF IsPostgres THEN used ELSE present) : k < n
                 /\ (n = 1 \/ n - 1 \in (IF IsPostgres THEN used ELSE present))}

NextPost == NextId(Posts, {p \in Posts : post[p].is # "none"}, {p \in Posts : HasPost(p)})
NextReply ==
  NextId(Replies, {x \in Replies : reply[x].is # "none"}, {x \in Replies : HasReply(x)})

InsertPost(item) ==
  \E p \in NextPost :
    post' = [post EXCEPT ![p] = [NoPostRow EXCEPT !.is = "there", !.item = item]]

-----------------------------------------------------------------------------
(* Posts *)

\* new_post: one commit. Following and mentions come after it.
NewPost ==
  /\ InsertPost(NoItem)
  /\ UNCHANGED <<reply, marked, live, req>>

\* start_content_discussion: an item that has a thread is joined; otherwise
\* one is opened, unless somebody else's is there first (the unique key), or
\* the item has gone (the foreign key).
FindThread(r, i) ==
  /\ i \in live
  /\ ThreadsOf(i) = {}
  /\ Begin(r, [Idle EXCEPT !.at = "opening", !.item = i])
  /\ UNCHANGED <<post, reply, marked, live>>

\* Fault: the check in FindThread is all there is.
OpenBlindly(r) ==
  /\ req[r].at = "opening"
  /\ IF req[r].item \in live THEN InsertPost(req[r].item) ELSE UNCHANGED post
  /\ End(r)
  /\ UNCHANGED <<reply, marked, live>>

OpenThread(r) ==
  /\ req[r].at = "opening"
  /\ IF ThreadsOf(req[r].item) = {} /\ req[r].item \in live
       THEN InsertPost(req[r].item)
       ELSE UNCHANGED post
  /\ End(r)
  /\ UNCHANGED <<reply, marked, live>>

\* delete_post, or its group's deletion: the replies go too; reactions and
\* flags name their target without a foreign key and stay.
DeletePost(p) ==
  /\ HasPost(p)
  /\ post' = [post EXCEPT ![p] = [NoPostRow EXCEPT !.is = "gone"]]
  /\ reply' = [x \in Replies |->
                 IF x \in RepliesOf(p) THEN [NoReplyRow EXCEPT !.is = "gone"] ELSE reply[x]]
  /\ UNCHANGED <<marked, live, req>>

\* A deleted item leaves its thread behind (SET NULL).
DeleteItem(i) ==
  /\ i \in live
  /\ live' = live \ {i}
  /\ post' = [p \in Posts |->
                IF p \in ThreadsOf(i) THEN [post[p] EXCEPT !.item = NoItem] ELSE post[p]]
  /\ UNCHANGED <<reply, marked, req>>

-----------------------------------------------------------------------------
(* Replies *)

\* reply: a post one may see, not locked unless one moderates.
BeginReply(r, p, parent, moderator) ==
  /\ HasPost(p)
  /\ moderator \/ post[p].on = {}
  /\ Begin(r, About("saving", p, parent, FALSE))
  /\ UNCHANGED <<post, reply, marked, live>>

\* Fault: an answer may be answered.
ParentAnyDepth(p, parent) ==
  parent # NoReply => HasReply(parent) /\ reply[parent].post = p

\* Reply.validate: a parent in the same post, and itself not an answer.
ParentValid(p, parent) ==
  parent # NoReply =>
    /\ HasReply(parent)
    /\ reply[parent].post = p
    /\ reply[parent].parent = NoReply

SaveReply(r) ==
  LET p == req[r].post IN
  /\ req[r].at = "saving"
  /\ IF HasPost(p) /\ ParentValid(p, req[r].reply)
       THEN /\ \E x \in NextReply :
                 reply' = [reply EXCEPT ![x] =
                             [is |-> "there", post |-> p, parent |-> req[r].reply]]
            /\ ToRefresh(r)
       ELSE End(r) /\ UNCHANGED reply
  /\ UNCHANGED <<post, marked, live>>

\* delete_reply: the reply is loaded, then deleted with its answers.
BeginDelete(r, x) ==
  /\ HasReply(x)
  /\ Begin(r, About("deleting", reply[x].post, x, FALSE))
  /\ UNCHANGED <<post, reply, marked, live>>

DeleteReply(r) ==
  /\ req[r].at = "deleting"
  /\ reply' = [x \in Replies |->
                 IF HasReply(x) /\ (x = req[r].reply \/ reply[x].parent = req[r].reply)
                   THEN [NoReplyRow EXCEPT !.is = "gone"] ELSE reply[x]]
  /\ ToRefresh(r)
  /\ UNCHANGED <<post, marked, live>>

\* Both end in recount_replies. The post was expired by the commit, so it is
\* loaded again first (and the request fails if it has gone).
Refresh(r) ==
  LET p == req[r].post IN
  /\ req[r].at = "refreshing"
  /\ req' = [req EXCEPT ![r] =
               IF HasPost(p) THEN [@ EXCEPT !.at = "counting", !.loaded = post[p].count]
                             ELSE Idle]
  /\ UNCHANGED <<post, reply, marked, live>>

\* Fault: a counter that is adjusted instead of recounted.
CountByOne(r) ==
  /\ req[r].at = "counting"
  /\ req' = [req EXCEPT ![r].at = "writing", ![r].tally = req[r].loaded + 1]
  /\ UNCHANGED <<post, reply, marked, live>>

CountReplies(r) ==
  /\ req[r].at = "counting"
  /\ req' = [req EXCEPT ![r].at = "writing",
                        ![r].tally = Cardinality(RepliesOf(req[r].post))]
  /\ UNCHANGED <<post, reply, marked, live>>

\* The UPDATE leaves out a count that equals the one loaded.
WriteCount(r) ==
  LET p == req[r].post IN
  /\ req[r].at = "writing"
  /\ post' = IF HasPost(p) /\ req[r].tally # req[r].loaded
               THEN [post EXCEPT ![p].count = req[r].tally]
               ELSE post
  /\ End(r)
  /\ UNCHANGED <<reply, marked, live>>

-----------------------------------------------------------------------------
(* Moderation, reactions and flags *)

\* hide_post and lock_post toggle what they loaded.
BeginToggle(r, p, switch) ==
  /\ HasPost(p)
  /\ Begin(r, About(switch, p, NoReply, switch \in post[p].on))
  /\ UNCHANGED <<post, reply, marked, live>>

\* Fault: what is written is the opposite of the row as it then is.
ToggleNow(r) ==
  LET p == req[r].post
      switch == {req[r].at} IN
  /\ req[r].at \in Switches
  /\ post' = IF HasPost(p)
               THEN [post EXCEPT ![p].on = IF switch \subseteq @ THEN @ \ switch
                                                                ELSE @ \union switch]
               ELSE post
  /\ End(r)
  /\ UNCHANGED <<reply, marked, live>>

SaveToggle(r) ==
  LET p == req[r].post
      switch == {req[r].at} IN
  /\ req[r].at \in Switches
  /\ post' = IF HasPost(p)
               THEN [post EXCEPT ![p].on = IF req[r].flag THEN @ \ switch ELSE @ \union switch]
               ELSE post
  /\ End(r)
  /\ UNCHANGED <<reply, marked, live>>

\* react and flag look for their target, then insert a row that names it;
\* to react again takes one's own reaction back, which others' may outlast.
BeginMark(r, table, n) ==
  /\ table \in Markable
  /\ IF table = "post" THEN HasPost(n) ELSE HasReply(n)
  /\ Begin(r, About(table, n, NoReply, FALSE))
  /\ UNCHANGED <<post, reply, marked, live>>

SaveMark(r) ==
  /\ req[r].at \in Markable
  /\ LET target == {<<req[r].at, req[r].post>>} IN
       marked' = marked \union target \/ marked' = marked \ target
  /\ End(r)
  /\ UNCHANGED <<post, reply, live>>

\* The process dies, or a statement of the request fails.
Die(r) ==
  /\ req[r].at # "idle"
  /\ End(r)
  /\ UNCHANGED <<post, reply, marked, live>>

-----------------------------------------------------------------------------
Opening(r) == OpenThread(r) \/ \E i \in Items : FindThread(r, i)

Replying(r) ==
  \/ \E p \in Posts : \E parent \in Replies \union {NoReply}, moderator \in BOOLEAN :
       BeginReply(r, p, parent, moderator)
  \/ \E x \in Replies : BeginDelete(r, x)
  \/ SaveReply(r) \/ DeleteReply(r) \/ Refresh(r) \/ CountReplies(r) \/ WriteCount(r)

Moderating(r) == SaveToggle(r) \/ \E p \in Posts, switch \in Switches : BeginToggle(r, p, switch)

Marking(r) ==
  SaveMark(r) \/ \E table \in Markable, n \in Posts \union Replies : BeginMark(r, table, n)

Posting == NewPost \/ \E p \in Posts : DeletePost(p)

Step(r) == Opening(r) \/ Replying(r) \/ Moderating(r) \/ Marking(r) \/ Die(r)

Next ==
  \/ Posting
  \/ \E i \in Items : DeleteItem(i)
  \/ \E r \in Requests : Step(r)

Spec == Init /\ [][Next]_vars

-----------------------------------------------------------------------------
(* Properties *)

Places == {"idle", "opening", "saving", "deleting", "refreshing", "counting",
           "writing"} \union Switches \union Markable

\* Rows and requests stay within their domains.
TypeOK ==
  /\ post \in [Posts -> [is : {"none", "there", "gone"}, item : Items \union {NoItem},
                         on : SUBSET Switches, count : Nat]]
  /\ reply \in [Replies -> [is : {"none", "there", "gone"}, post : Posts \union {0},
                            parent : Replies \union {NoReply}]]
  /\ marked \subseteq {"post", "reply"} \X Nat
  /\ live \subseteq Items
  /\ req \in [Requests -> [at : Places, post : Nat, reply : Replies \union {NoReply},
                           item : Items \union {NoItem}, loaded : Nat, tally : Nat,
                           flag : BOOLEAN, alone : BOOLEAN]]

\* A thread is one level deep: every reply is under a post that is there, and
\* what it answers is there, in the same post, and answers nothing itself,
\* whoever deletes what meanwhile (Reply.validate, ON DELETE CASCADE).
ThreadShape ==
  \A x \in Replies : HasReply(x) =>
    /\ HasPost(reply[x].post)
    /\ reply[x].parent # NoReply =>
         /\ HasReply(reply[x].parent)
         /\ reply[reply[x].parent].post = reply[x].post
         /\ reply[reply[x].parent].parent = NoReply

\* An item has one thread, however many people press the button at once.
OneThread == \A i \in Items : \A p, q \in ThreadsOf(i) : p = q

\* Counts that overlapping requests, a dead one or a cascade have left wrong
\* are put right by the next reply or deletion that runs alone: the count is
\* taken from the rows, not adjusted (recount_replies).
RecountHeals ==
  [][\A r \in Requests :
       WriteCount(r) /\ req[r].alone /\ HasPost(req[r].post) =>
         post'[req[r].post].count = Cardinality(RepliesOf(req[r].post))]_vars

\* A post that has been hidden is shown again only by a moderator who saw it
\* hidden: two who press the button at once both hide it.
HiddenStays ==
  [][\A p \in Posts :
       HasPost(p) /\ "hidden" \in post[p].on /\ HasPost(p)' /\ "hidden" \notin post'[p].on =>
         \E r \in Requests : req[r].at = "hidden" /\ req[r].post = p /\ req[r].flag]_vars

=============================================================================
