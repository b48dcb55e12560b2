---------------------------- MODULE ThreadProofs ----------------------------
(* Theorems about Thread: for any number of posts, replies, items and       *)
(* concurrent requests, on either engine.                                   *)
EXTENDS Thread, FiniteSetTheorems, TLAPS

ReqRow == [at : Places, post : Nat, reply : Replies \union {NoReply},
           item : Items \union {NoItem}, loaded : Nat, tally : Nat,
           flag : BOOLEAN, alone : BOOLEAN]

\* ThreadShape alone is not inductive: a deletion whose request named no reply
\* would take the top-level replies for answers.
NamesReply(row) == row.at = "deleting" => row.reply # NoReply
DeletesReply == \A r \in Requests : NamesReply(req[r])

\* ThreadShape for one reply.
Shaped(x) ==
  /\ HasPost(reply[x].post)
  /\ reply[x].parent # NoReply =>
       /\ HasReply(reply[x].parent)
       /\ reply[reply[x].parent].post = reply[x].post
       /\ reply[reply[x].parent].parent = NoReply

IInv == TypeOK /\ DeletesReply /\ ThreadShape /\ OneThread

-----------------------------------------------------------------------------
(* Lemmas about the operators the actions are built from *)

\* The id of a new row is not that of a row that is there.
LEMMA IdsAreNew ==
  ASSUME NEW ids, ids \subseteq Nat, NEW used, NEW present, present \subseteq used,
         NEW n \in NextId(ids, used, present)
  PROVE  n \in ids /\ n \notin present
BY DEF NextId

\* A recount gives a natural number.
LEMMA CountIsNat == ASSUME NEW p PROVE Cardinality(RepliesOf(p)) \in Nat
<1>1. IsFiniteSet(Replies)
  BY FS_Interval, ThreadAssumption DEF Replies
<1>2. RepliesOf(p) \subseteq Replies
  BY DEF RepliesOf
<1> QED
  BY <1>1, <1>2, FS_Subset, FS_CardinalityType

LEMMA IdleIsRow == Idle \in ReqRow /\ NamesReply(Idle)
BY DEF Idle, ReqRow, Places, NamesReply, NoReply

LEMMA IdsAreNat == Posts \union {0} \subseteq Nat /\ Posts \subseteq Nat /\ Replies \subseteq Nat
BY ThreadAssumption DEF Posts, Replies

\* What a request starts with, whichever of the fields it sets.
LEMMA StartIsRow ==
  ASSUME NEW at \in Places, NEW n \in Nat, NEW x \in Replies \union {NoReply},
         NEW flag \in BOOLEAN, at = "deleting" => x # NoReply
  PROVE  About(at, n, x, flag) \in ReqRow /\ NamesReply(About(at, n, x, flag))
<1>1. About(at, n, x, flag).at = at /\ About(at, n, x, flag).reply = x
  BY DEF Idle, About
<1>2. About(at, n, x, flag) \in ReqRow
  BY DEF Idle, About, ReqRow
<1> QED
  BY <1>1, <1>2 DEF NamesReply

\* Beginning or ending a request keeps the request table well formed.
LEMMA Begins ==
  ASSUME TypeOK, DeletesReply, NEW r \in Requests, NEW started \in ReqRow,
         NamesReply(started), Begin(r, started)
  PROVE  req' \in [Requests -> ReqRow] /\ DeletesReply'
<1>1. req \in [Requests -> ReqRow]
  BY DEF TypeOK, ReqRow
<1>2. \A b \in BOOLEAN, row \in ReqRow :
        /\ [row EXCEPT !.alone = b] \in ReqRow
        /\ NamesReply(row) => NamesReply([row EXCEPT !.alone = b])
  BY DEF ReqRow, NamesReply
<1>3. \A s \in Requests : req'[s] \in ReqRow /\ NamesReply(req'[s])
  BY <1>1, <1>2 DEF Begin, DeletesReply
<1> QED
  BY <1>3 DEF Begin, DeletesReply

LEMMA Ends ==
  ASSUME TypeOK, DeletesReply, NEW r \in Requests, End(r)
  PROVE  req' \in [Requests -> ReqRow] /\ DeletesReply'
BY IdleIsRow DEF TypeOK, DeletesReply, End, ReqRow

LEMMA RefreshesNext ==
  ASSUME TypeOK, DeletesReply, NEW r \in Requests, ToRefresh(r)
  PROVE  req' \in [Requests -> ReqRow] /\ DeletesReply'
<1>1. req \in [Requests -> ReqRow]
  BY DEF TypeOK, ReqRow
<1>2. \A row \in ReqRow :
        LET next == [row EXCEPT !.at = "refreshing", !.reply = NoReply]
        IN  next \in ReqRow /\ NamesReply(next)
  BY DEF ReqRow, NamesReply, Places
<1>3. \A s \in Requests : req'[s] = IF s = r
        THEN [req[s] EXCEPT !.at = "refreshing", !.reply = NoReply] ELSE req[s]
  BY <1>1 DEF ToRefresh
<1> QED
  BY <1>1, <1>2, <1>3 DEF ToRefresh, DeletesReply

PostRow == [is : {"none", "there", "gone"}, item : Items \union {NoItem},
            on : SUBSET Switches, count : Nat]

\* Inserting a post changes one row, of a post that was not there.
LEMMA Inserts ==
  ASSUME TypeOK, NEW item \in Items \union {NoItem}, InsertPost(item)
  PROVE  \E p \in Posts :
           /\ ~HasPost(p)
           /\ post' \in [Posts -> PostRow]
           /\ HasPost(p)' /\ post'[p].item = item
           /\ \A q \in Posts \ {p} : post'[q] = post[q]
<1>1. PICK p \in NextPost :
        post' = [post EXCEPT ![p] = [NoPostRow EXCEPT !.is = "there", !.item = item]]
  BY DEF InsertPost
<1>2. p \in Posts /\ ~HasPost(p)
  <2>1. Posts \subseteq Nat
    BY DEF Posts
  <2>2. {q \in Posts : HasPost(q)} \subseteq {q \in Posts : post[q].is # "none"}
    BY DEF HasPost
  <2> QED
    BY <1>1, <2>1, <2>2, IdsAreNew DEF NextPost
<1>3. [NoPostRow EXCEPT !.is = "there", !.item = item] \in PostRow
  BY DEF NoPostRow, PostRow
<1>4. post \in [Posts -> PostRow]
  BY DEF TypeOK, PostRow
<1>5. post'[p].is = "there" /\ post'[p].item = item
  BY <1>1, <1>2, <1>4 DEF NoPostRow
<1> QED
  BY <1>1, <1>2, <1>3, <1>4, <1>5 DEF HasPost

-----------------------------------------------------------------------------
(* The invariant is inductive *)

LEMMA InitHolds == Init => IInv
<1> SUFFICES ASSUME Init PROVE IInv
  OBVIOUS
<1>1. TypeOK
  BY ThreadAssumption, IdleIsRow
  DEF Init, TypeOK, NoPostRow, NoReplyRow, ReqRow, NoReply
<1>2. DeletesReply /\ ThreadShape /\ OneThread
  BY IdleIsRow DEF Init, DeletesReply, ThreadShape, OneThread, HasReply, HasPost,
     ThreadsOf, NoPostRow, NoReplyRow
<1> QED
  BY <1>1, <1>2 DEF IInv

\* What a step leaves of the thread invariants when it adds no reply, takes no
\* post away and gives none another item.
LEMMA ShapeKept ==
  ASSUME ThreadShape, OneThread, reply' = reply,
         \A p \in Posts : HasPost(p) => HasPost(p)',
         \A p \in Posts : HasPost(p)' => HasPost(p) /\ post'[p].item = post[p].item
  PROVE  ThreadShape' /\ OneThread'
<1>1. ThreadShape'
  BY DEF ThreadShape, HasReply, HasPost
<1>2. \A i \in Items : ThreadsOf(i)' \subseteq ThreadsOf(i)
  BY DEF ThreadsOf
<1> QED
  BY <1>1, <1>2 DEF OneThread

LEMMA StepHolds == IInv /\ [Next]_vars => IInv'
<1> SUFFICES ASSUME IInv, [Next]_vars PROVE IInv'
  OBVIOUS
<1> USE DEF IInv
<1>0. /\ post \in [Posts -> PostRow]
      /\ req \in [Requests -> ReqRow]
      /\ marked \subseteq {"post", "reply"} \X Nat
      /\ live \subseteq Items
  BY DEF TypeOK, PostRow, ReqRow
<1>a. ASSUME req' \in [Requests -> ReqRow], DeletesReply',
             UNCHANGED <<post, reply, marked, live>>
      PROVE  IInv'
  <2>1. TypeOK'
    BY <1>a DEF TypeOK, ReqRow
  <2>2. ThreadShape' /\ OneThread'
    BY <1>a, ShapeKept DEF HasPost
  <2> QED
    BY <1>a, <2>1, <2>2
<1>1. CASE NewPost
  <2>1. PICK p \in Posts :
          /\ ~HasPost(p)
          /\ post' \in [Posts -> PostRow]
          /\ HasPost(p)' /\ post'[p].item = NoItem
          /\ \A q \in Posts \ {p} : post'[q] = post[q]
    BY <1>1, Inserts DEF NewPost
  <2>2. TypeOK' /\ DeletesReply'
    BY <1>1, <2>1 DEF NewPost, TypeOK, PostRow, DeletesReply
  <2>3. ThreadShape'
    BY <1>1, <2>1 DEF NewPost, ThreadShape, HasReply, HasPost
  <2>4. \A i \in Items : ThreadsOf(i)' \subseteq ThreadsOf(i)
    BY <2>1, ThreadAssumption DEF ThreadsOf, HasPost
  <2> QED
    BY <2>2, <2>3, <2>4 DEF OneThread
<1>2. ASSUME NEW p \in Posts, DeletePost(p) PROVE IInv'
  <2>1. TypeOK' /\ DeletesReply'
    BY <1>2 DEF DeletePost, TypeOK, DeletesReply, NoPostRow, NoReplyRow, NoReply
  <2>2. \A x \in Replies : HasReply(x)' =>
          HasReply(x) /\ reply'[x] = reply[x] /\ reply[x].post # p
    BY <1>2 DEF DeletePost, HasReply, RepliesOf, NoReplyRow
  <2>3. \A x \in Replies : HasReply(x) /\ reply[x].post # p =>
          HasReply(x)' /\ reply'[x] = reply[x]
    BY <1>2 DEF DeletePost, HasReply, RepliesOf
  <2>4. \A q \in Posts \ {p} : post'[q] = post[q]
    BY <1>2 DEF DeletePost, TypeOK
  <2>5. ThreadShape'
    BY <2>2, <2>3, <2>4 DEF ThreadShape, HasReply, HasPost
  <2>6. ~HasPost(p)'
    BY <1>2, <1>0 DEF DeletePost, HasPost, NoPostRow
  <2>7. \A i \in Items : ThreadsOf(i)' \subseteq ThreadsOf(i)
    BY <2>4, <2>6 DEF ThreadsOf, HasPost
  <2> QED
    BY <2>1, <2>5, <2>7 DEF OneThread
<1>3. ASSUME NEW i \in Items, DeleteItem(i) PROVE IInv'
  <2>1. /\ \A p \in Posts : post'[p].is = post[p].is
        /\ \A p \in Posts : post'[p].item = post[p].item \/ post'[p].item = NoItem
        /\ post' \in [Posts -> PostRow]
    BY <1>3, <1>0 DEF DeleteItem, PostRow
  <2>2. TypeOK' /\ DeletesReply'
    BY <1>3, <2>1, <1>0 DEF DeleteItem, TypeOK, PostRow, DeletesReply
  <2>3. ThreadShape'
    BY <1>3, <2>1 DEF DeleteItem, ThreadShape, HasReply, HasPost
  <2>4. \A j \in Items : ThreadsOf(j)' \subseteq ThreadsOf(j)
    BY <2>1, ThreadAssumption DEF ThreadsOf, HasPost
  <2> QED
    BY <2>2, <2>3, <2>4 DEF OneThread
<1>4. ASSUME NEW r \in Requests, Step(r) PROVE IInv'
  <2>1. ASSUME NEW i \in Items, FindThread(r, i) PROVE IInv'
    <3> DEFINE started == [Idle EXCEPT !.at = "opening", !.item = i]
    <3>1. started \in ReqRow /\ NamesReply(started)
      BY DEF Idle, ReqRow, Places, NamesReply, NoReply
    <3> QED
      BY <2>1, <3>1, <1>a, Begins DEF FindThread
  <2>2. CASE OpenThread(r)
    <3>1. req' \in [Requests -> ReqRow] /\ DeletesReply'
      BY <2>2, Ends DEF OpenThread
    <3>2. CASE UNCHANGED post
      BY <2>2, <3>1, <3>2, <1>a DEF OpenThread
    <3>3. CASE ThreadsOf(req[r].item) = {} /\ InsertPost(req[r].item)
      <4>1. req[r].item \in Items \union {NoItem}
        BY <1>0 DEF ReqRow
      <4>2. PICK p \in Posts :
              /\ ~HasPost(p)
              /\ post' \in [Posts -> PostRow]
              /\ HasPost(p)' /\ post'[p].item = req[r].item
              /\ \A q \in Posts \ {p} : post'[q] = post[q]
        BY <3>3, <4>1, Inserts
      <4>3. TypeOK'
        BY <2>2, <3>1, <4>2 DEF OpenThread, TypeOK, PostRow, ReqRow
      <4>4. ThreadShape'
        BY <2>2, <4>2 DEF OpenThread, ThreadShape, HasReply, HasPost
      <4>5. \A i \in Items : ThreadsOf(i)' \subseteq
              IF i = req[r].item THEN {p} ELSE ThreadsOf(i)
        BY <3>3, <4>2 DEF ThreadsOf, HasPost
      <4> QED
        BY <3>1, <4>3, <4>4, <4>5 DEF OneThread
    <3> QED
      BY <2>2, <3>2, <3>3 DEF OpenThread
  <2>3. ASSUME NEW p \in Posts, NEW parent \in Replies \union {NoReply}, NEW moderator \in BOOLEAN,
               BeginReply(r, p, parent, moderator)
        PROVE  IInv'
    <3>1. "saving" \in Places /\ "saving" # "deleting"
      BY DEF Places
    <3>2. p \in Nat
      BY IdsAreNat
    <3> QED
      BY <2>3, <3>1, <3>2, StartIsRow, <1>a, Begins DEF BeginReply
  <2>4. ASSUME NEW x \in Replies, BeginDelete(r, x) PROVE IInv'
    <3>1. "deleting" \in Places
      BY DEF Places
    <3>2. reply[x].post \in Nat
      <4>1. reply[x].post \in Posts \union {0}
        BY DEF TypeOK
      <4> QED
        BY <4>1, IdsAreNat
    <3>3. x # NoReply
      BY DEF Replies, NoReply
    <3> QED
      BY <2>4, <3>1, <3>2, <3>3, StartIsRow, <1>a, Begins DEF BeginDelete
  <2>5. CASE SaveReply(r)
    <3>1. CASE End(r) /\ UNCHANGED reply
      BY <2>5, <3>1, Ends, <1>a DEF SaveReply
    <3>2. CASE /\ HasPost(req[r].post) /\ ParentValid(req[r].post, req[r].reply)
               /\ \E x \in NextReply :
                    reply' = [reply EXCEPT ![x] =
                      [is |-> "there", post |-> req[r].post, parent |-> req[r].reply]]
               /\ ToRefresh(r)
      <4>0. PICK p, parent : p = req[r].post /\ parent = req[r].reply
        OBVIOUS
      <4>1. PICK x \in NextReply :
              reply' = [reply EXCEPT ![x] =
                [is |-> "there", post |-> p, parent |-> parent]]
        BY <3>2, <4>0
      <4>2. x \in Replies /\ ~HasReply(x)
        <5>1. Replies \subseteq Nat
          BY DEF Replies
        <5>2. {y \in Replies : HasReply(y)} \subseteq {y \in Replies : reply[y].is # "none"}
          BY DEF HasReply
        <5> QED
          BY <4>1, <5>1, <5>2, IdsAreNew DEF NextReply
      <4>3. req' \in [Requests -> ReqRow] /\ DeletesReply'
        BY <3>2, RefreshesNext
      <4>4. p \in Posts /\ parent \in Replies \union {NoReply}
        BY <3>2, <4>0, <1>0 DEF HasPost, ReqRow
      <4>5. TypeOK'
        BY <2>5, <4>1, <4>2, <4>3, <4>4 DEF SaveReply, TypeOK, ReqRow
      <4>6. /\ reply'[x] = [is |-> "there", post |-> p, parent |-> parent]
            /\ \A y \in Replies \ {x} : reply'[y] = reply[y]
        BY <4>1, <4>2 DEF TypeOK
      <4>7. ASSUME NEW y \in Replies, HasReply(y)'
            PROVE  Shaped(y)'
        <5>1. CASE y = x
          <6>1. post' = post
            BY <2>5 DEF SaveReply
          <6>2. reply'[y].post = p /\ reply'[y].parent = parent
            BY <4>6, <5>1
          <6>3. parent # NoReply =>
                  /\ HasReply(parent) /\ parent # x
                  /\ reply[parent].post = p /\ reply[parent].parent = NoReply
            BY <3>2, <4>0, <4>2 DEF ParentValid
          <6>4. parent # NoReply => HasReply(parent)' /\ reply'[parent] = reply[parent]
            BY <4>6, <6>3 DEF HasReply
          <6>5. HasPost(p)'
            BY <3>2, <4>0, <6>1 DEF HasPost
          <6> QED
            BY <6>2, <6>3, <6>4, <6>5 DEF Shaped, HasPost, HasReply
        <5>2. CASE y # x
          <6>1. HasReply(y) /\ reply'[y] = reply[y]
            BY <4>6, <4>7, <5>2 DEF HasReply
          <6>2. reply[y].parent # NoReply => reply[y].parent \in Replies \ {x}
            BY <6>1, <4>2 DEF ThreadShape, HasReply
          <6>3. reply[y].parent # NoReply =>
                  HasReply(reply[y].parent)' /\ reply'[reply[y].parent] = reply[reply[y].parent]
            BY <4>6, <6>1, <6>2 DEF ThreadShape, HasReply
          <6>4. post' = post
            BY <2>5 DEF SaveReply
          <6> QED
            BY <6>1, <6>3, <6>4 DEF ThreadShape, Shaped, HasPost, HasReply
        <5> QED
          BY <5>1, <5>2
      <4>8. ThreadShape'
        BY <4>7 DEF ThreadShape, Shaped
      <4>9. OneThread'
        BY <2>5 DEF SaveReply, OneThread, ThreadsOf, HasPost
      <4> QED
        BY <4>3, <4>5, <4>8, <4>9
    <3> QED
      BY <2>5, <3>1, <3>2 DEF SaveReply
  <2>6. CASE DeleteReply(r)
    <3> DEFINE target == req[r].reply
    <3>1. req' \in [Requests -> ReqRow] /\ DeletesReply'
      BY <2>6, RefreshesNext DEF DeleteReply
    <3>2. TypeOK'
      BY <2>6, <3>1 DEF DeleteReply, TypeOK, ReqRow, NoReplyRow, NoReply
    <3>3. target # NoReply
      BY <2>6 DEF DeleteReply, DeletesReply, NamesReply
    <3>4. \A x \in Replies : HasReply(x)' <=>
            HasReply(x) /\ x # target /\ reply[x].parent # target
      BY <2>6 DEF DeleteReply, HasReply, NoReplyRow
    <3>5. \A x \in Replies : HasReply(x)' => reply'[x] = reply[x]
      BY <2>6 DEF DeleteReply, HasReply, NoReplyRow
    <3>6. ThreadShape'
      BY <2>6, <3>3, <3>4, <3>5 DEF DeleteReply, ThreadShape, HasPost, HasReply
    <3>7. OneThread'
      BY <2>6 DEF DeleteReply, OneThread, ThreadsOf, HasPost
    <3> QED
      BY <3>1, <3>2, <3>6, <3>7
  <2>7. CASE Refresh(r)
    <3>1. ASSUME HasPost(req[r].post)
          PROVE  [req[r] EXCEPT !.at = "counting", !.loaded = post[req[r].post].count] \in ReqRow
      <4>1. post[req[r].post].count \in Nat
        BY <3>1, <1>0 DEF HasPost, PostRow
      <4> QED
        BY <4>1, <1>0 DEF ReqRow, Places
    <3>2. req' \in [Requests -> ReqRow]
      BY <2>7, <3>1, <1>0, IdleIsRow DEF Refresh
    <3>3. DeletesReply'
      BY <2>7, <1>0, IdleIsRow DEF Refresh, DeletesReply, NamesReply, ReqRow
    <3> QED
      BY <2>7, <3>2, <3>3, <1>a DEF Refresh
  <2>8. CASE CountReplies(r)
    <3>1. Cardinality(RepliesOf(req[r].post)) \in Nat
      BY CountIsNat
    <3>2. \A row \in ReqRow, n \in Nat :
            [row EXCEPT !.at = "writing", !.tally = n] \in ReqRow
      BY DEF ReqRow, Places
    <3> DEFINE n == Cardinality(RepliesOf(req[r].post))
    <3>4. req' = [req EXCEPT ![r] = [req[r] EXCEPT !.at = "writing", !.tally = n]]
      BY <2>8, <1>0 DEF CountReplies
    <3>5. req' \in [Requests -> ReqRow]
      <4> HIDE DEF n
      <4> QED
        BY <3>1, <3>2, <3>4, <1>0 DEF n
    <3>3. DeletesReply'
      BY <2>8, <1>0 DEF CountReplies, DeletesReply, NamesReply, ReqRow
    <3> QED
      BY <2>8, <3>5, <3>3, <1>a DEF CountReplies
  <2>9. CASE WriteCount(r)
    <3>1. req' \in [Requests -> ReqRow] /\ DeletesReply'
      BY <2>9, Ends DEF WriteCount
    <3>2. req[r].tally \in Nat
      BY <1>0 DEF ReqRow
    <3>3. /\ post' \in [Posts -> PostRow]
          /\ \A p \in Posts : post'[p].is = post[p].is /\ post'[p].item = post[p].item
      BY <2>9, <3>2, <1>0 DEF WriteCount, PostRow, HasPost
    <3>4. TypeOK'
      BY <2>9, <3>1, <3>3 DEF WriteCount, TypeOK, PostRow, ReqRow
    <3>5. ThreadShape' /\ OneThread'
      BY <2>9, <3>3, ShapeKept DEF WriteCount, HasPost
    <3> QED
      BY <3>1, <3>4, <3>5
  <2>10. ASSUME NEW p \in Posts, NEW switch \in Switches, BeginToggle(r, p, switch)
         PROVE  IInv'
    <3>1. switch \in Places /\ switch # "deleting"
      BY ThreadAssumption DEF Places
    <3>2. p \in Nat /\ (switch \in post[p].on) \in BOOLEAN
      BY IdsAreNat
    <3> QED
      BY <2>10, <3>1, <3>2, StartIsRow, <1>a, Begins DEF BeginToggle
  <2>11. CASE SaveToggle(r)
    <3>1. req' \in [Requests -> ReqRow] /\ DeletesReply'
      BY <2>11, Ends DEF SaveToggle
    <3>2. req[r].at \in Switches
      BY <2>11 DEF SaveToggle
    <3>3. \A row \in PostRow : \A on \in SUBSET Switches :
            /\ [row EXCEPT !.on = on] \in PostRow
            /\ [row EXCEPT !.on = on].is = row.is /\ [row EXCEPT !.on = on].item = row.item
      BY DEF PostRow
    <3>4. /\ post' \in [Posts -> PostRow]
          /\ \A p \in Posts : post'[p].is = post[p].is /\ post'[p].item = post[p].item
      <4>1. CASE HasPost(req[r].post)
        <5>1. PICK on \in SUBSET Switches : post' = [post EXCEPT ![req[r].post].on = on]
          <6>1. post[req[r].post].on \subseteq Switches
            BY <4>1, <1>0 DEF HasPost, PostRow
          <6> QED
            BY <2>11, <3>2, <4>1, <6>1 DEF SaveToggle
        <5> QED
          BY <5>1, <3>3, <4>1, <1>0 DEF HasPost
      <4>2. CASE ~HasPost(req[r].post)
        BY <2>11, <4>2, <1>0 DEF SaveToggle
      <4> QED
        BY <4>1, <4>2
    <3>5. TypeOK'
      BY <2>11, <3>1, <3>4 DEF SaveToggle, TypeOK, PostRow, ReqRow
    <3>6. ThreadShape' /\ OneThread'
      BY <2>11, <3>4, ShapeKept DEF SaveToggle, HasPost
    <3> QED
      BY <3>1, <3>5, <3>6
  <2>12. ASSUME NEW table \in Markable, NEW n \in Posts \union Replies, BeginMark(r, table, n)
         PROVE  IInv'
    <3>1. table \in Places /\ table # "deleting"
      BY ThreadAssumption DEF Places
    <3>2. n \in Nat
      BY IdsAreNat
    <3> QED
      BY <2>12, <3>1, <3>2, StartIsRow, <1>a, Begins DEF BeginMark
  <2>13. CASE SaveMark(r)
    <3>1. req' \in [Requests -> ReqRow] /\ DeletesReply'
      BY <2>13, Ends DEF SaveMark
    <3>2. req[r].at \in {"post", "reply"} /\ req[r].post \in Nat
      BY <2>13, <1>0, ThreadAssumption DEF SaveMark, ReqRow
    <3>3. TypeOK'
      BY <2>13, <3>1, <3>2 DEF SaveMark, TypeOK, ReqRow
    <3>4. ThreadShape' /\ OneThread'
      BY <2>13, ShapeKept DEF SaveMark, HasPost
    <3> QED
      BY <3>1, <3>3, <3>4
  <2>14. CASE Die(r)
    BY <2>14, Ends, <1>a DEF Die
  <2> QED
    BY <1>4, <2>1, <2>2, <2>3, <2>4, <2>5, <2>6, <2>7, <2>8, <2>9, <2>10, <2>11,
       <2>12, <2>13, <2>14 DEF Step, Opening, Replying, Moderating, Marking, Posting
<1>5. CASE UNCHANGED vars
  BY <1>0, <1>5, <1>a DEF vars, DeletesReply
<1> QED
  BY <1>1, <1>2, <1>3, <1>4, <1>5 DEF Next, Posting

-----------------------------------------------------------------------------
(* Theorems *)

\* Rows and requests stay within their domains.
THEOREM ThreadTyped == Spec => []TypeOK
<1>1. IInv => TypeOK
  BY DEF IInv
<1> QED
  BY <1>1, InitHolds, StepHolds, PTL DEF Spec

\* Threads are one level deep and no reply is left without its post or its
\* parent, however many requests reply, delete and moderate at once.
THEOREM ThreadWellShaped == Spec => []ThreadShape
<1>1. IInv => ThreadShape
  BY DEF IInv
<1> QED
  BY <1>1, InitHolds, StepHolds, PTL DEF Spec

\* An item never has two threads (start_for_content under the unique key).
THEOREM ThreadUnique == Spec => []OneThread
<1>1. IInv => OneThread
  BY DEF IInv
<1> QED
  BY <1>1, InitHolds, StepHolds, PTL DEF Spec

-----------------------------------------------------------------------------
(* Hiding and counting *)

\* A post that has been hidden is shown again only by a request that saw it
\* hidden, for any number of posts and requests and on either engine (hide_post).
THEOREM HiddenUntilSeen == Spec => HiddenStays
<1> DEFINE Stays == \A p \in Posts :
      HasPost(p) /\ "hidden" \in post[p].on /\ HasPost(p)' /\ "hidden" \notin post'[p].on =>
        \E r \in Requests : req[r].at = "hidden" /\ req[r].post = p /\ req[r].flag
<1>1. IInv /\ [Next]_vars => [Stays]_vars
  <2> SUFFICES ASSUME IInv, Next, NEW p \in Posts, HasPost(p), "hidden" \in post[p].on, HasPost(p)',
                      "hidden" \notin post'[p].on
               PROVE  \E r \in Requests : req[r].at = "hidden" /\ req[r].post = p /\ req[r].flag
    OBVIOUS
  <2>0. post \in [Posts -> PostRow]
    BY DEF IInv, TypeOK, PostRow
  <2>1. ASSUME NEW item \in Items \union {NoItem}, InsertPost(item) PROVE FALSE
    <3>1. PICK q \in Posts : ~HasPost(q) /\ \A n \in Posts \ {q} : post'[n] = post[n]
      BY <2>1, Inserts DEF IInv
    <3> QED
      BY <3>1
  <2>2. ASSUME NEW q \in Posts, DeletePost(q) PROVE FALSE
    <3>1. CASE q = p
      BY <2>0, <2>2, <3>1 DEF DeletePost, HasPost, NoPostRow
    <3>2. CASE q # p
      BY <2>0, <2>2, <3>2 DEF DeletePost
    <3> QED
      BY <3>1, <3>2
  <2>3. ASSUME NEW i \in Items, DeleteItem(i) PROVE FALSE
    <3>1. post'[p].on = post[p].on
      BY <2>0, <2>3 DEF DeleteItem, PostRow
    <3> QED
      BY <3>1
  <2>4. ASSUME NEW r \in Requests, WriteCount(r) PROVE FALSE
    <3>1. post'[p].on = post[p].on
      BY <2>0, <2>4 DEF WriteCount, PostRow
    <3> QED
      BY <3>1
  <2>5. ASSUME NEW r \in Requests, SaveToggle(r)
        PROVE  req[r].at = "hidden" /\ req[r].post = p /\ req[r].flag
    <3> DEFINE q == req[r].post
               on == IF req[r].flag THEN post[q].on \ {req[r].at} ELSE post[q].on \union {req[r].at}
    <3>1. HasPost(q) /\ post' = [post EXCEPT ![q].on = on]
      BY <2>5 DEF SaveToggle
    <3>2. q = p
      BY <2>0, <3>1 DEF HasPost
    <3>3. post'[p].on = on
      BY <2>0, <3>1, <3>2 DEF PostRow
    <3> HIDE DEF q
    <3> QED
      BY <3>2, <3>3 DEF q
  <2>6. ASSUME NEW r \in Requests, OpenThread(r) PROVE FALSE
    <3>1. InsertPost(req[r].item) \/ post' = post
      BY <2>6 DEF OpenThread
    <3>2. req[r].item \in Items \union {NoItem}
      BY DEF IInv, TypeOK
    <3> QED
      BY <2>1, <3>1, <3>2
  <2>7. CASE post' = post
    BY <2>7
  <2> QED
    BY <2>1, <2>2, <2>3, <2>4, <2>5, <2>6, <2>7
       DEF Next, Step, Opening, Replying, Moderating, Marking, Posting, NewPost, FindThread, BeginReply, BeginDelete, SaveReply, DeleteReply, Refresh, CountReplies,
           BeginToggle, BeginMark, SaveMark, Die
<1> QED
  BY <1>1, InitHolds, StepHolds, PTL DEF Spec, HiddenStays

\* A request on its way has been given a post once; one that has the application
\* to itself is the only one, and what it has loaded and counted still is so.
Knows(row) ==
  row.at \in {"deleting", "refreshing", "counting", "writing"} => row.post \in Posts /\ post[row.post].is # "none"
UpToDate(row) ==
  row.at \in {"counting", "writing"} /\ row.alone /\ HasPost(row.post) =>
    /\ row.loaded = post[row.post].count
    /\ row.at = "writing" => row.tally = Cardinality(RepliesOf(row.post))
Solitary(r) == req[r].at # "idle" /\ req[r].alone => \A s \in Requests \ {r} : req[s].at = "idle"

CountInv ==
  /\ IInv
  /\ \A r \in Requests : Knows(req[r]) /\ UpToDate(req[r]) /\ Solitary(r)

LEMMA InitCounts == Init => CountInv
<1> SUFFICES ASSUME Init PROVE CountInv
  OBVIOUS
<1>1. \A r \in Requests : req[r].at = "idle"
  BY DEF Init, Idle
<1> QED
  BY <1>1, InitHolds DEF CountInv, Knows, UpToDate, Solitary

\* No id of a post is given out twice, where they come from a sequence.
LEMMA InsertsNew ==
  ASSUME IInv, IsPostgres, NEW item, InsertPost(item), NEW p \in Posts, post[p].is # "none"
  PROVE  post'[p] = post[p]
<1>1. PICK q \in NextPost : post' = [post EXCEPT ![q] = [NoPostRow EXCEPT !.is = "there", !.item = item]]
  BY DEF InsertPost
<1>2. p < q
  BY <1>1 DEF NextPost, NextId
<1>3. q # p
  BY <1>2 DEF Posts
<1> QED
  BY <1>1, <1>3 DEF IInv, TypeOK

\* The table of posts may change under requests that are told of nothing.
LEMMA PostsMove ==
  ASSUME CountInv, IInv', req' = req,
         \A p \in Posts : post[p].is # "none" =>
           /\ post'[p].is # "none"
           /\ HasPost(p)' => HasPost(p) /\ post'[p].count = post[p].count /\ RepliesOf(p)' = RepliesOf(p)
  PROVE  CountInv'
<1> SUFFICES ASSUME NEW r \in Requests PROVE Knows(req[r])' /\ UpToDate(req[r])' /\ Solitary(r)'
  BY DEF CountInv
<1>1. Knows(req[r])'
  BY DEF CountInv, Knows
<1>2. UpToDate(req[r])'
  <2> SUFFICES ASSUME req[r].at \in {"counting", "writing"}, req[r].alone, HasPost(req[r].post)'
               PROVE  /\ req[r].loaded = post'[req[r].post].count
                      /\ req[r].at = "writing" => req[r].tally = Cardinality(RepliesOf(req[r].post))'
    BY DEF UpToDate
  <2>1. req[r].post \in Posts /\ post[req[r].post].is # "none"
    BY DEF CountInv, Knows
  <2> QED
    BY <2>1 DEF CountInv, UpToDate
<1> QED
  BY <1>1, <1>2 DEF CountInv, Solitary

\* A request begins: those under way no longer have the application alone.
LEMMA BeginCounts ==
  ASSUME CountInv, IInv', NEW r \in Requests, NEW started \in ReqRow,
         started.at \notin {"counting", "writing"}, Knows(started), Begin(r, started), UNCHANGED <<post, reply>>
  PROVE  CountInv'
<1>0. req \in [Requests -> ReqRow]
  BY DEF CountInv, IInv, TypeOK, ReqRow
<1> SUFFICES ASSUME NEW s \in Requests PROVE Knows(req[s])' /\ UpToDate(req[s])' /\ Solitary(s)'
  BY DEF CountInv
<1>1. \A q \in Requests \ {r} : /\ req'[q].at = req[q].at /\ req'[q].post = req[q].post
                                /\ req'[q].alone = (req[q].at = "idle")
  <2> SUFFICES ASSUME NEW q \in Requests \ {r}
               PROVE  req'[q].at = req[q].at /\ req'[q].post = req[q].post /\ req'[q].alone = (req[q].at = "idle")
    OBVIOUS
  <2>1. PICK b \in BOOLEAN : b = (req[q].at = "idle")
    OBVIOUS
  <2>2. req'[q] = [req[q] EXCEPT !.alone = b]
    BY <2>1 DEF Begin
  <2> QED
    BY <1>0, <2>1, <2>2 DEF ReqRow
<1>2. req'[r].at = started.at /\ req'[r].post = started.post /\ (req'[r].alone => \A q \in Requests \ {r} : req[q].at = "idle")
  <2>1. PICK b \in BOOLEAN : b = \A q \in Requests \ {r} : req[q].at = "idle"
    BY Zenon
  <2>2. req'[r] = [started EXCEPT !.alone = b]
    BY <2>1 DEF Begin
  <2>3. req'[r].at = started.at /\ req'[r].post = started.post /\ req'[r].alone = b
    BY <2>2 DEF ReqRow
  <2> QED
    BY <2>1, <2>3
<1>3. CASE s = r
  BY <1>1, <1>2, <1>3 DEF Knows, UpToDate, Solitary
<1>4. CASE s # r
  BY <1>1, <1>4 DEF CountInv, Knows, UpToDate, Solitary
<1> QED
  BY <1>3, <1>4

\* A request goes on: the others, if it had the application alone, are at rest.
LEMMA GoCounts ==
  ASSUME CountInv, IInv', NEW r \in Requests, req[r].at # "idle", NEW row \in ReqRow,
         req' = [req EXCEPT ![r] = row], Knows(row)', UpToDate(row)',
         row.at # "idle" => row.alone = req[r].alone,
         \A p \in Posts : post[p].is # "none" => post'[p].is # "none"
  PROVE  CountInv'
<1>0. req \in [Requests -> ReqRow]
  BY DEF CountInv, IInv, TypeOK, ReqRow
<1> SUFFICES ASSUME NEW s \in Requests PROVE Knows(req[s])' /\ UpToDate(req[s])' /\ Solitary(s)'
  BY DEF CountInv
<1>1. CASE s = r
  <2>1. req'[s] = row
    BY <1>0, <1>1
  <2>2. Knows(req[s])' /\ UpToDate(req[s])'
    BY <2>1
  <2>3. Solitary(s)'
    BY <1>0, <1>1, <2>1 DEF CountInv, Solitary
  <2> QED
    BY <2>2, <2>3
<1>2. CASE s # r
  <2>1. req'[s] = req[s] /\ (req[s].at # "idle" => ~req[s].alone)
    BY <1>0, <1>2 DEF CountInv, Solitary
  <2> QED
    BY <2>1 DEF CountInv, Knows, UpToDate, Solitary
<1> QED
  BY <1>1, <1>2

\* What one request does, whatever it is.
LEMMA RequestCounts ==
  ASSUME CountInv, IInv', IsPostgres, NEW r \in Requests, Step(r)
  PROVE  CountInv'
<1>0. /\ req \in [Requests -> ReqRow] /\ req[r] \in ReqRow
      /\ post \in [Posts -> PostRow]
  BY DEF CountInv, IInv, TypeOK, ReqRow, PostRow
<1>1. ASSUME NEW started \in ReqRow, started.at \notin {"counting", "writing"}, Knows(started),
             Begin(r, started), UNCHANGED <<post, reply>>
      PROVE  CountInv'
  BY <1>1, BeginCounts
<1>2. CASE \E i \in Items : FindThread(r, i)
  <2>1. PICK i \in Items : FindThread(r, i)
    BY <1>2
  <2>2. [Idle EXCEPT !.at = "opening", !.item = i] \in ReqRow
    BY DEF Idle, ReqRow, Places, NoReply
  <2>3. [Idle EXCEPT !.at = "opening", !.item = i].at = "opening"
    BY DEF Idle
  <2> QED
    BY <1>1, <2>1, <2>2, <2>3 DEF FindThread, Knows
<1>3. ASSUME NEW at \in Places, NEW n \in Nat, NEW x \in Replies \union {NoReply}, NEW flag \in BOOLEAN,
             at \notin {"refreshing", "counting", "writing"},
             at = "deleting" => x # NoReply /\ n \in Posts /\ post[n].is # "none",
             Begin(r, About(at, n, x, flag)), UNCHANGED <<post, reply>>
      PROVE  CountInv'
  <2>1. /\ About(at, n, x, flag) \in ReqRow
        /\ About(at, n, x, flag).at = at /\ About(at, n, x, flag).post = n
    BY <1>3, StartIsRow DEF Idle, About
  <2> QED
    BY <1>1, <1>3, <2>1 DEF Knows
<1>4. CASE \/ \E p \in Posts : \E parent \in Replies \union {NoReply}, moderator \in BOOLEAN :
                BeginReply(r, p, parent, moderator)
           \/ \E x \in Replies : BeginDelete(r, x)
  <2>1. ASSUME NEW p \in Posts, NEW parent \in Replies \union {NoReply}, NEW moderator \in BOOLEAN,
               BeginReply(r, p, parent, moderator)
        PROVE  CountInv'
    BY <1>3, <2>1, IdsAreNat DEF BeginReply, Places
  <2>2. ASSUME NEW x \in Replies, BeginDelete(r, x) PROVE CountInv'
    <3>1. HasPost(reply[x].post)
      BY <2>2 DEF BeginDelete, CountInv, IInv, ThreadShape
    <3>2. reply[x].post \in Nat /\ reply[x].post \in Posts /\ post[reply[x].post].is # "none" /\ x # NoReply
      <4>1. x # NoReply
        BY ThreadAssumption DEF Replies, NoReply
      <4> QED
        BY <3>1, <4>1, IdsAreNat DEF HasPost
    <3> QED
      BY <1>3, <2>2, <3>2 DEF BeginDelete, Places
  <2> QED
    BY <1>4, <2>1, <2>2
<1>5. CASE \/ \E p \in Posts, switch \in Switches : BeginToggle(r, p, switch)
           \/ \E table \in Markable, n \in Posts \union Replies : BeginMark(r, table, n)
  <2>1. ASSUME NEW p \in Posts, NEW switch \in Switches, BeginToggle(r, p, switch) PROVE CountInv'
    <3>1. p \in Nat /\ (switch \in post[p].on) \in BOOLEAN
      BY IdsAreNat
    <3> QED
      BY <1>3, <2>1, <3>1, IdsAreNat, ThreadAssumption DEF BeginToggle, Places
  <2>2. ASSUME NEW table \in Markable, NEW n \in Posts \union Replies, BeginMark(r, table, n) PROVE CountInv'
    BY <1>3, <2>2, IdsAreNat, ThreadAssumption DEF BeginMark, Places
  <2> QED
    BY <1>5, <2>1, <2>2
<1>6. ASSUME End(r), req[r].at # "idle", \A p \in Posts : post[p].is # "none" => post'[p].is # "none"
      PROVE  CountInv'
  <2>1. Idle \in ReqRow /\ Knows(Idle)' /\ UpToDate(Idle)' /\ Idle.at = "idle"
    BY IdleIsRow DEF Knows, UpToDate, Idle
  <2> QED
    BY <1>6, <2>1, GoCounts DEF End
<1>7. CASE OpenThread(r) \/ SaveMark(r) \/ Die(r) \/ SaveToggle(r) \/ WriteCount(r)
  <2>1. End(r) /\ req[r].at # "idle"
    BY <1>7, ThreadAssumption DEF OpenThread, SaveMark, Die, SaveToggle, WriteCount
  <2>2. ASSUME NEW p \in Posts, post[p].is # "none" PROVE post'[p].is # "none"
    <3>1. CASE OpenThread(r)
      BY <2>2, <3>1, InsertsNew DEF OpenThread, CountInv
    <3>2. CASE SaveToggle(r) \/ WriteCount(r)
      BY <1>0, <2>2, <3>2 DEF SaveToggle, WriteCount, PostRow
    <3>3. CASE SaveMark(r) \/ Die(r)
      BY <2>2, <3>3 DEF SaveMark, Die
    <3> QED
      BY <1>7, <3>1, <3>2, <3>3
  <2> QED
    BY <1>6, <2>1, <2>2
<1>8. CASE SaveReply(r) \/ DeleteReply(r)
  <2>1. CASE End(r)
    BY <1>6, <1>8, <2>1 DEF SaveReply, DeleteReply
  <2>2. CASE ToRefresh(r)
    <3>1. PICK row : row = [req[r] EXCEPT !.at = "refreshing", !.reply = NoReply]
      OBVIOUS
    <3>2. /\ row \in ReqRow /\ row.at = "refreshing" /\ row.post = req[r].post /\ row.alone = req[r].alone
      BY <1>0, <3>1 DEF ReqRow, Places
    <3>3. req' = [req EXCEPT ![r] = row] /\ post' = post /\ req[r].at # "idle"
      BY <1>0, <1>8, <2>2, <3>1 DEF ToRefresh, SaveReply, DeleteReply
    <3>4. Knows(row)' /\ UpToDate(row)'
      <4>1. req[r].post \in Posts /\ post[req[r].post].is # "none"
        <5>1. CASE SaveReply(r)
          <6>1. HasPost(req[r].post) \/ req'[r] = Idle
            BY <1>0, <5>1 DEF SaveReply, End
          <6>2. req'[r].at = "refreshing" /\ Idle.at = "idle"
            BY <1>0, <3>2, <3>3 DEF Idle
          <6> QED
            BY <6>1, <6>2 DEF HasPost
        <5>2. CASE DeleteReply(r)
          BY <5>2 DEF DeleteReply, CountInv, Knows
        <5> QED
          BY <1>8, <5>1, <5>2
      <4> QED
        BY <3>2, <3>3, <4>1 DEF Knows, UpToDate
    <3> QED
      BY <3>2, <3>3, <3>4, GoCounts
  <2> QED
    BY <1>8, <2>1, <2>2 DEF SaveReply, DeleteReply
<1>9. CASE Refresh(r)
  <2>1. CASE HasPost(req[r].post)
    <3>1. PICK row : row = [req[r] EXCEPT !.at = "counting", !.loaded = post[req[r].post].count]
      OBVIOUS
    <3>2. post[req[r].post].count \in Nat
      BY <1>0, <2>1 DEF HasPost, PostRow
    <3>3. /\ row \in ReqRow /\ row.at = "counting" /\ row.post = req[r].post /\ row.alone = req[r].alone
          /\ row.loaded = post[req[r].post].count
      BY <1>0, <3>1, <3>2 DEF ReqRow, Places
    <3>4. req' = [req EXCEPT ![r] = row] /\ post' = post /\ reply' = reply /\ req[r].at # "idle"
      BY <1>0, <1>9, <2>1, <3>1 DEF Refresh
    <3>5. Knows(row)' /\ UpToDate(row)'
      BY <2>1, <3>3, <3>4 DEF Knows, UpToDate, HasPost
    <3> QED
      BY <3>3, <3>4, <3>5, GoCounts
  <2>2. CASE ~HasPost(req[r].post)
    BY <1>6, <1>9, <2>2 DEF Refresh, End
  <2> QED
    BY <2>1, <2>2
<1>10. CASE CountReplies(r)
  <2>1. PICK row : row = [req[r] EXCEPT !.at = "writing", !.tally = Cardinality(RepliesOf(req[r].post))]
    OBVIOUS
  <2>2. /\ row \in ReqRow /\ row.at = "writing" /\ row.post = req[r].post /\ row.alone = req[r].alone
        /\ row.loaded = req[r].loaded /\ row.tally = Cardinality(RepliesOf(req[r].post))
    BY <1>0, <2>1, CountIsNat DEF ReqRow, Places
  <2>3. req' = [req EXCEPT ![r] = row] /\ post' = post /\ reply' = reply /\ req[r].at = "counting"
    BY <1>0, <1>10, <2>1 DEF CountReplies
  <2>4. Knows(row)'
    BY <2>2, <2>3 DEF Knows, CountInv
  <2>5. UpToDate(row)'
    <3>1. RepliesOf(req[r].post)' = RepliesOf(row.post) /\ HasPost(row.post)' = HasPost(row.post)
      BY <2>2, <2>3 DEF RepliesOf, HasReply, HasPost
    <3> QED
      BY <2>2, <2>3, <3>1 DEF UpToDate, CountInv, RepliesOf, HasReply, HasPost
  <2> QED
    BY <2>2, <2>3, <2>4, <2>5, GoCounts
<1> QED
  BY <1>2, <1>4, <1>5, <1>7, <1>8, <1>9, <1>10 DEF Step, Opening, Replying, Moderating, Marking, Posting

\* A count that overlapping requests left wrong is put right by the next one that
\* runs alone, for any number of posts, replies and requests, where ids come from
\* a sequence (recount_replies).
THEOREM CountsHeal == ASSUME IsPostgres PROVE Spec => RecountHeals
<1> DEFINE Heals == \A r \in Requests :
      WriteCount(r) /\ req[r].alone /\ HasPost(req[r].post) =>
        post'[req[r].post].count = Cardinality(RepliesOf(req[r].post))
<1>1. CountInv /\ [Next]_vars => CountInv'
  <2> SUFFICES ASSUME CountInv, [Next]_vars PROVE CountInv'
    OBVIOUS
  <2>0. IInv' /\ post \in [Posts -> PostRow]
    BY StepHolds DEF CountInv, IInv, TypeOK, PostRow
  <2>1. CASE UNCHANGED vars
    <3>1. \A p \in Posts : RepliesOf(p)' = RepliesOf(p) /\ HasPost(p)' = HasPost(p)
      BY <2>1 DEF vars, RepliesOf, HasReply, HasPost
    <3> QED
      BY <2>0, <2>1, <3>1, PostsMove DEF vars
  <2>2. CASE NewPost
    <3>1. \A p \in Posts : post[p].is # "none" => post'[p] = post[p]
      BY <2>2, InsertsNew DEF NewPost, CountInv
    <3>2. \A p \in Posts : RepliesOf(p)' = RepliesOf(p)
      BY <2>2 DEF NewPost, RepliesOf, HasReply
    <3> QED
      BY <2>0, <2>2, <3>1, <3>2, PostsMove DEF NewPost, HasPost
  <2>3. ASSUME NEW q \in Posts, DeletePost(q) PROVE CountInv'
    <3>1. ASSUME NEW p \in Posts, post[p].is # "none"
          PROVE  /\ post'[p].is # "none"
                 /\ HasPost(p)' => HasPost(p) /\ post'[p].count = post[p].count /\ RepliesOf(p)' = RepliesOf(p)
      <4>1. CASE p = q
        BY <2>0, <2>3, <4>1 DEF DeletePost, HasPost, NoPostRow
      <4>2. CASE p # q
        <5>1. post'[p] = post[p]
          BY <2>0, <2>3, <4>2 DEF DeletePost
        <5>2. \A x \in Replies : /\ x \in RepliesOf(q) => ~HasReply(x)' /\ x \notin RepliesOf(p)
                                 /\ x \notin RepliesOf(q) => reply'[x] = reply[x]
          BY <2>3, <4>2 DEF DeletePost, RepliesOf, HasReply, NoReplyRow
        <5>3. RepliesOf(p)' = RepliesOf(p)
          BY <5>2 DEF RepliesOf, HasReply
        <5> QED
          BY <3>1, <5>1, <5>3 DEF HasPost
      <4> QED
        BY <4>1, <4>2
    <3> QED
      BY <2>0, <2>3, <3>1, PostsMove DEF DeletePost
  <2>4. ASSUME NEW i \in Items, DeleteItem(i) PROVE CountInv'
    <3>1. \A p \in Posts : post'[p].is = post[p].is /\ post'[p].count = post[p].count
      BY <2>0, <2>4 DEF DeleteItem, PostRow
    <3>2. \A p \in Posts : RepliesOf(p)' = RepliesOf(p)
      BY <2>4 DEF DeleteItem, RepliesOf, HasReply
    <3> QED
      BY <2>0, <2>4, <3>1, <3>2, PostsMove DEF DeleteItem, HasPost
  <2>5. ASSUME NEW r \in Requests, Step(r) PROVE CountInv'
    BY <2>0, <2>5, RequestCounts
  <2> QED
    BY <2>1, <2>2, <2>3, <2>4, <2>5 DEF Next, Posting
<1>2. CountInv /\ [Next]_vars => [Heals]_vars
  <2> SUFFICES ASSUME CountInv, NEW r \in Requests, WriteCount(r), req[r].alone, HasPost(req[r].post)
               PROVE  post'[req[r].post].count = Cardinality(RepliesOf(req[r].post))
    OBVIOUS
  <2>1. req[r].loaded = post[req[r].post].count /\ req[r].tally = Cardinality(RepliesOf(req[r].post))
    BY DEF CountInv, UpToDate, WriteCount
  <2>2. post \in [Posts -> PostRow] /\ req[r].post \in Posts
    BY DEF CountInv, IInv, TypeOK, PostRow, HasPost
  <2> QED
    BY <2>1, <2>2 DEF WriteCount, PostRow
<1> QED
  BY <1>1, <1>2, InitCounts, PTL DEF Spec, RecountHeals
=============================================================================
