------------------------------ MODULE Notices -------------------------------
(***************************************************************************)
(* Who is told of a reply (platform/notify.py, models/notification.py,     *)
(* controllers/notifications.py, follows of models/discussion.py).  The    *)
(* request that saved the reply writes one notice after another, each in   *)
(* a commit of its own and its mail job in another; the jobs run later.    *)
(***************************************************************************)
EXTENDS Naturals

CONSTANTS
  People,       \* members of the organization
  PostAuthor,   \* who wrote the post
  Replies,      \* replies that may be saved to it
  NoOne,        \* nobody
  MailAttempts  \* Job.MAX_ATTEMPTS of a mail job

VARIABLES
  following,    \* who follows the post
  fan,          \* fan[r]: where the request that saved r is with telling people
  notice,       \* notice[r][p]: what p has been told of r
  mailjob       \* mailjob[r][p]: the job about it

noticing == <<following, fan, notice, mailjob>>

Silent == [rows |-> 0, read |-> FALSE, emailed |-> FALSE, mails |-> 0, lost |-> 0]
NoMail == [at |-> "none", attempts |-> 0]
Unsaved == [at |-> "unsaved", by |-> NoOne, todo |-> {}, parent |-> NoOne, notified |-> {}, queue |-> NoOne]

NoticesInit ==
  /\ following = {PostAuthor}
  /\ fan = [r \in Replies |-> Unsaved]
  /\ notice = [r \in Replies |-> [p \in People |-> Silent]]
  /\ mailjob = [r \in Replies |-> [p \in People |-> NoMail]]

\* follow: one row a person.
ToggleFollow(p) ==
  /\ following' = IF p \in following THEN following \ {p} ELSE following \union {p}
  /\ UNCHANGED <<fan, notice, mailjob>>

\* reply: saved, its writer follows the post, then notify_reply_created: the
\* mentioned first.
SaveReply(r, actor, parent, mentioned) ==
  /\ fan[r].at = "unsaved"
  /\ following' = following \union {actor}
  /\ fan' = [fan EXCEPT ![r] = [Unsaved EXCEPT !.at = "mentions", !.by = actor, !.todo = mentioned,
                                               !.parent = parent, !.notified = {actor}]]
  /\ UNCHANGED <<notice, mailjob>>

\* Then the author of the parent and of the post, then who follows it by then.
NextRecipients(r) ==
  /\ fan[r].todo = {} /\ fan[r].queue = NoOne
  /\ \/ /\ fan[r].at = "mentions"
        /\ fan' = [fan EXCEPT ![r].at = "authors", ![r].todo = {fan[r].parent, PostAuthor} \ {NoOne}]
     \/ /\ fan[r].at = "authors"
        /\ fan' = [fan EXCEPT ![r].at = "followers", ![r].todo = following]
     \/ /\ fan[r].at = "followers"
        /\ fan' = [fan EXCEPT ![r].at = "told"]
  /\ UNCHANGED <<following, notice, mailjob>>

\* Fault: only the writer is passed over.
PassOverWriter(r, p) == p # fan[r].by

\* send: one notice a person, none to the writer.
MayTell(r, p) == p \notin fan[r].notified

Tell(r, p, configured) ==
  /\ p \in fan[r].todo /\ fan[r].queue = NoOne
  /\ IF MayTell(r, p)
     THEN /\ notice' = [notice EXCEPT ![r][p].rows = @ + 1]
          /\ fan' = [fan EXCEPT ![r].todo = @ \ {p}, ![r].notified = @ \union {p},
                                ![r].queue = IF configured THEN p ELSE NoOne]
     ELSE fan' = [fan EXCEPT ![r].todo = @ \ {p}] /\ UNCHANGED notice
  /\ UNCHANGED <<following, mailjob>>

\* notify: where email is configured, a job once the notice is committed.
EnqueueMail(r) ==
  LET p == fan[r].queue
  IN /\ p # NoOne
     /\ mailjob' = [mailjob EXCEPT ![r][p] = [at |-> "queued", attempts |-> 0]]
     /\ fan' = [fan EXCEPT ![r].queue = NoOne]
     /\ UNCHANGED <<following, notice>>

\* A failed commit or the end of the process: the others are never told.
StopTelling(r) ==
  /\ fan[r].at \notin {"unsaved", "told"}
  /\ fan' = [fan EXCEPT ![r].at = "told", ![r].todo = {}, ![r].queue = NoOne]
  /\ UNCHANGED <<following, notice, mailjob>>

\* mark_read, mark_all_read.
MarkRead(r, p) ==
  /\ notice[r][p].rows > 0 /\ ~notice[r][p].read
  /\ notice' = [notice EXCEPT ![r][p].read = TRUE]
  /\ UNCHANGED <<following, fan, mailjob>>

MarkAllRead(p) ==
  /\ notice' = [r \in Replies |-> [notice[r] EXCEPT ![p].read = @ \/ notice[r][p].rows > 0]]
  /\ UNCHANGED <<following, fan, mailjob>>

-----------------------------------------------------------------------------
(* The mail job *)

MailAt(r, p, place) == mailjob' = [mailjob EXCEPT ![r][p].at = place]

\* deliver_notification_email: not what was read or mailed, nor to whom mail no
\* longer can be sent (it was switched off, he is inactive or has no address).  A
\* job has one runner at a time, as the queue grants a handler that is prompt.
Wanted(r, p) == ~notice[r][p].read /\ ~notice[r][p].emailed

StartMail(r, p, able) ==
  /\ mailjob[r][p].at = "queued"
  /\ mailjob' = [mailjob EXCEPT ![r][p] = [at |-> IF able /\ Wanted(r, p) THEN "sending" ELSE "done",
                                           attempts |-> @.attempts + 1]]
  /\ UNCHANGED <<following, fan, notice>>

SendNotice(r, p) ==
  /\ mailjob[r][p].at = "sending"
  /\ notice' = [notice EXCEPT ![r][p].mails = @ + 1]
  /\ MailAt(r, p, "sent")
  /\ UNCHANGED <<following, fan>>

MarkMailed(r, p) ==
  /\ mailjob[r][p].at = "sent"
  /\ notice' = [notice EXCEPT ![r][p].emailed = TRUE]
  /\ MailAt(r, p, "marked")
  /\ UNCHANGED <<following, fan>>

\* The queue's verdict is a commit after the handler's own.
FinishMail(r, p) ==
  /\ mailjob[r][p].at = "marked"
  /\ MailAt(r, p, "done")
  /\ UNCHANGED <<following, fan, notice>>

\* An exception or a crash: the queue runs it again while it has attempts.
FailMail(r, p) ==
  /\ mailjob[r][p].at \in {"sending", "sent", "marked"}
  /\ notice' = [notice EXCEPT ![r][p].lost = IF mailjob[r][p].at = "sent" THEN @ + 1 ELSE @]
  /\ MailAt(r, p, IF mailjob[r][p].attempts < MailAttempts THEN "queued" ELSE "failed")
  /\ UNCHANGED <<following, fan>>

Telling(parents, mentions, settings) ==
  \/ \E p \in People : ToggleFollow(p)
  \/ \E r \in Replies :
       \/ NextRecipients(r) \/ StopTelling(r)
       \/ \E actor \in People, parent \in parents, mentioned \in mentions : SaveReply(r, actor, parent, mentioned)
       \/ \E p \in People, configured \in settings : Tell(r, p, configured)

Mailing ==
  \/ \E p \in People : MarkAllRead(p)
  \/ \E r \in Replies :
       \/ EnqueueMail(r)
       \/ \E p \in People, able \in BOOLEAN : StartMail(r, p, able)
       \/ \E p \in People : \/ MarkRead(r, p) \/ SendNotice(r, p)
                            \/ MarkMailed(r, p) \/ FinishMail(r, p) \/ FailMail(r, p)

NoticesNext == Telling(People \union {NoOne}, SUBSET People, BOOLEAN) \/ Mailing
NoticesSpec == NoticesInit /\ [][NoticesNext]_noticing

-----------------------------------------------------------------------------
(* Properties *)

\* Nobody hears of one reply twice, whatever ways he is entitled to hear of it
\* and whoever begins to follow meanwhile, its writer never; by mail once, and
\* once more for each run that died between the message and its mark.
HeardOnce ==
  \A r \in Replies, p \in People :
    /\ notice[r][p].rows <= IF p = fan[r].by THEN 0 ELSE 1
    /\ notice[r][p].mails <= notice[r][p].rows + notice[r][p].lost
=============================================================================
