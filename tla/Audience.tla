------------------------------ MODULE Audience ------------------------------
(***************************************************************************)
(* One address and a newsletter (Subscriber of app/models/newsletter.py,   *)
(* controllers/newsletter.py, the subscriber routes of manage.py, the      *)
(* confirmation mail of platform/newsletter.py).  A request reads the row, *)
(* and writes what it changed of what it read.                             *)
(***************************************************************************)
EXTENDS Naturals

CONSTANTS
  Posts         \* requests that may be under way at the same time

VARIABLES
  subscriber,   \* the row of the address: its status, "none" when there is none
  invited,      \* a confirmation was mailed since the row was written
  asking,       \* asking[c]: what request c is about, and the status it has read
  left          \* the address unsubscribed and did not subscribe again (history)

listing == <<subscriber, invited, asking, left>>

Silence == [at |-> "idle", seen |-> "none", to |-> "none", alone |-> TRUE]

AudienceInit ==
  /\ subscriber = "none" /\ invited = FALSE /\ left = FALSE
  /\ asking = [c \in Posts |-> Silence]

Ask(c, started) ==
  /\ asking[c].at = "idle"
  /\ asking' = [b \in Posts |->
       IF b = c THEN [started EXCEPT !.alone = \A q \in Posts \ {c} : asking[q].at = "idle"]
                ELSE [asking[b] EXCEPT !.alone = asking[b].at = "idle"]]
  /\ UNCHANGED <<subscriber, invited, left>>
Answered(c) == asking' = [asking EXCEPT ![c] = Silence]

\* subscribe: pending where a confirmation can be mailed; a manager's adding
\* never is. Whoever is subscribed stays so.
BeginSubscribe(c, confirmed) ==
  Ask(c, [Silence EXCEPT !.at = "subscribe", !.seen = subscriber,
            !.to = IF subscriber = "subscribed" THEN "subscribed"
                   ELSE IF confirmed THEN "pending" ELSE "subscribed"])

\* Fault: a link that was followed subscribes.
ConfirmsAll(seen) == seen # "none"

\* confirm: only who is pending.
Confirms(seen) == seen = "pending"

\* The token is of the row, and it was mailed: a link is good for the row's life.
BeginConfirm(c) ==
  /\ invited /\ subscriber # "none"
  /\ Ask(c, [Silence EXCEPT !.at = "confirm", !.seen = subscriber,
               !.to = IF Confirms(subscriber) THEN "subscribed" ELSE subscriber])

BeginUnsubscribe(c) ==
  /\ subscriber # "none"
  /\ Ask(c, [Silence EXCEPT !.at = "unsubscribe", !.seen = subscriber, !.to = "unsubscribed"])

BeginRemove(c) ==
  /\ subscriber # "none"
  /\ Ask(c, [Silence EXCEPT !.at = "remove", !.seen = subscriber])

\* save: the insert fails on a row that is there by then, the update on one
\* that is gone (Refuse); a status that is not changed is not written.
SaveSubscriber(c) ==
  LET q == asking[c]
  IN /\ q.at \in {"subscribe", "confirm", "unsubscribe"}
     /\ (subscriber = "none") = (q.seen = "none")
     /\ subscriber' = IF q.seen = q.to THEN subscriber ELSE q.to
     /\ left' = CASE q.at = "unsubscribe" -> TRUE
                  [] q.at = "subscribe" -> FALSE
                  [] OTHER -> left
     /\ Answered(c)
     /\ UNCHANGED invited

RemoveSubscriber(c) ==
  /\ asking[c].at = "remove"
  /\ subscriber' = "none" /\ invited' = FALSE /\ left' = FALSE
  /\ Answered(c)

Refuse(c) ==
  /\ asking[c].at # "idle"
  /\ Answered(c)
  /\ UNCHANGED <<subscriber, invited, left>>

\* send_confirmation: a job of its own, sent while the row is pending.
MailConfirmation ==
  /\ subscriber = "pending"
  /\ invited' = TRUE
  /\ UNCHANGED <<subscriber, asking, left>>

AudienceNext ==
  \/ \E c \in Posts :
       \/ SaveSubscriber(c) \/ RemoveSubscriber(c) \/ Refuse(c)
       \/ BeginConfirm(c) \/ BeginUnsubscribe(c) \/ BeginRemove(c)
       \/ \E confirmed \in BOOLEAN : BeginSubscribe(c, confirmed)
  \/ MailConfirmation

AudienceSpec == AudienceInit /\ [][AudienceNext]_listing

-----------------------------------------------------------------------------
(* Properties *)

\* Who unsubscribed is out of the audience until somebody subscribes the address
\* again, whatever links are followed afterwards, for requests that do not
\* overlap: one that read the row before would write what it made of it.
UnsubscribeStands ==
  [][(/\ left => subscriber = "unsubscribed"
      /\ \A c \in Posts : asking[c].at # "idle" => asking[c].alone)
     => (left => subscriber = "unsubscribed")']_listing
=============================================================================
