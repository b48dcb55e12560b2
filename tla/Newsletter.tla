----------------------------- MODULE Newsletter -----------------------------
(***************************************************************************)
(* Sending newsletters (app/platform/newsletter.py, models/newsletter.py,  *)
(* the newsletter part of controllers/manage.py) over the job lease: a     *)
(* request writes the delivery, its recipients and the job in three        *)
(* commits; workers run the handler, which commits after each recipient.   *)
(***************************************************************************)
EXTENDS JobLease, Naturals, FiniteSets

CONSTANTS
  Subs,         \* subscriber rows of the organization
  Deliveries,   \* delivery rows, each of its own content item
  Nobody,       \* "no recipient in hand"
  NoDelivery,   \* "no payload yet"
  BatchLimit,   \* BATCH_LIMIT
  MaxAttempts,  \* Job.max_attempts
  MaxFaults     \* bound on crashes, lost commits and failed reads

ASSUME NewsletterAssumption ==
  /\ NoWorker \notin Workers
  /\ Nobody \notin Subs
  /\ NoDelivery \notin Deliveries
  /\ BatchLimit \in Nat \ {0}
  /\ MaxAttempts \in Nat \ {0}
  /\ MaxFaults \in Nat

VARIABLES
  about,        \* about[j]: the delivery in the payload of job j
  attempts,     \* attempts[j]
  sub,          \* sub[s]: "in" (subscribed), "out" (not), "gone" (row deleted)
  delivery,     \* delivery[d]: its status
  rows,         \* rows[d]: the subscribers that have a recipient row
  sent,         \* sent[d]: rows with sent_at
  failed,       \* failed[d]: rows with an error
  web,          \* web[d]: the request that sends d, and what it has committed
  snapshot,     \* snapshot[d]: the audience that request has in memory
  step,         \* step[w]: where worker w is in the handler
  seen,         \* seen[w]: the delivery's status as read, until it is written
  batch,        \* batch[w]: the unsent rows it selected and has yet to reach
  hand,         \* hand[w]: the recipient it is mailing
  configured,   \* an email provider is set up
  mails,        \* mails[d][s]: messages that left the building
  faults        \* faults so far

jobVars  == <<phase, holder, about, attempts>>
rowVars  == <<delivery, rows, sent, failed>>
webVars  == <<web, snapshot>>
handlerVars == <<step, seen, batch, hand>>
outside  == <<sub, configured, mails, faults>>

vars == <<jobVars, rowVars, webVars, handlerVars, outside>>

Unsent(d) == rows[d] \ (sent[d] \union failed[d])

Audience == {s \in Subs : sub[s] = "in"}

\* The job worker w is running, and the delivery it is about.
Running(w) == CHOOSE j \in JobIds : holder[j] = w
Current(w) == about[Running(w)]

Init ==
  /\ LeaseInit
  /\ about = [j \in JobIds |-> NoDelivery]
  /\ attempts = [j \in JobIds |-> 0]
  /\ sub \in [Subs -> {"in", "out"}]
  /\ delivery = [d \in Deliveries |-> "none"]
  /\ rows = [d \in Deliveries |-> {}]
  /\ sent = [d \in Deliveries |-> {}]
  /\ failed = [d \in Deliveries |-> {}]
  /\ web = [d \in Deliveries |-> "idle"]
  /\ snapshot = [d \in Deliveries |-> {}]
  /\ step = [w \in Workers |-> "idle"]
  /\ seen = [w \in Workers |-> "none"]
  /\ batch = [w \in Workers |-> {}]
  /\ hand = [w \in Workers |-> Nobody]
  /\ configured \in BOOLEAN
  /\ mails = [d \in Deliveries |-> [s \in Subs |-> 0]]
  /\ faults = 0

Enqueue(d) ==
  \E j \in JobIds : Book(j) /\ about' = [about EXCEPT ![j] = d]

-----------------------------------------------------------------------------
(* The request: manage.send_content_newsletter *)

\* Guards, then create_for_content up to its first commit.
CreateDelivery(d) ==
  /\ web[d] = "idle"
  /\ configured
  /\ Audience # {}
  /\ snapshot' = [snapshot EXCEPT ![d] = Audience]
  /\ delivery' = [delivery EXCEPT ![d] = "pending"]
  /\ web' = [web EXCEPT ![d] = "created"]
  /\ UNCHANGED <<jobVars, rows, sent, failed, handlerVars, outside>>

\* Its second commit. A subscriber removed since, or the content deleted,
\* breaks a foreign key and the request ends there.
AddRecipients(d) ==
  /\ web[d] = "created"
  /\ IF delivery[d] = "pending" /\ \A s \in snapshot[d] : sub[s] # "gone"
       THEN /\ rows' = [rows EXCEPT ![d] = snapshot[d]]
            /\ web' = [web EXCEPT ![d] = "filled"]
       ELSE /\ web' = [web EXCEPT ![d] = "ended"]
            /\ UNCHANGED rows
  /\ snapshot' = [snapshot EXCEPT ![d] = {}]
  /\ UNCHANGED <<jobVars, delivery, sent, failed, handlerVars, outside>>

QueueDelivery(d) ==
  /\ web[d] = "filled"
  /\ IF delivery[d] = "deleted"
       THEN UNCHANGED <<phase, holder, about>>
       ELSE Enqueue(d)
  /\ web' = [web EXCEPT ![d] = "ended"]
  /\ UNCHANGED <<attempts, rowVars, snapshot, handlerVars, outside>>

\* The web process dies, or a commit of the request fails.
RequestDies(d) ==
  /\ web[d] \in {"created", "filled"}
  /\ faults < MaxFaults
  /\ faults' = faults + 1
  /\ web' = [web EXCEPT ![d] = "ended"]
  /\ snapshot' = [snapshot EXCEPT ![d] = {}]
  /\ UNCHANGED <<jobVars, rowVars, handlerVars, sub, configured, mails>>

-----------------------------------------------------------------------------
(* The handler: send_delivery, run by a worker that holds the job *)

GoTo(w, place) == step' = [step EXCEPT ![w] = place]

\* The worker puts the job down, whatever the verdict.
PutDown(w) ==
  /\ GoTo(w, "idle")
  /\ seen' = [seen EXCEPT ![w] = "none"]
  /\ batch' = [batch EXCEPT ![w] = {}]
  /\ hand' = [hand EXCEPT ![w] = Nobody]

Verdict(w, p) ==
  /\ Decide(w, Running(w))
  /\ phase'[Running(w)] = p
  /\ PutDown(w)
  /\ UNCHANGED <<about, attempts>>

\* The handler raised: tried again, unless that was the last attempt.
Raises(w) ==
  Verdict(w, IF attempts[Running(w)] >= MaxAttempts THEN "failed" ELSE "pending")

Claim(w, j) ==
  /\ step[w] = "idle"
  /\ Take(w, j)
  /\ attempts' = [attempts EXCEPT ![j] = @ + 1]
  /\ GoTo(w, "read")
  /\ UNCHANGED <<about, rowVars, webVars, seen, batch, hand, outside>>

\* The delivery is read; one that is gone or done needs nothing, and one
\* that cannot be mailed is marked failed.
ReadDelivery(w) ==
  /\ step[w] = "read"
  /\ IF delivery[Current(w)] \in {"deleted", "done"}
       THEN GoTo(w, "return") /\ UNCHANGED delivery
       ELSE IF configured
         THEN GoTo(w, "begin") /\ UNCHANGED delivery
         ELSE /\ delivery' = [delivery EXCEPT ![Current(w)] = "failed"]
              /\ GoTo(w, "return")
  /\ seen' = [seen EXCEPT ![w] = delivery[Current(w)]]
  /\ UNCHANGED <<jobVars, rows, sent, failed, webVars, batch, hand, outside>>

\* A delivery whose content has been deleted under the handler: its row went
\* with it, so the next write or refresh of it raises.
RaisesIfDeleted(w) ==
  /\ delivery[Current(w)] = "deleted"
  /\ Raises(w)
  /\ UNCHANGED <<rowVars, webVars, outside>>

\* status = 'sending': no UPDATE when that is what was read.
BeginSending(w) ==
  /\ step[w] = "begin"
  /\ \/ /\ seen[w] = "sending"
        /\ GoTo(w, "select")
        /\ seen' = [seen EXCEPT ![w] = "none"]
        /\ UNCHANGED <<jobVars, rowVars, webVars, batch, hand, outside>>
     \/ /\ seen[w] # "sending"
        /\ RaisesIfDeleted(w)
     \/ /\ seen[w] # "sending"
        /\ delivery[Current(w)] # "deleted"
        /\ delivery' = [delivery EXCEPT ![Current(w)] = "sending"]
        /\ GoTo(w, "select")
        /\ seen' = [seen EXCEPT ![w] = "none"]
        /\ UNCHANGED <<jobVars, rows, sent, failed, webVars, batch, hand, outside>>

\* Fault: the select does not ask what has been sent.
SelectFromAll(w) ==
  /\ step[w] = "select"
  /\ \/ RaisesIfDeleted(w)
     \/ /\ delivery[Current(w)] # "deleted"
        /\ \E B \in SUBSET rows[Current(w)] :
             /\ \/ Cardinality(B) = BatchLimit
                \/ Cardinality(B) < BatchLimit /\ B = rows[Current(w)]
             /\ batch' = [batch EXCEPT ![w] = B]
        /\ GoTo(w, "first")
        /\ UNCHANGED <<jobVars, rowVars, webVars, seen, hand, outside>>

\* At most BATCH_LIMIT of the rows not yet marked, in no order.
SelectBatch(w) ==
  /\ step[w] = "select"
  /\ \/ RaisesIfDeleted(w)
     \/ /\ delivery[Current(w)] # "deleted"
        /\ \E B \in SUBSET Unsent(Current(w)) :
             /\ \/ Cardinality(B) = BatchLimit
                \/ Cardinality(B) < BatchLimit /\ B = Unsent(Current(w))
             /\ batch' = [batch EXCEPT ![w] = B]
        /\ GoTo(w, "first")
        /\ UNCHANGED <<jobVars, rowVars, webVars, seen, hand, outside>>

\* The first row of a batch is used as it was selected; the commit after
\* each recipient expires the others, and they are read again when reached.
InLoop(w) == step[w] \in {"first", "loop"}

\* Fault: the row is marked before the mail leaves.
PickMarking(w) ==
  /\ InLoop(w)
  /\ \E s \in batch[w] :
       /\ batch' = [batch EXCEPT ![w] = @ \ {s}]
       /\ hand' = [hand EXCEPT ![w] = s]
       /\ sent' = [sent EXCEPT ![Current(w)] = @ \union (rows[Current(w)] \intersect {s})]
       /\ GoTo(w, "post")
       /\ UNCHANGED <<jobVars, delivery, rows, failed, webVars, seen, outside>>

\* The next row of the batch. One that has gone meanwhile raises when it is
\* read again or when an error is written on it; the first of a batch is
\* mailed all the same, if its subscriber is there. A subscriber who has left
\* is an error on the row.
PickRecipient(w) ==
  /\ InLoop(w)
  /\ \E s \in batch[w] :
       \/ /\ s \notin rows[Current(w)]
          /\ step[w] = "loop" \/ sub[s] # "in"
          /\ Raises(w)
          /\ UNCHANGED <<rowVars, webVars, outside>>
       \/ /\ s \in rows[Current(w)]
          /\ sub[s] # "in"
          /\ failed' = [failed EXCEPT ![Current(w)] = @ \union {s}]
          /\ batch' = [batch EXCEPT ![w] = @ \ {s}]
          /\ GoTo(w, "loop")
          /\ UNCHANGED <<jobVars, delivery, rows, sent, webVars, seen, hand, outside>>
       \/ /\ s \in rows[Current(w)] \/ step[w] = "first"
          /\ sub[s] = "in"
          /\ batch' = [batch EXCEPT ![w] = @ \ {s}]
          /\ hand' = [hand EXCEPT ![w] = s]
          /\ GoTo(w, "post")
          /\ UNCHANGED <<jobVars, rowVars, webVars, seen, outside>>

\* The provider takes the message. Nothing is written yet.
Mail(w) ==
  /\ step[w] = "post"
  /\ configured
  /\ mails' = [mails EXCEPT ![Current(w)][hand[w]] = @ + 1]
  /\ GoTo(w, "mark")
  /\ UNCHANGED <<jobVars, rowVars, webVars, seen, batch, hand, sub, configured, faults>>

\* Commit of sent_at, or of the error of a message the provider refused.
CommitRecipient(w, column) ==
  LET d == Current(w) IN
  IF hand[w] \in rows[d]
    THEN /\ column' = [column EXCEPT ![d] = @ \union {hand[w]}]
         /\ hand' = [hand EXCEPT ![w] = Nobody]
         /\ GoTo(w, "loop")
         /\ UNCHANGED <<jobVars, seen, batch>>
    ELSE Raises(w) /\ UNCHANGED column

MarkSent(w) ==
  /\ step[w] = "mark"
  /\ CommitRecipient(w, sent)
  /\ UNCHANGED <<delivery, rows, failed, webVars, outside>>

MailRefused(w) ==
  /\ step[w] = "post"
  /\ CommitRecipient(w, failed)
  /\ UNCHANGED <<delivery, rows, sent, webVars, outside>>

\* Fault: a full batch is taken for the end of the list.
CloseEarly(w) ==
  /\ InLoop(w)
  /\ batch[w] = {}
  /\ delivery' = [delivery EXCEPT ![Current(w)] = "done"]
  /\ GoTo(w, "return")
  /\ UNCHANGED <<jobVars, rows, sent, failed, webVars, seen, batch, hand, outside>>

\* Fault: the job ends instead of booking the rest.
CloseForgetting(w) ==
  /\ InLoop(w)
  /\ batch[w] = {}
  /\ delivery' = IF Unsent(Current(w)) = {}
                   THEN [delivery EXCEPT ![Current(w)] = "done"]
                   ELSE delivery
  /\ GoTo(w, "return")
  /\ UNCHANGED <<jobVars, rows, sent, failed, webVars, seen, batch, hand, outside>>

\* The rows are counted again; none left is the end of the delivery.
CloseBatch(w) ==
  /\ InLoop(w)
  /\ batch[w] = {}
  /\ \/ RaisesIfDeleted(w)
     \/ /\ delivery[Current(w)] # "deleted"
        /\ IF Unsent(Current(w)) # {}
             THEN GoTo(w, "rest") /\ UNCHANGED delivery
             ELSE /\ delivery' = [delivery EXCEPT ![Current(w)] = "done"]
                  /\ GoTo(w, "return")
        /\ UNCHANGED <<jobVars, rows, sent, failed, webVars, seen, batch, hand, outside>>

EnqueueRest(w) ==
  /\ step[w] = "rest"
  /\ \/ RaisesIfDeleted(w)
     \/ /\ delivery[Current(w)] # "deleted"
        /\ Enqueue(Current(w))
        /\ GoTo(w, "return")
        /\ UNCHANGED <<attempts, rowVars, webVars, seen, batch, hand, outside>>

Return(w) ==
  /\ step[w] = "return"
  /\ Verdict(w, "done")
  /\ UNCHANGED <<rowVars, webVars, outside>>

\* A commit or a query of the handler fails (a locked database, a lost
\* connection) and the job goes back to the queue.
HandlerFails(w) ==
  /\ step[w] # "idle"
  /\ faults < MaxFaults
  /\ faults' = faults + 1
  /\ Raises(w)
  /\ UNCHANGED <<rowVars, webVars, sub, configured, mails>>

\* The worker process dies; the job stays running without a holder.
WorkerDies(w) ==
  /\ step[w] # "idle"
  /\ faults < MaxFaults
  /\ faults' = faults + 1
  /\ Orphan(w, Running(w))
  /\ PutDown(w)
  /\ UNCHANGED <<about, attempts, rowVars, webVars, sub, configured, mails>>

\* A worker that starts finds orphans (recover_zombies).
RecoverOrphans ==
  /\ Reclaim
  /\ phase' # phase
  /\ UNCHANGED <<about, attempts, rowVars, webVars, handlerVars, outside>>

\* An operator puts a failed job back with all its attempts (Job.retry).
RetryJob(j) ==
  /\ Requeue(j)
  /\ attempts' = [attempts EXCEPT ![j] = 0]
  /\ UNCHANGED <<about, rowVars, webVars, handlerVars, outside>>

-----------------------------------------------------------------------------
(* Readers and operators meanwhile *)

\* Subscribing again, unsubscribing, and a manager removing the row, which
\* takes its recipient rows with it.
Join(s) ==
  /\ sub[s] = "out"
  /\ sub' = [sub EXCEPT ![s] = "in"]
  /\ UNCHANGED <<jobVars, rowVars, webVars, handlerVars, configured, mails, faults>>

Leave(s) ==
  /\ sub[s] = "in"
  /\ sub' = [sub EXCEPT ![s] = "out"]
  /\ UNCHANGED <<jobVars, rowVars, webVars, handlerVars, configured, mails, faults>>

RemoveSubscriber(s) ==
  /\ sub[s] # "gone"
  /\ sub' = [sub EXCEPT ![s] = "gone"]
  /\ rows' = [d \in Deliveries |-> rows[d] \ {s}]
  /\ sent' = [d \in Deliveries |-> sent[d] \ {s}]
  /\ failed' = [d \in Deliveries |-> failed[d] \ {s}]
  /\ UNCHANGED <<jobVars, delivery, webVars, handlerVars, configured, mails, faults>>

\* Deleting the content takes the delivery and its rows.
DeleteContent(d) ==
  /\ delivery[d] \notin {"none", "deleted"}
  /\ delivery' = [delivery EXCEPT ![d] = "deleted"]
  /\ rows' = [rows EXCEPT ![d] = {}]
  /\ sent' = [sent EXCEPT ![d] = {}]
  /\ failed' = [failed EXCEPT ![d] = {}]
  /\ UNCHANGED <<jobVars, webVars, handlerVars, outside>>

ChangeProvider ==
  /\ configured' = ~configured
  /\ UNCHANGED <<jobVars, rowVars, webVars, handlerVars, sub, mails, faults>>

-----------------------------------------------------------------------------
Handler(w) ==
  \/ ReadDelivery(w) \/ BeginSending(w) \/ SelectBatch(w) \/ PickRecipient(w)
  \/ Mail(w) \/ MarkSent(w) \/ MailRefused(w) \/ CloseBatch(w) \/ EnqueueRest(w)
  \/ Return(w)

Claims == \E w \in Workers, j \in JobIds : Claim(w, j)

Next ==
  \/ \E d \in Deliveries :
       CreateDelivery(d) \/ AddRecipients(d) \/ QueueDelivery(d) \/ RequestDies(d)
         \/ DeleteContent(d)
  \/ Claims
  \/ \E w \in Workers : Handler(w) \/ HandlerFails(w) \/ WorkerDies(w)
  \/ RecoverOrphans
  \/ \E j \in JobIds : RetryJob(j)
  \/ \E s \in Subs : Join(s) \/ Leave(s) \/ RemoveSubscriber(s)
  \/ ChangeProvider

Spec == Init /\ [][Next]_vars

\* Workers that run keep running, and a due job is claimed
\* (JobQueue!DueIsClaimed). Orphans are looked for when a worker starts and
\* not again (recover_zombies), so nothing is assumed of RecoverOrphans.
Supervised ==
  /\ \A w \in Workers : WF_vars(Handler(w))
  /\ WF_vars(Claims)

SupervisedSpec == Spec /\ Supervised

-----------------------------------------------------------------------------
(* Properties *)

\* A delivery that says done owes nobody a message: every recipient row it
\* has is marked, whichever of several jobs closed it.
DoneOwesNobody == \A d \in Deliveries : delivery[d] = "done" => Unsent(d) = {}

\* A row marked sent was mailed: whatever fails, nobody is counted among the
\* sent whose message never left.
SentWasMailed == \A d \in Deliveries : \A s \in sent[d] : mails[d][s] > 0

\* Every message too many was paid for by a fault: as long as nothing
\* crashes and no commit fails, nobody gets an issue twice.
ExtrasPaidFor == \A d \in Deliveries, s \in Subs : mails[d][s] <= 1 + faults

\* A job about d that a worker died with and no starting worker has found.
Lost(d) ==
  \E j \in JobIds : about[j] = d /\ phase[j] = "running" /\ holder[j] = NoWorker

\* No delivery stays on "sending" for ever (Delivery.status): the job that set
\* it there, or the one that books, moves it on, whatever leaves or fails
\* meanwhile, as long as no job fails max_attempts times. The one exception
\* is a job that died with its worker and that nobody ever looks for.
SendingEnds ==
  \A d \in Deliveries : []<>(delivery[d] # "sending") \/ <>[]Lost(d)

=============================================================================
