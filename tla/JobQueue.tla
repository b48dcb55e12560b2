------------------------------ MODULE JobQueue ------------------------------
(***************************************************************************)
(* The job table and its workers (app/platform/jobs.py, app/models/job.py).*)
(* Every action is what one process does between two commits; processes    *)
(* interleave between them and a worker may die at any of those points.    *)
(***************************************************************************)
EXTENDS Integers, FiniteSets

CONSTANTS
  Workers,        \* the processes that claim jobs
  InlineWorkers,  \* those of them that are `flask jobs work-off`, not `jobs run`
  Operators,      \* people retrying failed jobs from /admin or the CLI
  TaskIds,        \* row ids for one-off jobs (mail, deliveries)
  CleanupIds,     \* row ids for system.cleanup
  CheckIds,       \* row ids for system.update_check
  NoJob,          \* "no job": not an id
  NoWorker,       \* "no worker": not a process
  MaxAttempts,    \* Job.max_attempts
  BackoffUnit,    \* the 30 seconds of the retry backoff
  ZombieTimeout, Day, DoneRetention,
  UpdateSettings, \* the values of UPDATE_CHECK_ENABLED a process may run under
  IsPostgres,     \* FOR UPDATE SKIP LOCKED on the candidate select
  PromptHandlers, \* no claim and run together outlive ZombieTimeout
  MaxTime,        \* bound on the clock
  MaxCrashes      \* bound on worker deaths

JobIds == TaskIds \union CleanupIds \union CheckIds

Names == {"task", "cleanup", "update_check"}

IdsNamed(n) == CASE n = "task"    -> TaskIds
                 [] n = "cleanup" -> CleanupIds
                 [] OTHER         -> CheckIds

\* 30 * 4 ** max(attempts - 1, 0), in the model's unit of time.
Backoff(attempts) ==
  BackoffUnit * 4 ^ (IF attempts > 0 THEN attempts - 1 ELSE 0)

ASSUME IdsAssumption ==
  /\ NoJob \notin JobIds
  /\ TaskIds \intersect CleanupIds = {}
  /\ TaskIds \intersect CheckIds = {}
  /\ CleanupIds \intersect CheckIds = {}

ASSUME WorkersAssumption ==
  InlineWorkers \subseteq Workers /\ NoWorker \notin Workers /\ IsFiniteSet(Workers)

ASSUME TableAssumption == IsFiniteSet(JobIds)

ASSUME TimesAssumption ==
  /\ MaxAttempts \in Nat \ {0}
  /\ ZombieTimeout \in Nat
  /\ Day \in Nat
  /\ DoneRetention \in Nat
  /\ MaxTime \in Nat
  /\ MaxCrashes \in Nat

\* True of every natural BackoffUnit: powers of four are naturals.
ASSUME BackoffAssumption == \A n \in 0..MaxAttempts : Backoff(n) \in Nat

ASSUME SettingsAssumption ==
  /\ IsPostgres \in BOOLEAN
  /\ PromptHandlers \in BOOLEAN
  /\ UpdateSettings \subseteq BOOLEAN

VARIABLES
  now,      \* the clock
  job,      \* the job table: a row for every id
  pc,       \* where each worker process is
  cur,      \* the candidate a worker selected, then the job it runs
  at,       \* the `now` a worker read when it selected that candidate
  todo,     \* the recurring names a starting worker has yet to look for
  loaded,   \* the failed job each operator has on screen and in memory
  crashes,  \* worker deaths so far
  revived   \* recurring rows an operator has put back so far (history)

vars == <<now, job, pc, cur, at, todo, loaded, crashes, revived>>

workerVars == <<pc, cur, at, todo>>

-----------------------------------------------------------------------------
(* Rows *)

Null == -1      \* a NULL timestamp

NoRow == [status |-> "none", runAt |-> 0, attempts |-> 0,
          lockedAt |-> Null, finishedAt |-> Null]

\* The id of a deleted row is not given out again (a sequence on PostgreSQL;
\* SQLite reuses only the highest rowid, and a purge never takes the newest
\* row: its own booking, or a job that is younger, is there).
DeletedRow == [NoRow EXCEPT !.status = "deleted"]

Absent(j) == job[j].status \in {"none", "deleted"}

NewRow(runAt) == [NoRow EXCEPT !.status = "pending", !.runAt = runAt]

\* Save one pending row under an unused id.
Enqueue(name, runAt) ==
  \E j \in IdsNamed(name) :
    /\ job[j].status = "none"
    /\ job' = [job EXCEPT ![j] = NewRow(runAt)]

PendingExists(name) == \E j \in IdsNamed(name) : job[j].status = "pending"

Due(j) == job[j].status = "pending" /\ job[j].runAt <= now

\* Fault: the timeout is compared with <= instead of <.
ZombieTooEarly(j) ==
  /\ job[j].status = "running"
  /\ job[j].lockedAt = Null \/ job[j].lockedAt <= now - ZombieTimeout

\* Rows recover_zombies resets.
Zombie(j) ==
  /\ job[j].status = "running"
  /\ job[j].lockedAt = Null \/ job[j].lockedAt < now - ZombieTimeout

\* Finished rows past their retention.
Purgeable(j) ==
  /\ job[j].status \in {"done", "failed"}
  /\ job[j].finishedAt # Null
  /\ job[j].finishedAt < now - DoneRetention

-----------------------------------------------------------------------------
(* Worker processes *)

Handling == {"book_check", "book_enqueue", "working", "purged"}
Busy     == Handling \union {"claiming"}
Places   == Busy \union {"down", "seed_check", "seed_enqueue", "idle"}

GoTo(w, place) == pc' = [pc EXCEPT ![w] = place]

\* Back to the loop (or dead) with nothing in hand.
Drop(w, place) ==
  /\ GoTo(w, place)
  /\ cur' = [cur EXCEPT ![w] = NoJob]
  /\ at' = [at EXCEPT ![w] = Null]

Init ==
  /\ now = 0
  /\ job = [j \in JobIds |-> NoRow]
  /\ pc = [w \in Workers |-> "down"]
  /\ cur = [w \in Workers |-> NoJob]
  /\ at = [w \in Workers |-> Null]
  /\ todo = [w \in Workers |-> {}]
  /\ loaded = [o \in Operators |-> NoJob]
  /\ crashes = 0
  /\ revived = {}

\* run_worker starts: recover_zombies commits, then the seeding begins.
StartWorker(w) ==
  /\ pc[w] = "down"
  /\ w \notin InlineWorkers
  /\ job' = [j \in JobIds |->
               IF Zombie(j)
                 THEN [job[j] EXCEPT !.status = "pending", !.lockedAt = Null]
                 ELSE job[j]]
  /\ \E enabled \in UpdateSettings :
       todo' = [todo EXCEPT ![w] =
                  {n \in {"cleanup", "update_check"} :
                     /\ n = "update_check" => enabled
                     /\ IdsNamed(n) # {}}]
  /\ GoTo(w, "seed_check")
  /\ UNCHANGED <<now, cur, at, loaded, crashes, revived>>

\* _seed_recurring_jobs: cleanup first, then the update check.
NextSeed(w) == IF "cleanup" \in todo[w] THEN "cleanup" ELSE "update_check"

SeedCheck(w) ==
  /\ pc[w] = "seed_check"
  /\ \/ /\ todo[w] = {}
        /\ GoTo(w, "idle")
        /\ UNCHANGED todo
     \/ /\ todo[w] # {}
        /\ PendingExists(NextSeed(w))
        /\ todo' = [todo EXCEPT ![w] = @ \ {NextSeed(w)}]
        /\ UNCHANGED pc
     \/ /\ todo[w] # {}
        /\ ~PendingExists(NextSeed(w))
        /\ GoTo(w, "seed_enqueue")
        /\ UNCHANGED todo
  /\ UNCHANGED <<now, job, cur, at, loaded, crashes, revived>>

SeedEnqueue(w) ==
  /\ pc[w] = "seed_enqueue"
  /\ Enqueue(NextSeed(w), now)
  /\ todo' = [todo EXCEPT ![w] = @ \ {NextSeed(w)}]
  /\ GoTo(w, "seed_check")
  /\ UNCHANGED <<now, cur, at, loaded, crashes, revived>>

\* run_pending_jobs (`flask jobs work-off`): straight to claiming.
StartInline(w) ==
  /\ pc[w] = "down"
  /\ w \in InlineWorkers
  /\ GoTo(w, "idle")
  /\ UNCHANGED <<now, job, cur, at, todo, loaded, crashes, revived>>

\* What the select of _claim_next ranges over: the due rows, without on
\* PostgreSQL those another worker has locked between its select and update.
Candidates(w) ==
  {j \in JobIds :
     /\ Due(j)
     /\ IsPostgres => \A v \in Workers \ {w} : ~(pc[v] = "claiming" /\ cur[v] = j)}

\* run_pending_jobs breaks off when nothing is due.
EndInline(w) ==
  /\ pc[w] = "idle"
  /\ w \in InlineWorkers
  /\ Candidates(w) = {}
  /\ Drop(w, "down")
  /\ UNCHANGED <<now, job, todo, loaded, crashes, revived>>

\* Fault: the select has lost its order.
ClaimAny(w) ==
  /\ pc[w] = "idle"
  /\ \E j \in Candidates(w) : cur' = [cur EXCEPT ![w] = j]
  /\ at' = [at EXCEPT ![w] = now]
  /\ GoTo(w, "claiming")
  /\ UNCHANGED <<now, job, todo, loaded, crashes, revived>>

\* The oldest of them becomes the candidate.
ClaimSelect(w) ==
  /\ pc[w] = "idle"
  /\ \E j \in Candidates(w) :
       /\ \A k \in Candidates(w) : job[j].runAt <= job[k].runAt
       /\ cur' = [cur EXCEPT ![w] = j]
  /\ at' = [at EXCEPT ![w] = now]
  /\ GoTo(w, "claiming")
  /\ UNCHANGED <<now, job, todo, loaded, crashes, revived>>

\* Where a handler starts: a recurring one books its next run first, unless
\* it is an update check that has been switched off since it was booked.
HandlerStart(j, enabled) ==
  IF j \in CleanupIds \/ (j \in CheckIds /\ enabled) THEN "book_check" ELSE "working"

\* Fault: the UPDATE does not ask again whether the row is pending.
ClaimBlindly(w) ==
  /\ pc[w] = "claiming"
  /\ job' = [job EXCEPT ![cur[w]].status = "running",
                        ![cur[w]].lockedAt = at[w],
                        ![cur[w]].attempts = @ + 1]
  /\ \E enabled \in UpdateSettings : GoTo(w, HandlerStart(cur[w], enabled))
  /\ UNCHANGED <<now, cur, at, todo, loaded, crashes, revived>>

\* The conditional UPDATE: its rowcount tells whether the row was still
\* pending.
ClaimWon(w) ==
  /\ pc[w] = "claiming"
  /\ job[cur[w]].status = "pending"
  /\ job' = [job EXCEPT ![cur[w]].status = "running",
                        ![cur[w]].lockedAt = at[w],
                        ![cur[w]].attempts = @ + 1]
  /\ \E enabled \in UpdateSettings : GoTo(w, HandlerStart(cur[w], enabled))
  /\ UNCHANGED <<now, cur, at, todo, loaded, crashes, revived>>

ClaimLost(w) ==
  /\ pc[w] = "claiming"
  /\ job[cur[w]].status # "pending"
  /\ Drop(w, "idle")
  /\ UNCHANGED <<now, job, todo, loaded, crashes, revived>>

NameOf(j) == CHOOSE n \in Names : j \in IdsNamed(n)

\* Fault: books without looking.
BookAlways(w) ==
  /\ pc[w] = "book_check"
  /\ GoTo(w, "book_enqueue")
  /\ UNCHANGED <<now, job, cur, at, todo, loaded, crashes, revived>>

\* Fault: the row that is running counts as a booking.
BookUnlessLive(w) ==
  /\ pc[w] = "book_check"
  /\ GoTo(w, IF \E j \in IdsNamed(NameOf(cur[w])) : job[j].status \in {"pending", "running"}
               THEN "working" ELSE "book_enqueue")
  /\ UNCHANGED <<now, job, cur, at, todo, loaded, crashes, revived>>

\* reschedule: look for a pending row of the name, then book one a day out.
BookCheck(w) ==
  /\ pc[w] = "book_check"
  /\ GoTo(w, IF PendingExists(NameOf(cur[w])) THEN "working" ELSE "book_enqueue")
  /\ UNCHANGED <<now, job, cur, at, todo, loaded, crashes, revived>>

BookEnqueue(w) ==
  /\ pc[w] = "book_enqueue"
  /\ Enqueue(NameOf(cur[w]), now + Day)
  /\ GoTo(w, "working")
  /\ UNCHANGED <<now, cur, at, todo, loaded, crashes, revived>>

\* The delete of _cleanup, which it commits itself.
Purge(w) ==
  /\ pc[w] = "working"
  /\ cur[w] \in CleanupIds
  /\ job' = [j \in JobIds |-> IF Purgeable(j) THEN DeletedRow ELSE job[j]]
  /\ GoTo(w, "purged")
  /\ UNCHANGED <<now, cur, at, todo, loaded, crashes, revived>>

\* The handler returned. The UPDATE names the row only; if the row has gone
\* it matches nothing and the error leaves the loop with the process.
RunOk(w) ==
  /\ pc[w] = IF cur[w] \in CleanupIds THEN "purged" ELSE "working"
  /\ IF Absent(cur[w])
       THEN Drop(w, "down") /\ UNCHANGED job
       ELSE /\ job' = [job EXCEPT ![cur[w]].status = "done",
                                  ![cur[w]].finishedAt = now,
                                  ![cur[w]].lockedAt = Null]
            /\ Drop(w, "idle")
  /\ UNCHANGED <<now, todo, loaded, crashes, revived>>

\* Fault: one attempt too many.
FailureOneMore(row) ==
  IF row.attempts > MaxAttempts
    THEN [row EXCEPT !.status = "failed", !.finishedAt = now, !.lockedAt = Null]
    ELSE [row EXCEPT !.status = "pending", !.runAt = now + Backoff(row.attempts),
                     !.lockedAt = Null]

\* What the except branch and the finally write on a row that is still there.
AfterFailure(row) ==
  IF row.attempts >= MaxAttempts
    THEN [row EXCEPT !.status = "failed", !.finishedAt = now, !.lockedAt = Null]
    ELSE [row EXCEPT !.status = "pending", !.runAt = now + Backoff(row.attempts),
                     !.lockedAt = Null]

\* The handler raised, before, during or after its booking.
RunFail(w) ==
  /\ pc[w] \in Handling \ {"purged"}
  /\ job' = IF Absent(cur[w])
              THEN job
              ELSE [job EXCEPT ![cur[w]] = AfterFailure(@)]
  /\ Drop(w, "idle")
  /\ UNCHANGED <<now, todo, loaded, crashes, revived>>

\* The process is killed, or stopped between two jobs.
Crash(w) ==
  /\ pc[w] # "down"
  /\ crashes < MaxCrashes
  /\ crashes' = crashes + 1
  /\ Drop(w, "down")
  /\ todo' = [todo EXCEPT ![w] = {}]
  /\ UNCHANGED <<now, job, loaded, revived>>

-----------------------------------------------------------------------------
(* The web application, the operators and the clock *)

\* A request enqueues a one-off job.
EnqueueTask ==
  /\ Enqueue("task", now)
  /\ UNCHANGED <<now, loaded, crashes, revived, workerVars>>

\* Job.retry, in a request: the row is loaded and its status checked, then
\* written back by primary key. locked_at was already NULL on the failed row
\* that was loaded, so the UPDATE leaves the column out.
RetryLoad(o, j) ==
  /\ loaded[o] = NoJob
  /\ job[j].status = "failed"
  /\ loaded' = [loaded EXCEPT ![o] = j]
  /\ UNCHANGED <<now, job, crashes, revived, workerVars>>

RetrySave(o) ==
  /\ loaded[o] # NoJob
  /\ job' = IF Absent(loaded[o])
              THEN job
              ELSE [job EXCEPT ![loaded[o]] =
                      [NewRow(now) EXCEPT !.lockedAt = job[loaded[o]].lockedAt]]
  /\ revived' = IF Absent(loaded[o])
                  THEN revived
                  ELSE revived \union ({loaded[o]} \ TaskIds)
  /\ loaded' = [loaded EXCEPT ![o] = NoJob]
  /\ UNCHANGED <<now, crashes, workerVars>>

\* Time passes. Under PromptHandlers a claim is over within ZombieTimeout.
Tick ==
  /\ now < MaxTime
  /\ PromptHandlers =>
       \A w \in Workers : pc[w] \in Busy => now < at[w] + ZombieTimeout
  /\ now' = now + 1
  /\ UNCHANGED <<job, loaded, crashes, revived, workerVars>>

-----------------------------------------------------------------------------
Loop(w) ==
  \/ SeedCheck(w) \/ SeedEnqueue(w) \/ EndInline(w)
  \/ ClaimSelect(w) \/ ClaimWon(w) \/ ClaimLost(w)
  \/ BookCheck(w) \/ BookEnqueue(w) \/ Purge(w) \/ RunOk(w) \/ RunFail(w)

WorkerStep(w) == Loop(w) \/ StartWorker(w) \/ StartInline(w) \/ Crash(w)

Next ==
  \/ \E w \in Workers : WorkerStep(w)
  \/ EnqueueTask
  \/ \E o \in Operators : RetrySave(o) \/ \E j \in JobIds : RetryLoad(o, j)
  \/ Tick

Spec == Init /\ [][Next]_vars

\* A process that runs keeps running, and the container runtime restarts a
\* worker that has died (restart: unless-stopped, and the watchdog).
Supervised ==
  \A w \in Workers : WF_vars(Loop(w)) /\ WF_vars(StartWorker(w))

SupervisedSpec == Spec /\ Supervised

-----------------------------------------------------------------------------
(* Properties *)

Rows == [status : {"none", "pending", "running", "done", "failed", "deleted"},
         runAt : Nat, attempts : Nat,
         lockedAt : Nat \union {Null}, finishedAt : Nat \union {Null}]

\* The columns and the process states stay within their domains.
TypeOK ==
  /\ now \in Nat
  /\ job \in [JobIds -> Rows]
  /\ pc \in [Workers -> Places]
  /\ cur \in [Workers -> JobIds \union {NoJob}]
  /\ at \in [Workers -> Nat \union {Null}]
  /\ todo \in [Workers -> SUBSET {"cleanup", "update_check"}]
  /\ loaded \in [Operators -> JobIds \union {NoJob}]
  /\ crashes \in Nat
  /\ revived \subseteq JobIds

\* No two processes run the same job at the same time: what the conditional
\* UPDATE of _claim_next and the timeout of recover_zombies are for.
OneRunner ==
  \A v, w \in Workers :
    v # w /\ pc[v] \in Handling /\ pc[w] \in Handling => cur[v] # cur[w]

\* A job that has been claimed more often than max_attempts allows was lost
\* by a worker that died once for every claim too many (_run counts claims,
\* recover_zombies does not look at them).
AttemptsPaidFor ==
  \A j \in JobIds : job[j].attempts <= MaxAttempts + crashes

\* The cleanup schedule is still there: a row that will run, or one an
\* operator finds on the failed list.
ScheduleKept ==
  \E j \in CleanupIds : job[j].status \in {"pending", "running", "failed"}

\* Once booked, the cleanup never drops out of the table: no booking,
\* failure, purge, crash or recovery takes its last row.
ScheduleNeverLost == [][ScheduleKept => ScheduleKept']_vars

\* A recurring job does not multiply by failing (reschedule's pending guard):
\* whatever fails, however often, there wait at most two rows of it for every
\* worker -- the run it failed in and the successor it booked -- and one for
\* every worker that died, not counting those an operator put back by hand.
NoFlood ==
  \A ids \in {CleanupIds, CheckIds} :
    Cardinality({j \in ids \ revived : job[j].status = "pending"})
      <= 2 * Cardinality(Workers) + crashes

Overdue(j) == job[j].status = "pending" /\ job[j].runAt < now

\* Workers share the queue fairly: a job whose time has passed is claimed in
\* the end, though another one fails, is put back and retried for ever (the
\* order of the select in _claim_next). Of jobs due at the same instant the
\* select takes any.
DueIsClaimed == \A j \in JobIds : Overdue(j) ~> job[j].status # "pending"

-----------------------------------------------------------------------------
(* The lease the queue implements *)

Holder(j) ==
  IF \E w \in Workers : pc[w] \in Handling /\ cur[w] = j
    THEN CHOOSE w \in Workers : pc[w] \in Handling /\ cur[w] = j
    ELSE NoWorker

Lease == INSTANCE JobLease
           WITH phase <- [j \in JobIds |-> job[j].status],
                holder <- [j \in JobIds |-> Holder(j)]

\* While claims are over within the timeout, the queue is a lease: one
\* holder at a time, its verdict alone, and only orphans are reclaimed.
ImplementsLease == Lease!LeaseSpec

=============================================================================
