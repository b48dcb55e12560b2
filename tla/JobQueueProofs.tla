--------------------------- MODULE JobQueueProofs ---------------------------
(***************************************************************************)
(* Theorems of JobQueue for every set of workers, rows and every timeout.  *)
(* TypeInv holds of the queue as it is. LeaseInv is what makes a claim     *)
(* exclusive; it needs handlers that end within the timeout and retries    *)
(* that do not overlap, the two hypotheses below.                          *)
(***************************************************************************)
EXTENDS JobQueue, FiniteSetTheorems, TLAPS

OneOperator == \A a, b \in Operators : a = b

\* The domains, and a worker with work in hand has a row and a claim time.
TypeInv ==
  /\ TypeOK
  /\ \A w \in Workers : pc[w] \in Busy => cur[w] \in JobIds /\ at[w] \in Nat

\* The inductive strengthening of OneRunner: a holder's row is running, its
\* lock bears the holder's own claim time and is not yet a zombie's, and a
\* retry in progress is about a row that cannot be claimed.
LeaseInv ==
  /\ \A w \in Workers : pc[w] \in Busy => now <= at[w] + ZombieTimeout
  /\ \A w \in Workers :
       pc[w] \in Handling => job[cur[w]].status = "running" /\ job[cur[w]].lockedAt = at[w]
  /\ OneRunner
  /\ \A o \in Operators :
       loaded[o] # NoJob => job[loaded[o]].status \in {"failed", "deleted"}

Held(j) == \E w \in Workers : pc[w] \in Handling /\ cur[w] = j

\* The inductive strengthening of AttemptsPaidFor: a row that can still be
\* claimed, or was lost by the worker that held it, has an attempt left.
AttemptsInv ==
  /\ AttemptsPaidFor
  /\ \A j \in JobIds :
       job[j].status = "pending" \/ (job[j].status = "running" /\ ~Held(j))
         => job[j].attempts < MaxAttempts + crashes

USE DEF Null
-----------------------------------------------------------------------------
(* Type correctness *)

LEMMA RowTypes == NoRow \in Rows /\ DeletedRow \in Rows
                  /\ \A t \in Nat : NewRow(t) \in Rows
BY DEF NoRow, DeletedRow, NewRow, Rows

LEMMA IdsNamedAreIds == \A n : IdsNamed(n) \subseteq JobIds
BY DEF IdsNamed, JobIds

\* Saving a new pending row keeps the table a table.
LEMMA EnqueueType ==
  ASSUME TypeOK, NEW n, NEW t \in Nat, Enqueue(n, t)
  PROVE  job' \in [JobIds -> Rows]
BY RowTypes, IdsNamedAreIds DEF TypeOK, Enqueue

\* The outcome of a failed run is a row, whatever the row was.
LEMMA FailureType ==
  ASSUME now \in Nat, NEW row \in Rows
  PROVE  AfterFailure(row) \in Rows
<1>1. CASE row.attempts >= MaxAttempts
  BY <1>1 DEF AfterFailure, Rows
<1>2. CASE ~(row.attempts >= MaxAttempts)
  <2>1. row.attempts \in 0..MaxAttempts
    BY <1>2, TimesAssumption DEF Rows
  <2>2. Backoff(row.attempts) \in Nat
    BY <2>1, BackoffAssumption
  <2>3. now + Backoff(row.attempts) \in Nat
    BY <2>2
  <2>. QED
    BY <1>2, <2>3 DEF AfterFailure, Rows
<1>. QED
  BY <1>1, <1>2

\* Resetting an orphan keeps a row a row.
LEMMA ResetType ==
  ASSUME NEW row \in Rows
  PROVE  [row EXCEPT !.status = "pending", !.lockedAt = Null] \in Rows
BY DEF Rows

LEMMA InitType == Init => TypeInv
BY RowTypes, TimesAssumption DEF Init, TypeInv, TypeOK, Places, Busy, Handling

LEMMA NextType == TypeInv /\ [Next]_vars => TypeInv'
<1> SUFFICES ASSUME TypeInv, [Next]_vars
             PROVE  TypeInv'
  OBVIOUS
<1> USE DEF TypeInv, TypeOK, Places, Busy, Handling, GoTo, Drop
<1>1. ASSUME NEW w \in Workers, StartWorker(w)
      PROVE  TypeInv'
  <2>1. \A j \in JobIds :
          [job[j] EXCEPT !.status = "pending", !.lockedAt = Null] \in Rows
    BY ResetType
  <2>2. job' \in [JobIds -> Rows]
    BY <1>1, <2>1 DEF StartWorker
  <2>3. todo' \in [Workers -> SUBSET {"cleanup", "update_check"}]
    <3>1. PICK enabled \in UpdateSettings :
            todo' = [todo EXCEPT ![w] =
                       {n \in {"cleanup", "update_check"} :
                          /\ n = "update_check" => enabled
                          /\ IdsNamed(n) # {}}]
      BY <1>1 DEF StartWorker
    <3>. QED
      BY <3>1
  <2>. QED
    BY <1>1, <2>2, <2>3 DEF StartWorker
<1>2. ASSUME NEW w \in Workers, SeedCheck(w)
      PROVE  TypeInv'
  BY <1>2 DEF SeedCheck
<1>3. ASSUME NEW w \in Workers, SeedEnqueue(w)
      PROVE  TypeInv'
  <2>1. job' \in [JobIds -> Rows]
    BY <1>3, EnqueueType DEF SeedEnqueue
  <2>. QED
    BY <1>3, <2>1 DEF SeedEnqueue
<1>4. ASSUME NEW w \in Workers, StartInline(w) \/ EndInline(w)
      PROVE  TypeInv'
  BY <1>4 DEF StartInline, EndInline
<1>5. ASSUME NEW w \in Workers, ClaimSelect(w)
      PROVE  TypeInv'
  BY <1>5 DEF ClaimSelect, Candidates
<1>6. ASSUME NEW w \in Workers, ClaimWon(w)
      PROVE  TypeInv'
  <2>1. job' \in [JobIds -> Rows]
    BY <1>6 DEF ClaimWon, Rows
  <2>2. pc' \in [Workers -> Places] /\ pc'[w] \in Busy
    BY <1>6 DEF ClaimWon, HandlerStart
  <2>. QED
    BY <1>6, <2>1, <2>2 DEF ClaimWon
<1>7. ASSUME NEW w \in Workers, ClaimLost(w)
      PROVE  TypeInv'
  BY <1>7 DEF ClaimLost
<1>8. ASSUME NEW w \in Workers, BookCheck(w)
      PROVE  TypeInv'
  BY <1>8 DEF BookCheck
<1>9. ASSUME NEW w \in Workers, BookEnqueue(w)
      PROVE  TypeInv'
  <2>1. now + Day \in Nat
    BY TimesAssumption
  <2>2. job' \in [JobIds -> Rows]
    BY <1>9, <2>1, EnqueueType DEF BookEnqueue
  <2>. QED
    BY <1>9, <2>2 DEF BookEnqueue
<1>10. ASSUME NEW w \in Workers, Purge(w)
       PROVE  TypeInv'
  <2>1. job' \in [JobIds -> Rows]
    BY <1>10, RowTypes DEF Purge
  <2>. QED
    BY <1>10, <2>1 DEF Purge
<1>11. ASSUME NEW w \in Workers, RunOk(w)
       PROVE  TypeInv'
  <2>1. job' \in [JobIds -> Rows]
    BY <1>11 DEF RunOk, Rows
  <2>2. \/ Drop(w, "down")
        \/ Drop(w, "idle")
    BY <1>11 DEF RunOk
  <2>. QED
    BY <1>11, <2>1, <2>2 DEF RunOk
<1>12. ASSUME NEW w \in Workers, RunFail(w)
       PROVE  TypeInv'
  <2>1. cur[w] \in JobIds
    BY <1>12 DEF RunFail
  <2>2. AfterFailure(job[cur[w]]) \in Rows
    BY <2>1, FailureType
  <2>3. job' \in [JobIds -> Rows]
    BY <1>12, <2>2 DEF RunFail
  <2>. QED
    BY <1>12, <2>3 DEF RunFail
<1>13. ASSUME NEW w \in Workers, Crash(w)
       PROVE  TypeInv'
  BY <1>13 DEF Crash
<1>14. CASE EnqueueTask
  <2>1. job' \in [JobIds -> Rows]
    BY <1>14, EnqueueType DEF EnqueueTask
  <2>. QED
    BY <1>14, <2>1 DEF EnqueueTask, workerVars
<1>15. ASSUME NEW o \in Operators, NEW j \in JobIds, RetryLoad(o, j)
       PROVE  TypeInv'
  BY <1>15 DEF RetryLoad, workerVars
<1>16. ASSUME NEW o \in Operators, RetrySave(o)
       PROVE  TypeInv'
  <2>1. job' \in [JobIds -> Rows]
    BY <1>16, RowTypes DEF RetrySave, Rows, NewRow, NoRow
  <2>. QED
    BY <1>16, <2>1 DEF RetrySave, workerVars
<1>17. CASE Tick
  BY <1>17 DEF Tick, workerVars
<1>18. CASE UNCHANGED vars
  BY <1>18 DEF vars
<1>. QED
  BY <1>1, <1>2, <1>3, <1>4, <1>5, <1>6, <1>7, <1>8, <1>9, <1>10, <1>11, <1>12,
     <1>13, <1>14, <1>15, <1>16, <1>17, <1>18
  DEF Next, WorkerStep, Loop

\* Whatever the workers, operators and settings, the columns of the job
\* table and the places of the processes stay within their domains.
THEOREM TypeCorrect == Spec => []TypeInv
BY InitType, NextType, PTL DEF Spec

-----------------------------------------------------------------------------
(* Exclusive claims *)

LEMMA InitLease == Init => LeaseInv
BY DEF Init, LeaseInv, OneRunner, Busy, Handling

\* A recovery resets nobody's row and a verdict is given on one's own; the
\* claim of a pending row is the only step by which a worker comes to hold.
LEMMA NextLease ==
  ASSUME PromptHandlers = TRUE, OneOperator, TypeInv, LeaseInv, [Next]_vars
  PROVE  LeaseInv'
<1> USE DEF TypeInv, TypeOK, LeaseInv, OneRunner, Places, Busy, Handling, GoTo, Drop
<1>1. ASSUME NEW w \in Workers, StartWorker(w)
      PROVE  LeaseInv'
  <2>1. \A v \in Workers : pc[v] \in Handling => ~Zombie(cur[v])
    BY TimesAssumption DEF Zombie
  <2>2. \A j \in JobIds : ~Zombie(j) => job'[j] = job[j]
    BY <1>1 DEF StartWorker
  <2>3. \A j \in JobIds : job[j].status # "running" => job'[j] = job[j]
    BY <1>1 DEF StartWorker, Zombie
  <2>4. /\ UNCHANGED <<now, cur, at, loaded>>
        /\ \A v \in Workers : pc'[v] \in Busy => pc'[v] = pc[v]
        /\ \A v \in Workers : pc'[v] \in Handling => pc'[v] = pc[v]
    BY <1>1 DEF StartWorker
  <2>5. \A v \in Workers : pc[v] \in Handling => job'[cur[v]] = job[cur[v]]
    BY <2>1, <2>2
  <2>6. \A o \in Operators : loaded[o] # NoJob => job'[loaded[o]] = job[loaded[o]]
    BY <2>3
  <2>. QED
    BY <2>4, <2>5, <2>6
<1>2. ASSUME NEW w \in Workers, SeedCheck(w)
      PROVE  LeaseInv'
  BY <1>2 DEF SeedCheck
<1>3. ASSUME NEW w \in Workers, SeedEnqueue(w)
      PROVE  LeaseInv'
  BY <1>3 DEF SeedEnqueue, Enqueue
<1>4. ASSUME NEW w \in Workers, StartInline(w) \/ EndInline(w)
      PROVE  LeaseInv'
  BY <1>4 DEF StartInline, EndInline
<1>5. ASSUME NEW w \in Workers, ClaimSelect(w)
      PROVE  LeaseInv'
  BY <1>5, TimesAssumption DEF ClaimSelect
<1>6. ASSUME NEW w \in Workers, ClaimWon(w)
      PROVE  LeaseInv'
  <2>1. job[cur[w]].status = "pending" /\ cur[w] \in JobIds
    BY <1>6 DEF ClaimWon
  <2>2. job'[cur[w]].status = "running" /\ job'[cur[w]].lockedAt = at[w]
    BY <1>6, <2>1 DEF ClaimWon, Rows
  <2>3. \A j \in JobIds : j # cur[w] => job'[j] = job[j]
    BY <1>6 DEF ClaimWon
  <2>4. pc'[w] \in Handling /\ \A v \in Workers \ {w} : pc'[v] = pc[v]
    BY <1>6 DEF ClaimWon, HandlerStart
  <2>. QED
    BY <1>6, <2>1, <2>2, <2>3, <2>4 DEF ClaimWon
<1>7. ASSUME NEW w \in Workers, ClaimLost(w)
      PROVE  LeaseInv'
  BY <1>7 DEF ClaimLost
<1>8. ASSUME NEW w \in Workers, BookCheck(w)
      PROVE  LeaseInv'
  BY <1>8 DEF BookCheck
<1>9. ASSUME NEW w \in Workers, BookEnqueue(w)
      PROVE  LeaseInv'
  BY <1>9 DEF BookEnqueue, Enqueue
<1>10. ASSUME NEW w \in Workers, Purge(w)
       PROVE  LeaseInv'
  BY <1>10 DEF Purge, Purgeable, DeletedRow
<1>11. ASSUME NEW w \in Workers, RunOk(w)
       PROVE  LeaseInv'
  <2>1. pc[w] \in Handling /\ cur[w] \in JobIds
    BY <1>11 DEF RunOk
  <2>2. \A j \in JobIds : j # cur[w] => job'[j] = job[j]
    BY <1>11 DEF RunOk
  <2>3. Drop(w, "down") \/ Drop(w, "idle")
    BY <1>11 DEF RunOk
  <2>. QED
    BY <1>11, <2>1, <2>2, <2>3 DEF RunOk
<1>12. ASSUME NEW w \in Workers, RunFail(w)
       PROVE  LeaseInv'
  <2>1. pc[w] \in Handling /\ cur[w] \in JobIds
    BY <1>12 DEF RunFail
  <2>2. \A j \in JobIds : j # cur[w] => job'[j] = job[j]
    BY <1>12 DEF RunFail
  <2>. QED
    BY <1>12, <2>1, <2>2 DEF RunFail
<1>13. ASSUME NEW w \in Workers, Crash(w)
       PROVE  LeaseInv'
  BY <1>13 DEF Crash
<1>14. CASE EnqueueTask
  BY <1>14 DEF EnqueueTask, Enqueue, workerVars
<1>15. ASSUME NEW o \in Operators, NEW j \in JobIds, RetryLoad(o, j)
       PROVE  LeaseInv'
  BY <1>15 DEF RetryLoad, workerVars
<1>16. ASSUME NEW o \in Operators, RetrySave(o)
       PROVE  LeaseInv'
  <2>1. loaded[o] \in JobIds /\ job[loaded[o]].status \in {"failed", "deleted"}
    BY <1>16 DEF RetrySave
  <2>2. \A j \in JobIds : j # loaded[o] => job'[j] = job[j]
    BY <1>16 DEF RetrySave
  <2>3. \A a \in Operators : loaded'[a] = NoJob
    BY <1>16 DEF RetrySave, OneOperator
  <2>. QED
    BY <1>16, <2>1, <2>2, <2>3 DEF RetrySave, workerVars
<1>17. CASE Tick
  BY <1>17, TimesAssumption DEF Tick, workerVars
<1>18. CASE UNCHANGED vars
  BY <1>18 DEF vars
<1>. QED
  BY <1>1, <1>2, <1>3, <1>4, <1>5, <1>6, <1>7, <1>8, <1>9, <1>10, <1>11, <1>12,
     <1>13, <1>14, <1>15, <1>16, <1>17, <1>18
  DEF Next, WorkerStep, Loop

\* While no claim outlives the zombie timeout and operators do not retry at
\* the same time, no two processes ever run the same job.
THEOREM ClaimsExclusive ==
  ASSUME PromptHandlers = TRUE, OneOperator
  PROVE  Spec => []OneRunner
<1>1. TypeInv /\ LeaseInv /\ [Next]_vars => LeaseInv'
  BY NextLease
<1>2. LeaseInv => OneRunner
  BY DEF LeaseInv
<1>. QED
  BY InitLease, TypeCorrect, <1>1, <1>2, PTL DEF Spec

-----------------------------------------------------------------------------
(* Attempts *)

\* Neither a reset nor a verdict changes what a row has spent, and a run that
\* failed is queued again only with attempts to spare.
LEMMA ResetKeepsAttempts ==
  ASSUME NEW row \in Rows
  PROVE  /\ [row EXCEPT !.status = "pending", !.lockedAt = Null].attempts = row.attempts
         /\ [row EXCEPT !.status = "pending", !.lockedAt = Null].status = "pending"
BY DEF Rows

LEMMA FailureVerdict ==
  ASSUME NEW row \in Rows
  PROVE  /\ AfterFailure(row).attempts = row.attempts
         /\ \/ AfterFailure(row).status = "failed" /\ AfterFailure(row).finishedAt = now
            \/ AfterFailure(row).status = "pending" /\ row.attempts < MaxAttempts
BY TimesAssumption DEF AfterFailure, Rows

LEMMA SuccessVerdict ==
  ASSUME NEW row \in Rows, NEW t
  PROVE  /\ [row EXCEPT !.status = "done", !.finishedAt = t,
                        !.lockedAt = Null].attempts = row.attempts
         /\ [row EXCEPT !.status = "done", !.finishedAt = t,
                        !.lockedAt = Null].status = "done"
BY DEF Rows

LEMMA InitAttempts == Init => AttemptsInv
BY TimesAssumption DEF Init, AttemptsInv, AttemptsPaidFor, NoRow

LEMMA NextAttempts ==
  ASSUME TypeInv, LeaseInv, AttemptsInv, [Next]_vars
  PROVE  AttemptsInv'
<1> USE TimesAssumption
    DEF TypeInv, TypeOK, LeaseInv, AttemptsInv, AttemptsPaidFor, Held,
        Places, Busy, Handling, GoTo, Drop
\* A step that changes no row and lets no holder go changes nothing here.
<1>1. ASSUME UNCHANGED <<job, crashes, cur>>,
             \A v \in Workers : pc[v] \in Handling => pc'[v] \in Handling
      PROVE  AttemptsInv'
  BY <1>1
<1>2. ASSUME NEW w \in Workers, StartWorker(w)
      PROVE  AttemptsInv'
  <2>1. \A v \in Workers : pc[v] \in Handling => pc'[v] = pc[v]
    BY <1>2 DEF StartWorker
  <2>2. \A j \in JobIds : Zombie(j) => job[j].status = "running" /\ ~Held(j)
    BY DEF Zombie
  <2>3. \A j \in JobIds :
          /\ job'[j].attempts = job[j].attempts
          /\ job'[j].status = job[j].status \/ Zombie(j)
    BY <1>2, ResetKeepsAttempts DEF StartWorker
  <2>4. UNCHANGED <<crashes, cur>>
    BY <1>2 DEF StartWorker
  <2>. QED
    BY <2>1, <2>2, <2>3, <2>4
<1>3. ASSUME NEW w \in Workers, SeedCheck(w) \/ BookCheck(w)
      PROVE  AttemptsInv'
  BY <1>1, <1>3 DEF SeedCheck, BookCheck
<1>4. ASSUME NEW w \in Workers, SeedEnqueue(w) \/ BookEnqueue(w)
      PROVE  AttemptsInv'
  <2>1. PICK j \in JobIds, t \in Int :
          /\ job[j].status = "none"
          /\ job' = [job EXCEPT ![j] = NewRow(t)]
    BY <1>4, IdsNamedAreIds DEF SeedEnqueue, BookEnqueue, Enqueue
  <2>2. job'[j].attempts = 0 /\ \A k \in JobIds : k # j => job'[k] = job[k]
    BY <2>1 DEF NewRow, NoRow
  <2>3. UNCHANGED <<crashes, cur>> /\ \A v \in Workers : pc[v] \in Handling => pc'[v] \in Handling
    BY <1>4 DEF SeedEnqueue, BookEnqueue
  <2>. QED
    BY <2>2, <2>3
<1>5. ASSUME NEW w \in Workers, StartInline(w)
      PROVE  AttemptsInv'
  BY <1>1, <1>5 DEF StartInline
<1>6. ASSUME NEW w \in Workers, ClaimSelect(w) \/ ClaimLost(w) \/ EndInline(w)
      PROVE  AttemptsInv'
  <2>1. UNCHANGED <<job, crashes>>
    BY <1>6 DEF ClaimSelect, ClaimLost, EndInline
  <2>2. \A v \in Workers : pc[v] \in Handling => pc'[v] = pc[v] /\ cur'[v] = cur[v]
    BY <1>6 DEF ClaimSelect, ClaimLost, EndInline
  <2>. QED
    BY <2>1, <2>2
<1>7. ASSUME NEW w \in Workers, ClaimWon(w)
      PROVE  AttemptsInv'
  <2>1. cur[w] \in JobIds /\ job[cur[w]].status = "pending"
    BY <1>7 DEF ClaimWon
  <2>2. job'[cur[w]].status = "running" /\ job'[cur[w]].attempts = job[cur[w]].attempts + 1
    BY <1>7, <2>1 DEF ClaimWon, Rows
  <2>3. \A j \in JobIds : j # cur[w] => job'[j] = job[j]
    BY <1>7 DEF ClaimWon
  <2>4. pc'[w] \in Handling /\ \A v \in Workers \ {w} : pc'[v] = pc[v]
    BY <1>7 DEF ClaimWon, HandlerStart
  <2>5. UNCHANGED <<cur, crashes>>
    BY <1>7 DEF ClaimWon
  <2>6. \A j \in JobIds : job[j].attempts \in Nat
    BY DEF Rows
  <2>. QED
    BY <2>1, <2>2, <2>3, <2>4, <2>5, <2>6
<1>8. ASSUME NEW w \in Workers, Purge(w)
      PROVE  AttemptsInv'
  <2>1. \A j \in JobIds : job'[j] = job[j] \/ job'[j] = DeletedRow
    BY <1>8 DEF Purge
  <2>2. UNCHANGED <<cur, crashes>> /\ \A v \in Workers : pc[v] \in Handling => pc'[v] \in Handling
    BY <1>8 DEF Purge
  <2>3. DeletedRow.attempts = 0 /\ DeletedRow.status = "deleted"
    BY DEF DeletedRow, NoRow
  <2>4. \A j \in JobIds :
          \/ job'[j] = job[j]
          \/ job'[j].attempts = 0 /\ job'[j].status = "deleted"
    BY <2>1, <2>3
  <2>5. \A j : Held(j) => Held(j)'
    BY <2>2
  <2>6. AttemptsPaidFor'
    BY <2>2, <2>4, TimesAssumption
  <2>7. ASSUME NEW j \in JobIds,
               (job[j].status = "pending" \/ (job[j].status = "running" /\ ~Held(j)))'
        PROVE  (job[j].attempts < MaxAttempts + crashes)'
    BY <2>2, <2>4, <2>5, <2>7
  <2>. QED
    BY <2>6, <2>7
<1>9. ASSUME NEW w \in Workers, RunOk(w) \/ RunFail(w)
      PROVE  AttemptsInv'
  <2>1. /\ pc[w] \in Handling
        /\ cur[w] \in JobIds
        /\ job[cur[w]].status = "running"
    BY <1>9 DEF RunOk, RunFail
  <2>2. \A j \in JobIds : j # cur[w] => job'[j] = job[j]
    BY <1>9 DEF RunOk, RunFail
  <2>3. \/ job'[cur[w]] = AfterFailure(job[cur[w]])
        \/ job'[cur[w]] = [job[cur[w]] EXCEPT !.status = "done",
                              !.finishedAt = now, !.lockedAt = Null]
    <3>1. CASE RunOk(w)
      BY <2>1, <3>1 DEF RunOk, Absent
    <3>2. CASE RunFail(w)
      BY <2>1, <3>2 DEF RunFail, Absent
    <3>. QED
      BY <1>9, <3>1, <3>2
  <2>4. /\ job'[cur[w]].attempts = job[cur[w]].attempts
        /\ \/ job'[cur[w]].status \in {"done", "failed"}
           \/ job'[cur[w]].status = "pending" /\ job[cur[w]].attempts < MaxAttempts
    <3>1. job[cur[w]] \in Rows
      BY <2>1
    <3>2. CASE job'[cur[w]] = AfterFailure(job[cur[w]])
      BY <3>1, <3>2, FailureVerdict
    <3>3. CASE job'[cur[w]] = [job[cur[w]] EXCEPT !.status = "done",
                                 !.finishedAt = now, !.lockedAt = Null]
      BY <3>1, <3>3, SuccessVerdict
    <3>. QED
      BY <2>3, <3>2, <3>3
  <2>5. \A v \in Workers \ {w} : pc'[v] = pc[v] /\ cur'[v] = cur[v]
    BY <1>9 DEF RunOk, RunFail
  <2>6. crashes' = crashes
    BY <1>9 DEF RunOk, RunFail
  <2>7. \A j \in JobIds : job[j].attempts \in Nat
    BY DEF Rows
  <2>. QED
    BY <2>1, <2>2, <2>4, <2>5, <2>6, <2>7
<1>10. ASSUME NEW w \in Workers, Crash(w)
       PROVE  AttemptsInv'
  <2>1. \A j \in JobIds : job[j].attempts \in Nat
    BY DEF Rows
  <2>. QED
    BY <1>10, <2>1 DEF Crash
<1>11. CASE EnqueueTask
  <2>1. PICK j \in JobIds :
          /\ job[j].status = "none"
          /\ job' = [job EXCEPT ![j] = NewRow(now)]
    BY <1>11, IdsNamedAreIds DEF EnqueueTask, Enqueue
  <2>2. NewRow(now).attempts = 0
    BY DEF NewRow, NoRow
  <2>3. job'[j].attempts = 0 /\ \A k \in JobIds : k # j => job'[k] = job[k]
    BY <2>1, <2>2
  <2>4. UNCHANGED <<pc, cur, crashes>>
    BY <1>11 DEF EnqueueTask, workerVars
  <2>5. \A k : Held(k)' = Held(k)
    BY <2>4
  <2>6. 0 < MaxAttempts + crashes
    BY TimesAssumption
  <2>. QED
    BY <2>3, <2>4, <2>5, <2>6
<1>12. ASSUME NEW o \in Operators, NEW j \in JobIds, RetryLoad(o, j)
       PROVE  AttemptsInv'
  BY <1>1, <1>12 DEF RetryLoad, workerVars
<1>13. ASSUME NEW o \in Operators, RetrySave(o)
       PROVE  AttemptsInv'
  <2>1. \A j \in JobIds : job'[j] = job[j] \/ job'[j].attempts = 0
    BY <1>13 DEF RetrySave, NewRow, NoRow
  <2>2. UNCHANGED <<cur, pc, crashes>>
    BY <1>13 DEF RetrySave, workerVars
  <2>. QED
    BY <2>1, <2>2
<1>14. CASE Tick
  BY <1>1, <1>14 DEF Tick, workerVars
<1>15. CASE UNCHANGED vars
  BY <1>1, <1>15 DEF vars
<1>. QED
  BY <1>2, <1>3, <1>4, <1>5, <1>6, <1>7, <1>8, <1>9, <1>10, <1>11, <1>12, <1>13,
     <1>14, <1>15
  DEF Next, WorkerStep, Loop

\* Under the same hypotheses, every claim of a job beyond max_attempts was
\* paid for by a worker that died holding a job.
THEOREM AttemptsBounded ==
  ASSUME PromptHandlers = TRUE, OneOperator
  PROVE  Spec => []AttemptsPaidFor
<1>1. TypeInv /\ LeaseInv /\ [Next]_vars => LeaseInv'
  BY NextLease
<1>2. TypeInv /\ LeaseInv /\ AttemptsInv /\ [Next]_vars => AttemptsInv'
  BY NextAttempts
<1>3. AttemptsInv => AttemptsPaidFor
  BY DEF AttemptsInv
<1>. QED
  BY InitLease, InitAttempts, TypeCorrect, <1>1, <1>2, <1>3, PTL DEF Spec
-----------------------------------------------------------------------------
(* The queue implements the lease *)

\* While nobody shares a row, its holder is the worker that runs it.
LEMMA HolderOf ==
  OneRunner =>
    /\ \A w \in Workers : \A j : pc[w] \in Handling /\ cur[w] = j => Holder(j) = w
    /\ \A j : ~Held(j) => Holder(j) = NoWorker
BY DEF OneRunner, Holder, Held

LEMMA HolderOfNext ==
  OneRunner' =>
    /\ \A w \in Workers : \A j : pc'[w] \in Handling /\ cur'[w] = j => Holder(j)' = w
    /\ \A j : ~Held(j)' => Holder(j)' = NoWorker
BY DEF OneRunner, Holder, Held

\* A worker's step changes no other row's holder when the others stay put.
LEMMA OtherHolders ==
  ASSUME OneRunner, OneRunner', NEW w,
         \A v \in Workers \ {w} : pc'[v] = pc[v] /\ cur'[v] = cur[v],
         NEW j, pc[w] \in Handling => j # cur[w], pc'[w] \in Handling => j # cur'[w]
  PROVE  Holder(j)' = Holder(j)
<1>1. CASE Held(j)
  <2>1. PICK v \in Workers : pc[v] \in Handling /\ cur[v] = j
    BY <1>1 DEF Held
  <2>2. v # w
    BY <2>1
  <2>3. pc'[v] \in Handling /\ cur'[v] = j
    BY <2>1, <2>2
  <2>. QED
    BY <2>1, <2>3, HolderOf, HolderOfNext
<1>2. CASE ~Held(j)
  <2>1. ~Held(j)'
    BY <1>2 DEF Held
  <2>. QED
    BY <1>2, <2>1, HolderOf, HolderOfNext
<1>. QED
  BY <1>1, <1>2

LEMMA SameHolders ==
  ASSUME OneRunner, OneRunner',
         \A v \in Workers : pc'[v] \in Handling <=> pc[v] \in Handling,
         \A v \in Workers : pc[v] \in Handling => cur'[v] = cur[v]
  PROVE  \A j : Holder(j)' = Holder(j)
<1>1. \A j : Held(j)' <=> Held(j)
  BY DEF Held
<1>2. ASSUME NEW j, Held(j)
      PROVE  Holder(j)' = Holder(j)
  <2>1. PICK v \in Workers : pc[v] \in Handling /\ cur[v] = j
    BY <1>2 DEF Held
  <2>. QED
    BY <2>1, HolderOf, HolderOfNext
<1>3. ASSUME NEW j, ~Held(j)
      PROVE  Holder(j)' = Holder(j)
  BY <1>1, <1>3, HolderOf, HolderOfNext
<1>. QED
  BY <1>2, <1>3

LEMMA InitImplements == Init => Lease!LeaseInit
<1>1. Init => \A j : ~Held(j)
  BY DEF Init, Held, Handling
<1>2. Init => OneRunner
  BY DEF Init, OneRunner, Handling
<1>. QED
  BY <1>1, <1>2, HolderOf DEF Init, Lease!LeaseInit, NoRow

\* Every step of the queue is a step of the lease or leaves it as it is.
LEMMA NextImplements ==
  ASSUME TypeInv, LeaseInv, LeaseInv', [Next]_vars
  PROVE  [Lease!LeaseNext]_(Lease!leaseVars)
<1> DEFINE Goal == [Lease!LeaseNext]_(Lease!leaseVars)
<1>0. OneRunner /\ OneRunner'
  BY DEF LeaseInv
<1>. USE DEF TypeInv, TypeOK, Places, Busy, Handling, GoTo, Drop
\* Steps the lease does not see.
<1>1. ASSUME \A j \in JobIds : job'[j].status = job[j].status,
             \A j : Holder(j)' = Holder(j)
      PROVE  Goal
  BY <1>1 DEF Lease!leaseVars
<1>2. ASSUME NEW w \in Workers,
             SeedCheck(w) \/ StartInline(w) \/ EndInline(w) \/ ClaimSelect(w)
               \/ ClaimLost(w) \/ BookCheck(w)
      PROVE  Goal
  <2>1. /\ \A v \in Workers : pc'[v] \in Handling <=> pc[v] \in Handling
        /\ \A v \in Workers : pc[v] \in Handling => cur'[v] = cur[v]
        /\ UNCHANGED job
    BY <1>2 DEF SeedCheck, StartInline, EndInline, ClaimSelect, ClaimLost, BookCheck
  <2>. QED
    BY <1>0, <1>1, <2>1, SameHolders
\* A recovery resets rows that nobody holds.
<1>3. ASSUME NEW w \in Workers, StartWorker(w)
      PROVE  Goal
  <2> DEFINE S == {j \in JobIds : Zombie(j)}
  <2>1. \A j \in S : job[j].status = "running" /\ ~Held(j)
    BY TimesAssumption DEF Zombie, Held, LeaseInv
  <2>2. \A j \in S : Holder(j) = NoWorker
    BY <1>0, <2>1, HolderOf
  <2>3. \A v \in Workers : pc'[v] \in Handling <=> pc[v] \in Handling
    BY <1>3 DEF StartWorker
  <2>4. UNCHANGED cur
    BY <1>3 DEF StartWorker
  <2>5. \A j : Holder(j)' = Holder(j)
    BY <1>0, <2>3, <2>4, SameHolders
  <2>6. ASSUME NEW j \in JobIds
        PROVE  job'[j].status = IF j \in S THEN "pending" ELSE job[j].status
    <3>1. CASE Zombie(j)
      <4>1. job'[j] = [job[j] EXCEPT !.status = "pending", !.lockedAt = Null]
        BY <1>3, <3>1 DEF StartWorker
      <4>2. job[j] \in Rows
        OBVIOUS
      <4>. QED
        BY <3>1, <4>1, <4>2, ResetKeepsAttempts
    <3>2. CASE ~Zombie(j)
      BY <1>3, <3>2 DEF StartWorker
    <3>. QED
      BY <3>1, <3>2
  <2>7. Lease!Reclaim
    <3>1. S \in SUBSET {j \in JobIds : job[j].status = "running" /\ Holder(j) = NoWorker}
      BY <2>1, <2>2
    <3>. QED
      BY <2>5, <2>6, <3>1 DEF Lease!Reclaim
  <2>. QED
    BY <2>7 DEF Lease!LeaseNext
\* A row that is saved is booked.
<1>4. ASSUME NEW j \in JobIds, job[j].status = "none", NEW t,
             job' = [job EXCEPT ![j] = NewRow(t)],
             \A k : Holder(k)' = Holder(k)
      PROVE  Goal
  <2>1. \A k \in JobIds : job'[k].status = IF k = j THEN "pending" ELSE job[k].status
    BY <1>4 DEF NewRow, NoRow
  <2>2. Lease!Book(j)
    BY <1>4, <2>1 DEF Lease!Book
  <2>. QED
    BY <2>2 DEF Lease!LeaseNext
<1>5. ASSUME NEW w \in Workers, SeedEnqueue(w) \/ BookEnqueue(w)
      PROVE  Goal
  <2>1. /\ \A v \in Workers : pc'[v] \in Handling <=> pc[v] \in Handling
        /\ UNCHANGED cur
    BY <1>5 DEF SeedEnqueue, BookEnqueue
  <2>2. \A k : Holder(k)' = Holder(k)
    BY <1>0, <2>1, SameHolders
  <2>3. PICK n, t : Enqueue(n, t)
    BY <1>5 DEF SeedEnqueue, BookEnqueue
  <2>4. PICK j \in JobIds : job[j].status = "none" /\ job' = [job EXCEPT ![j] = NewRow(t)]
    BY <2>3, IdsNamedAreIds DEF Enqueue
  <2>. QED
    BY <1>4, <2>2, <2>4
<1>6. CASE EnqueueTask
  <2>1. \A k : Holder(k)' = Holder(k)
    BY <1>0, <1>6, SameHolders DEF EnqueueTask, workerVars
  <2>2. PICK j \in JobIds : job[j].status = "none" /\ job' = [job EXCEPT ![j] = NewRow(now)]
    BY <1>6, IdsNamedAreIds DEF EnqueueTask, Enqueue
  <2>. QED
    BY <1>4, <2>1, <2>2
\* A claim that is won takes a row nobody holds.
<1>7. ASSUME NEW w \in Workers, ClaimWon(w)
      PROVE  Goal
  <2>1. PICK j \in JobIds : j = cur[w]
    BY <1>7 DEF ClaimWon
  <2>2. job[j].status = "pending" /\ ~Held(j)
    BY <1>7, <2>1 DEF ClaimWon, Held, LeaseInv
  <2>3. /\ pc'[w] \in Handling /\ pc[w] \notin Handling
        /\ \A v \in Workers \ {w} : pc'[v] = pc[v] /\ cur'[v] = cur[v]
        /\ cur'[w] = j
    BY <1>7, <2>1 DEF ClaimWon, HandlerStart
  <2>4. \A k \in JobIds : job'[k].status = IF k = j THEN "running" ELSE job[k].status
    BY <1>7, <2>1 DEF ClaimWon, Rows
  <2>5. Holder(j) = NoWorker /\ Holder(j)' = w
    BY <1>0, <2>2, <2>3, HolderOf, HolderOfNext
  <2>6. \A k : k # j => Holder(k)' = Holder(k)
    BY <1>0, <2>3, OtherHolders
  <2>7. Lease!Take(w, j)
    BY <2>2, <2>4, <2>5, <2>6 DEF Lease!Take
  <2>. QED
    BY <2>7 DEF Lease!LeaseNext
\* A purge forgets finished rows.
<1>8. ASSUME NEW w \in Workers, Purge(w)
      PROVE  Goal
  <2> DEFINE S == {j \in JobIds : Purgeable(j)}
  <2>1. /\ \A v \in Workers : pc'[v] \in Handling <=> pc[v] \in Handling
        /\ UNCHANGED cur
    BY <1>8 DEF Purge
  <2>2. \A j : Holder(j)' = Holder(j)
    BY <1>0, <2>1, SameHolders
  <2>3. \A j \in JobIds : job'[j].status = IF j \in S THEN "deleted" ELSE job[j].status
    BY <1>8 DEF Purge, DeletedRow, NoRow
  <2>4. S \in SUBSET {j \in JobIds : job[j].status \in {"done", "failed"}}
    BY DEF Purgeable
  <2>5. Lease!Forget
    BY <2>2, <2>3, <2>4 DEF Lease!Forget
  <2>. QED
    BY <2>5 DEF Lease!LeaseNext
\* A worker that lets go of a row leaves it without a holder.
<1>9. ASSUME NEW w \in Workers, NEW j, pc[w] \in Handling, cur[w] = j,
             pc'[w] \notin Handling,
             \A v \in Workers \ {w} : pc'[v] = pc[v] /\ cur'[v] = cur[v]
      PROVE  /\ Holder(j) = w
             /\ Holder(j)' = NoWorker
             /\ \A k : k # j => Holder(k)' = Holder(k)
  <2>1. ~Held(j)'
    BY <1>0, <1>9 DEF OneRunner, Held
  <2>2. \A k : k # j => Holder(k)' = Holder(k)
    BY <1>0, <1>9, OtherHolders
  <2>. QED
    BY <1>0, <1>9, <2>1, <2>2, HolderOf, HolderOfNext
\* The end of a run is the holder's verdict.
<1>10. ASSUME NEW w \in Workers, RunOk(w) \/ RunFail(w)
       PROVE  Goal
  <2>1. PICK j \in JobIds : j = cur[w]
    BY <1>10 DEF RunOk, RunFail
  <2>2. /\ pc[w] \in Handling /\ job[j].status = "running" /\ job[j] \in Rows
        /\ pc'[w] \notin Handling
        /\ \A v \in Workers \ {w} : pc'[v] = pc[v] /\ cur'[v] = cur[v]
    BY <1>10, <2>1 DEF RunOk, RunFail, LeaseInv
  <2>3. \A k \in JobIds : k # j => job'[k] = job[k]
    BY <1>10, <2>1 DEF RunOk, RunFail
  <2>4. job'[j].status \in {"done", "failed", "pending"}
    <3>1. CASE RunOk(w)
      <4>1. job'[j] = [job[j] EXCEPT !.status = "done",
                         !.finishedAt = now, !.lockedAt = Null]
        BY <2>1, <2>2, <3>1 DEF RunOk, Absent
      <4>. QED
        BY <2>2, <4>1, SuccessVerdict
    <3>2. CASE RunFail(w)
      <4>1. job'[j] = AfterFailure(job[j])
        BY <2>1, <2>2, <3>2 DEF RunFail, Absent
      <4>. QED
        BY <2>2, <4>1, FailureVerdict
    <3>. QED
      BY <1>10, <3>1, <3>2
  <2>5. Holder(j) = w /\ Holder(j)' = NoWorker /\ \A k : k # j => Holder(k)' = Holder(k)
    BY <1>9, <2>1, <2>2
  <2>6. Lease!Decide(w, j)
    <3>1. PICK p \in {"done", "failed", "pending"} : p = job'[j].status
      BY <2>4
    <3>2. \A k \in JobIds : job'[k].status = IF k = j THEN p ELSE job[k].status
      BY <2>3, <3>1
    <3>. QED
      BY <2>2, <2>5, <3>2 DEF Lease!Decide
  <2>. QED
    BY <2>6 DEF Lease!LeaseNext
\* A worker that dies with a row in hand orphans it.
<1>11. ASSUME NEW w \in Workers, Crash(w)
       PROVE  Goal
  <2>1. /\ pc'[w] \notin Handling
        /\ \A v \in Workers \ {w} : pc'[v] = pc[v] /\ cur'[v] = cur[v]
        /\ UNCHANGED job
    BY <1>11 DEF Crash
  <2>2. CASE pc[w] \notin Handling
    <3>1. \A j : Holder(j)' = Holder(j)
      BY <1>0, <2>1, <2>2, OtherHolders
    <3>. QED
      BY <1>1, <2>1, <3>1
  <2>3. CASE pc[w] \in Handling
    <3>1. PICK j \in JobIds : j = cur[w]
      BY <2>3
    <3>2. Holder(j) = w /\ Holder(j)' = NoWorker /\ \A k : k # j => Holder(k)' = Holder(k)
      BY <1>9, <2>1, <2>3, <3>1
    <3>3. Lease!Orphan(w, j)
      BY <2>1, <3>2 DEF Lease!Orphan
    <3>. QED
      BY <3>3 DEF Lease!LeaseNext
  <2>. QED
    BY <2>2, <2>3
<1>12. ASSUME NEW o \in Operators, NEW j \in JobIds, RetryLoad(o, j)
       PROVE  Goal
  <2>1. UNCHANGED <<job, pc, cur>>
    BY <1>12 DEF RetryLoad, workerVars
  <2>. QED
    BY <1>0, <1>1, <2>1, SameHolders
\* A retry requeues a failed row, or finds it purged.
<1>13. ASSUME NEW o \in Operators, RetrySave(o)
       PROVE  Goal
  <2>1. loaded[o] \in JobIds /\ job[loaded[o]].status \in {"failed", "deleted"}
    BY <1>13 DEF RetrySave, LeaseInv
  <2>2. UNCHANGED <<pc, cur>>
    BY <1>13 DEF RetrySave, workerVars
  <2>3. \A k : Holder(k)' = Holder(k)
    BY <1>0, <2>2, SameHolders
  <2>4. CASE job[loaded[o]].status = "deleted"
    BY <1>1, <1>13, <2>3, <2>4 DEF RetrySave, Absent
  <2>5. CASE job[loaded[o]].status = "failed"
    <3>1. PICK j \in JobIds : j = loaded[o]
      BY <2>1
    <3>2. \A k \in JobIds : job'[k].status = IF k = j THEN "pending" ELSE job[k].status
      BY <1>13, <2>5, <3>1 DEF RetrySave, Absent, NewRow, NoRow
    <3>3. Lease!Requeue(j)
      BY <2>3, <2>5, <3>1, <3>2 DEF Lease!Requeue
    <3>. QED
      BY <3>3 DEF Lease!LeaseNext
  <2>. QED
    BY <2>1, <2>4, <2>5
<1>14. CASE Tick \/ UNCHANGED vars
  <2>1. UNCHANGED <<job, pc, cur>>
    BY <1>14 DEF Tick, workerVars, vars
  <2>. QED
    BY <1>0, <1>1, <2>1, SameHolders
<1>. QED
  BY <1>2, <1>3, <1>5, <1>6, <1>7, <1>8, <1>10, <1>11, <1>12, <1>13, <1>14
  DEF Next, WorkerStep, Loop

\* The refinement, for every set of workers and rows: while no claim outlives
\* the zombie timeout and operators do not retry at the same time, the queue
\* behaves as a lease (one holder, its verdict alone, only orphans reclaimed).
THEOREM QueueIsLease ==
  ASSUME PromptHandlers = TRUE, OneOperator
  PROVE  Spec => ImplementsLease
<1>1. TypeInv /\ LeaseInv /\ [Next]_vars => LeaseInv'
  BY NextLease
<1>2. TypeInv /\ LeaseInv /\ LeaseInv' /\ [Next]_vars
        => [Lease!LeaseNext]_(Lease!leaseVars)
  BY NextImplements
<1>. QED
  BY InitLease, InitImplements, TypeCorrect, <1>1, <1>2, PTL
  DEF Spec, ImplementsLease, Lease!LeaseSpec

-----------------------------------------------------------------------------
(* The cleanup schedule *)

\* Workers that run a cleanup and have seen to its successor.
PastCheck == {w \in Workers : cur[w] \in CleanupIds /\ pc[w] \in {"working", "purged"}}

\* A row that will book the next cleanup, or waits for an operator.
Live(j) ==
  \/ job[j].status \in {"pending", "failed"}
  \/ job[j].status = "running" /\ \A w \in PastCheck : cur[w] # j

\* No cleanup that is under way is late enough to purge the row.
Young(j) == \A w \in PastCheck : job[j].status = "failed" => job[j].finishedAt >= at[w]

\* The inductive strengthening of ScheduleNeverLost: one row stands in for
\* all the cleanups that no longer look after the schedule.
ScheduleInv ==
  /\ \A w \in Workers : pc[w] \in Busy => at[w] <= now
  /\ PastCheck # {} => \E j \in CleanupIds : Live(j) /\ Young(j)

\* What a step may do to that row.
Carried ==
  /\ PastCheck' \subseteq PastCheck
  /\ \A w \in PastCheck' : cur'[w] = cur[w] /\ at'[w] = at[w]
  /\ \A j \in CleanupIds : Live(j) /\ Young(j) =>
       \/ job'[j] = job[j]
       \/ job'[j].status = "pending"
       \/ job'[j].status = "failed" /\ job'[j].finishedAt = now
       \/ job'[j].status = "running" /\ \A w \in PastCheck' : cur[w] # j

LEMMA WitnessCarried ==
  ASSUME TypeInv, ScheduleInv, Carried
  PROVE  PastCheck' # {} => \E j \in CleanupIds : Live(j)' /\ Young(j)'
<1> SUFFICES ASSUME PastCheck' # {} PROVE \E j \in CleanupIds : Live(j)' /\ Young(j)'
  OBVIOUS
<1>1. PICK j \in CleanupIds : Live(j) /\ Young(j)
  BY DEF ScheduleInv, Carried
<1>2. \A w \in PastCheck : at[w] <= now
  BY DEF ScheduleInv, PastCheck, Busy, Handling
<1>3. CASE job'[j] = job[j]
  BY <1>1, <1>3 DEF Carried, Live, Young
<1>4. CASE job'[j].status = "pending"
  BY <1>4 DEF Live, Young
<1>5. CASE job'[j].status = "failed" /\ job'[j].finishedAt = now
  <2>1. \A w \in PastCheck' : at'[w] <= now
    BY <1>2 DEF Carried
  <2>2. \A w \in PastCheck' : at'[w] \in Int
    BY DEF TypeInv, TypeOK, PastCheck, Carried
  <2> QED
    BY <1>5, <2>1, <2>2 DEF Live, Young, TypeInv, TypeOK
<1>6. CASE job'[j].status = "running" /\ \A w \in PastCheck' : cur[w] # j
  BY <1>6 DEF Live, Young, Carried
<1> QED
  BY <1>1, <1>3, <1>4, <1>5, <1>6 DEF Carried

\* A cleanup's bookings are looked for and made among the cleanups.
LEMMA CleanupNamed ==
  ASSUME NEW j \in CleanupIds
  PROVE  IdsNamed(NameOf(j)) = CleanupIds
<1>1. NameOf(j) \in Names /\ j \in IdsNamed(NameOf(j))
  BY DEF NameOf, Names, IdsNamed
<1> QED
  BY <1>1, IdsAssumption DEF Names, IdsNamed

LEMMA InitSchedule == Init => ScheduleInv
BY DEF Init, ScheduleInv, PastCheck, Busy, Handling

LEMMA NextSchedule ==
  ASSUME PromptHandlers = TRUE, OneOperator, DoneRetention >= ZombieTimeout,
         TypeInv, LeaseInv, ScheduleInv, [Next]_vars
  PROVE  ScheduleInv'
<1> DEFINE Clock == \A w \in Workers : pc[w] \in Busy => at[w] <= now
<1> USE DEF TypeInv, TypeOK, Places, Busy, Handling, GoTo, Drop
<1>0. Clock
  BY DEF ScheduleInv
<1>a. ASSUME Clock', Carried PROVE ScheduleInv'
  BY <1>a, WitnessCarried DEF ScheduleInv
<1>b. \A w \in PastCheck : job[cur[w]].status = "running"
  BY DEF PastCheck, LeaseInv
<1>c. \A j \in CleanupIds : Live(j) => \A w \in PastCheck : cur[w] # j
  BY <1>b DEF Live
<1>1. ASSUME NEW w \in Workers, StartWorker(w)
      PROVE  ScheduleInv'
  <2>1. \A j \in JobIds : job'[j] = job[j] \/ job'[j].status = "pending"
    BY <1>1, RowTypes DEF StartWorker, Rows
  <2>2. PastCheck' = PastCheck /\ cur' = cur /\ at' = at /\ now' = now
    BY <1>1 DEF StartWorker, PastCheck
  <2>3. Carried
    BY <2>1, <2>2 DEF Carried, JobIds
  <2>4. Clock'
    BY <1>0, <1>1 DEF StartWorker
  <2>. QED
    BY <1>a, <2>3, <2>4
<1>2. ASSUME NEW w \in Workers, SeedCheck(w) \/ StartInline(w) \/ EndInline(w) \/ ClaimLost(w) \/ Crash(w)
      PROVE  ScheduleInv'
  <2>1. job' = job /\ now' = now
    BY <1>2 DEF SeedCheck, StartInline, EndInline, ClaimLost, Crash
  <2>2. \A v \in Workers : pc'[v] \in Busy => pc'[v] = pc[v] /\ cur'[v] = cur[v] /\ at'[v] = at[v]
    BY <1>2 DEF SeedCheck, StartInline, EndInline, ClaimLost, Crash
  <2>3. Carried
    BY <2>1, <2>2 DEF Carried, PastCheck
  <2>4. Clock'
    BY <1>0, <2>1, <2>2
  <2>. QED
    BY <1>a, <2>3, <2>4
<1>3. ASSUME NEW w \in Workers, SeedEnqueue(w)
      PROVE  ScheduleInv'
  <2>1. \A j \in JobIds : job[j].status # "none" => job'[j] = job[j]
    BY <1>3 DEF SeedEnqueue, Enqueue
  <2>2. PastCheck' = PastCheck /\ cur' = cur /\ at' = at /\ now' = now
    BY <1>3 DEF SeedEnqueue, PastCheck
  <2>3. Carried
    BY <2>1, <2>2 DEF Carried, Live, JobIds
  <2>4. Clock'
    BY <1>0, <1>3 DEF SeedEnqueue
  <2>. QED
    BY <1>a, <2>3, <2>4
<1>5. ASSUME NEW w \in Workers, ClaimSelect(w)
      PROVE  ScheduleInv'
  <2>1. job' = job /\ now' = now /\ pc'[w] = "claiming" /\ at'[w] = now
    BY <1>5 DEF ClaimSelect
  <2>2. \A v \in Workers \ {w} : pc'[v] = pc[v] /\ cur'[v] = cur[v] /\ at'[v] = at[v]
    BY <1>5 DEF ClaimSelect
  <2>3. Carried
    BY <2>1, <2>2 DEF Carried, PastCheck
  <2>4. Clock'
    BY <1>0, <2>1, <2>2
  <2>. QED
    BY <1>a, <2>3, <2>4
<1>6. ASSUME NEW w \in Workers, ClaimWon(w)
      PROVE  ScheduleInv'
  <2>1. /\ now' = now /\ cur' = cur /\ at' = at /\ pc[w] = "claiming"
        /\ \A v \in Workers \ {w} : pc'[v] = pc[v]
        /\ cur[w] \in JobIds /\ job[cur[w]].status = "pending"
    BY <1>6 DEF ClaimWon
  <2>2. job'[cur[w]].status = "running" /\ \A j \in JobIds : j # cur[w] => job'[j] = job[j]
    BY <1>6, <2>1 DEF ClaimWon, Rows
  <2>3. cur[w] \in CleanupIds => pc'[w] = "book_check"
    BY <1>6 DEF ClaimWon, HandlerStart
  <2>4. PastCheck' = PastCheck
    BY <2>1, <2>3 DEF PastCheck
  <2>5. Carried
    BY <1>c, <2>1, <2>2, <2>4 DEF Carried, JobIds
  <2>6. Clock'
    BY <1>0, <2>1
  <2>. QED
    BY <1>a, <2>5, <2>6
<1>8. ASSUME NEW w \in Workers, BookCheck(w)
      PROVE  ScheduleInv'
  <2>1. /\ job' = job /\ now' = now /\ cur' = cur /\ at' = at /\ pc[w] = "book_check"
        /\ \A v \in Workers \ {w} : pc'[v] = pc[v]
    BY <1>8 DEF BookCheck
  <2>2. Clock'
    BY <1>0, <2>1
  <2>3. CASE cur[w] \in CleanupIds /\ PendingExists(NameOf(cur[w]))
    <3>1. PICK k \in CleanupIds : job[k].status = "pending"
      BY <2>3, CleanupNamed DEF PendingExists
    <3>2. Live(k)' /\ Young(k)'
      BY <2>1, <3>1 DEF Live, Young
    <3>. QED
      BY <2>2, <3>2 DEF ScheduleInv
  <2>4. CASE ~(cur[w] \in CleanupIds /\ PendingExists(NameOf(cur[w])))
    <3>1. PastCheck' = PastCheck
      BY <1>8, <2>1, <2>4 DEF BookCheck, PastCheck
    <3>2. Carried
      BY <2>1, <3>1 DEF Carried
    <3>. QED
      BY <1>a, <2>2, <3>2
  <2>. QED
    BY <2>3, <2>4
<1>9. ASSUME NEW w \in Workers, BookEnqueue(w)
      PROVE  ScheduleInv'
  <2>1. /\ now' = now /\ cur' = cur /\ at' = at /\ pc[w] = "book_enqueue"
        /\ \A v \in Workers \ {w} : pc'[v] = pc[v]
    BY <1>9 DEF BookEnqueue
  <2>2. Clock'
    BY <1>0, <2>1
  <2>3. CASE cur[w] \in CleanupIds
    <3>1. PICK k \in CleanupIds : job' = [job EXCEPT ![k] = NewRow(now + Day)]
      BY <1>9, <2>3, CleanupNamed DEF BookEnqueue, Enqueue
    <3>2. job'[k].status = "pending"
      BY <3>1 DEF JobIds, NewRow, NoRow
    <3>3. Live(k)' /\ Young(k)'
      BY <3>2 DEF Live, Young
    <3>. QED
      BY <2>2, <3>3 DEF ScheduleInv
  <2>4. CASE cur[w] \notin CleanupIds
    <3>1. PastCheck' = PastCheck
      BY <2>1, <2>4 DEF PastCheck
    <3>2. \A j \in JobIds : job[j].status # "none" => job'[j] = job[j]
      BY <1>9 DEF BookEnqueue, Enqueue
    <3>3. Carried
      BY <2>1, <3>1, <3>2 DEF Carried, Live, JobIds
    <3>. QED
      BY <1>a, <2>2, <3>3
  <2>. QED
    BY <2>3, <2>4
<1>10. ASSUME NEW w \in Workers, Purge(w)
       PROVE  ScheduleInv'
  <2>1. now' = now /\ cur' = cur /\ at' = at
    BY <1>10 DEF Purge
  <2>2. w \in PastCheck /\ PastCheck' = PastCheck
    BY <1>10 DEF Purge, PastCheck
  <2>3. at[w] \in Nat /\ now <= at[w] + ZombieTimeout
    BY <1>10 DEF Purge, LeaseInv
  <2>4. \A j \in CleanupIds : Live(j) /\ Young(j) => ~Purgeable(j)
    <3> SUFFICES ASSUME NEW j \in CleanupIds, Live(j), Young(j), Purgeable(j) PROVE FALSE
      OBVIOUS
    <3>1. job[j].status = "failed" /\ job[j].finishedAt >= at[w]
      BY <2>2 DEF Live, Young, Purgeable
    <3>2. job[j].finishedAt \in Int
      BY DEF JobIds, Rows
    <3>. QED
      BY <2>3, <3>1, <3>2, TimesAssumption DEF Purgeable
  <2>5. \A j \in JobIds : ~Purgeable(j) => job'[j] = job[j]
    BY <1>10 DEF Purge
  <2>6. Carried
    BY <2>1, <2>2, <2>4, <2>5 DEF Carried, JobIds
  <2>7. Clock'
    BY <1>0, <1>10 DEF Purge
  <2>. QED
    BY <1>a, <2>6, <2>7
<1>11. ASSUME NEW w \in Workers, RunOk(w)
       PROVE  ScheduleInv'
  <2>1. now' = now /\ \A j \in JobIds : j # cur[w] => job'[j] = job[j]
    BY <1>11 DEF RunOk
  <2>2. \A v \in Workers : pc'[v] \in Busy => pc'[v] = pc[v] /\ cur'[v] = cur[v] /\ at'[v] = at[v]
    BY <1>11 DEF RunOk
  <2>3. cur[w] \in CleanupIds => w \in PastCheck
    BY <1>11 DEF RunOk, PastCheck
  <2>4. Carried
    BY <1>c, <2>1, <2>2, <2>3 DEF Carried, PastCheck, JobIds
  <2>5. Clock'
    BY <1>0, <2>1, <2>2
  <2>. QED
    BY <1>a, <2>4, <2>5
<1>12. ASSUME NEW w \in Workers, RunFail(w)
       PROVE  ScheduleInv'
  <2>1. /\ now' = now /\ cur[w] \in JobIds
        /\ \A j \in JobIds : j # cur[w] => job'[j] = job[j]
    BY <1>12 DEF RunFail
  <2>2. \A v \in Workers : pc'[v] \in Busy => pc'[v] = pc[v] /\ cur'[v] = cur[v] /\ at'[v] = at[v]
    BY <1>12 DEF RunFail
  <2>3. \/ job'[cur[w]] = job[cur[w]]
        \/ job'[cur[w]].status = "pending"
        \/ job'[cur[w]].status = "failed" /\ job'[cur[w]].finishedAt = now
    <3>1. CASE Absent(cur[w])
      BY <1>12, <3>1 DEF RunFail
    <3>2. CASE ~Absent(cur[w])
      <4>1. job'[cur[w]] = AfterFailure(job[cur[w]]) /\ job[cur[w]] \in Rows
        BY <1>12, <2>1, <3>2 DEF RunFail
      <4>. QED
        BY <4>1, FailureVerdict
    <3>. QED
      BY <3>1, <3>2
  <2>4. Carried
    BY <2>1, <2>2, <2>3 DEF Carried, PastCheck, JobIds
  <2>5. Clock'
    BY <1>0, <2>1, <2>2
  <2>. QED
    BY <1>a, <2>4, <2>5
<1>14. CASE EnqueueTask
  <2>1. \A j \in JobIds : job[j].status # "none" => job'[j] = job[j]
    BY <1>14 DEF EnqueueTask, Enqueue
  <2>2. PastCheck' = PastCheck /\ cur' = cur /\ at' = at
    BY <1>14 DEF EnqueueTask, workerVars, PastCheck
  <2>3. Carried
    BY <2>1, <2>2 DEF Carried, Live, JobIds
  <2>4. Clock'
    BY <1>0, <1>14 DEF EnqueueTask, workerVars
  <2>. QED
    BY <1>a, <2>3, <2>4
<1>15. ASSUME NEW o \in Operators, NEW j \in JobIds, RetryLoad(o, j)
       PROVE  ScheduleInv'
  <2>1. Carried
    BY <1>15 DEF RetryLoad, workerVars, Carried, PastCheck
  <2>2. Clock'
    BY <1>0, <1>15 DEF RetryLoad, workerVars
  <2>. QED
    BY <1>a, <2>1, <2>2
<1>16. ASSUME NEW o \in Operators, RetrySave(o)
       PROVE  ScheduleInv'
  <2>1. \A j \in JobIds : job'[j] = job[j] \/ job'[j].status = "pending"
    BY <1>16 DEF RetrySave, NewRow, NoRow
  <2>2. PastCheck' = PastCheck /\ cur' = cur /\ at' = at
    BY <1>16 DEF RetrySave, workerVars, PastCheck
  <2>3. Carried
    BY <2>1, <2>2 DEF Carried, JobIds
  <2>4. Clock'
    BY <1>0, <1>16 DEF RetrySave, workerVars
  <2>. QED
    BY <1>a, <2>3, <2>4
<1>17. CASE Tick
  <2>1. Carried
    BY <1>17 DEF Tick, workerVars, Carried, PastCheck
  <2>2. Clock'
    BY <1>0, <1>17 DEF Tick, workerVars
  <2>. QED
    BY <1>a, <2>1, <2>2
<1>18. CASE UNCHANGED vars
  BY <1>0, <1>18 DEF vars, ScheduleInv, PastCheck, Live, Young
<1>. QED
  BY <1>1, <1>2, <1>3, <1>5, <1>6, <1>8, <1>9, <1>10, <1>11, <1>12,
     <1>14, <1>15, <1>16, <1>17, <1>18
  DEF Next, WorkerStep, Loop

\* Only the success of a cleanup and its purge take a row out of the
\* schedule, and both come when another row carries it on.
LEMMA KeepsSchedule ==
  ASSUME PromptHandlers = TRUE, OneOperator, DoneRetention >= ZombieTimeout,
         TypeInv, LeaseInv, ScheduleInv, [Next]_vars, ScheduleKept
  PROVE  ScheduleKept'
<1> DEFINE Keeping == {"pending", "running", "failed"}
<1> USE DEF TypeInv, TypeOK, Places, Busy, Handling, GoTo, Drop
<1>0. PICK i \in CleanupIds : job[i].status \in Keeping
  BY DEF ScheduleKept
<1>a. ASSUME \A j \in CleanupIds : job[j].status \in Keeping => job'[j].status \in Keeping
      PROVE  ScheduleKept'
  BY <1>0, <1>a DEF ScheduleKept
\* Adding a row takes none away.
<1>b. ASSUME \A j \in JobIds : job[j].status # "none" => job'[j] = job[j]
      PROVE  ScheduleKept'
  BY <1>a, <1>b DEF JobIds
<1>1. ASSUME NEW w \in Workers, StartWorker(w)
      PROVE  ScheduleKept'
  <2>1. \A j \in JobIds : job'[j] = job[j] \/ job'[j].status = "pending"
    BY <1>1, RowTypes DEF StartWorker, Rows
  <2>. QED
    BY <1>a, <2>1 DEF JobIds
<1>2. ASSUME NEW w \in Workers,
             \/ SeedCheck(w) \/ StartInline(w) \/ EndInline(w) \/ ClaimSelect(w)
             \/ ClaimLost(w) \/ BookCheck(w) \/ Crash(w)
      PROVE  ScheduleKept'
  <2>1. job' = job
    BY <1>2 DEF SeedCheck, StartInline, EndInline, ClaimSelect, ClaimLost, BookCheck, Crash
  <2>. QED
    BY <1>b, <2>1
<1>3. ASSUME NEW w \in Workers, SeedEnqueue(w) \/ BookEnqueue(w)
      PROVE  ScheduleKept'
  BY <1>3, <1>b DEF SeedEnqueue, BookEnqueue, Enqueue
<1>4. ASSUME NEW w \in Workers, ClaimWon(w)
      PROVE  ScheduleKept'
  <2>1. /\ cur[w] \in JobIds /\ job'[cur[w]].status = "running"
        /\ \A j \in JobIds : j # cur[w] => job'[j] = job[j]
    BY <1>4 DEF ClaimWon, Rows
  <2>. QED
    BY <1>a, <2>1 DEF JobIds
\* The row that carries the schedule on is too young to be purged.
<1>5. ASSUME NEW w \in Workers, Purge(w)
      PROVE  ScheduleKept'
  <2>1. w \in PastCheck
    BY <1>5 DEF Purge, PastCheck
  <2>2. PICK j \in CleanupIds : Live(j) /\ Young(j)
    BY <2>1 DEF ScheduleInv
  <2>3. at[w] \in Nat /\ now <= at[w] + ZombieTimeout
    BY <1>5 DEF Purge, LeaseInv
  <2>4. ~Purgeable(j)
    <3> SUFFICES ASSUME Purgeable(j) PROVE FALSE
      OBVIOUS
    <3>1. job[j].status = "failed" /\ job[j].finishedAt >= at[w]
      BY <2>1, <2>2 DEF Live, Young, Purgeable
    <3>2. job[j].finishedAt \in Int
      BY DEF JobIds, Rows
    <3>. QED
      BY <2>3, <3>1, <3>2, TimesAssumption DEF Purgeable
  <2>5. job'[j] = job[j]
    BY <1>5, <2>4 DEF Purge, JobIds
  <2>. QED
    BY <2>2, <2>5 DEF ScheduleKept, Live
\* A cleanup that succeeds leaves the row that carries the schedule on.
<1>6. ASSUME NEW w \in Workers, RunOk(w)
      PROVE  ScheduleKept'
  <2>1. \A j \in JobIds : j # cur[w] => job'[j] = job[j]
    BY <1>6 DEF RunOk
  <2>2. CASE cur[w] \in CleanupIds
    <3>1. w \in PastCheck
      BY <1>6, <2>2 DEF RunOk, PastCheck
    <3>2. PICK j \in CleanupIds : Live(j) /\ Young(j)
      BY <3>1 DEF ScheduleInv
    <3>3. job[cur[w]].status = "running"
      BY <3>1 DEF PastCheck, LeaseInv
    <3>4. j # cur[w]
      BY <3>1, <3>2, <3>3 DEF Live
    <3>. QED
      BY <2>1, <3>2, <3>4 DEF ScheduleKept, Live, JobIds
  <2>3. CASE cur[w] \notin CleanupIds
    BY <1>a, <2>1, <2>3 DEF JobIds
  <2>. QED
    BY <2>2, <2>3
<1>7. ASSUME NEW w \in Workers, RunFail(w)
      PROVE  ScheduleKept'
  <2>1. cur[w] \in JobIds /\ \A j \in JobIds : j # cur[w] => job'[j] = job[j]
    BY <1>7 DEF RunFail
  <2>2. job'[cur[w]] = job[cur[w]] \/ job'[cur[w]].status \in Keeping
    <3>1. CASE Absent(cur[w])
      BY <1>7, <3>1 DEF RunFail
    <3>2. CASE ~Absent(cur[w])
      <4>1. job'[cur[w]] = AfterFailure(job[cur[w]]) /\ job[cur[w]] \in Rows
        BY <1>7, <2>1, <3>2 DEF RunFail
      <4>. QED
        BY <4>1, FailureVerdict
    <3>. QED
      BY <3>1, <3>2
  <2>. QED
    BY <1>a, <2>1, <2>2 DEF JobIds
<1>8. CASE EnqueueTask
  BY <1>8, <1>b DEF EnqueueTask, Enqueue
<1>9. ASSUME NEW o \in Operators, NEW j \in JobIds, RetryLoad(o, j)
      PROVE  ScheduleKept'
  BY <1>9, <1>b DEF RetryLoad
<1>10. ASSUME NEW o \in Operators, RetrySave(o)
       PROVE  ScheduleKept'
  <2>1. \A j \in JobIds : job'[j] = job[j] \/ job'[j].status = "pending"
    BY <1>10 DEF RetrySave, NewRow, NoRow
  <2>. QED
    BY <1>a, <2>1 DEF JobIds
<1>11. CASE Tick \/ UNCHANGED vars
  BY <1>11, <1>b DEF Tick, vars
<1>. QED
  BY <1>1, <1>2, <1>3, <1>4, <1>5, <1>6, <1>7, <1>8, <1>9, <1>10, <1>11
  DEF Next, WorkerStep, Loop

\* While no run outlives the timeout, operators do not retry at the same time
\* and rows are kept at least as long as a run may last, the cleanup never
\* drops out of the table: its booking, its failures, its purge, a crash and
\* the recovery all leave a row of it.
THEOREM ScheduleSafe ==
  ASSUME PromptHandlers = TRUE, OneOperator, DoneRetention >= ZombieTimeout
  PROVE  Spec => ScheduleNeverLost
<1>1. TypeInv /\ LeaseInv /\ [Next]_vars => LeaseInv'
  BY NextLease
<1>2. TypeInv /\ LeaseInv /\ ScheduleInv /\ [Next]_vars => ScheduleInv'
  BY NextSchedule
<1>3. TypeInv /\ LeaseInv /\ ScheduleInv /\ [Next]_vars => (ScheduleKept => ScheduleKept')
  BY KeepsSchedule
<1>4. TypeInv /\ LeaseInv /\ ScheduleInv /\ [Next]_vars
        => [ScheduleKept => ScheduleKept']_vars
  BY <1>3
<1>. QED
  BY InitLease, InitSchedule, TypeCorrect, <1>1, <1>2, <1>4, PTL
  DEF Spec, ScheduleNeverLost

-----------------------------------------------------------------------------
(* A failing recurring job does not flood the table *)

\* A row that waits, runs or is in hand; an orphan runs in nobody's hand.
Ongoing(j) == job[j].status \in {"pending", "running"} \/ Held(j)
Orphan(j) == job[j].status = "running" /\ ~Held(j)

Recurring == CleanupIds \union CheckIds

OngoingAmong(ids) == {j \in ids \ revived : Ongoing(j)}
Orphans == {j \in JobIds : Orphan(j)}

\* The worker has looked for a pending row of the name and found none.
AboutToBook(w, ids) ==
  \/ pc[w] = "book_enqueue" /\ IdsNamed(NameOf(cur[w])) = ids
  \/ pc[w] = "seed_enqueue" /\ IdsNamed(NextSeed(w)) = ids

Bookers(ids) == {w \in Workers : AboutToBook(w, ids)}

\* The inductive strengthening of NoFlood. A booking is decided on while none
\* of the name waits: what is live then is in some worker's hand or was lost
\* by a worker that died, and there are as many bookings as workers at most.
\* From then on each booking only turns a booker into a row.
FloodInv ==
  /\ Cardinality(Orphans) <= crashes
  /\ \A ids \in {CleanupIds, CheckIds} :
       Cardinality(OngoingAmong(ids)) + Cardinality(Bookers(ids))
         <= 2 * Cardinality(Workers) + crashes

\* The sets counted are finite, and a smaller one counts no more.
LEMMA Counts ==
  /\ Cardinality(Workers) \in Nat
  /\ \A S \in SUBSET JobIds : IsFiniteSet(S) /\ Cardinality(S) \in Nat
  /\ \A S \in SUBSET Workers :
       IsFiniteSet(S) /\ Cardinality(S) \in Nat /\ Cardinality(S) <= Cardinality(Workers)
  /\ \A S \in SUBSET JobIds : \A T \in SUBSET S : Cardinality(T) <= Cardinality(S)
  /\ \A S \in SUBSET Workers : \A T \in SUBSET S : Cardinality(T) <= Cardinality(S)
<1>1. IsFiniteSet(JobIds) /\ IsFiniteSet(Workers)
  BY TableAssumption, WorkersAssumption
<1>2. \A S \in SUBSET JobIds : IsFiniteSet(S) /\ Cardinality(S) \in Nat
  BY <1>1, FS_Subset, FS_CardinalityType
<1>3. \A S \in SUBSET Workers :
        IsFiniteSet(S) /\ Cardinality(S) \in Nat /\ Cardinality(S) <= Cardinality(Workers)
  BY <1>1, FS_Subset, FS_CardinalityType
<1>4. ASSUME NEW S, IsFiniteSet(S), NEW T \in SUBSET S
      PROVE  Cardinality(T) <= Cardinality(S)
  BY <1>4, FS_Subset
<1>5. \A S \in SUBSET JobIds : \A T \in SUBSET S : Cardinality(T) <= Cardinality(S)
  BY <1>2, <1>4
<1>6. \A S \in SUBSET Workers : \A T \in SUBSET S : Cardinality(T) <= Cardinality(S)
  BY <1>3, <1>4
<1>7. Cardinality(Workers) \in Nat
  BY <1>1, FS_CardinalityType
<1> QED
  BY <1>2, <1>3, <1>5, <1>6, <1>7

LEMMA CountedSets ==
  /\ Orphans \subseteq JobIds /\ Orphans' \subseteq JobIds
  /\ \A ids \in {CleanupIds, CheckIds} :
       /\ OngoingAmong(ids) \subseteq JobIds /\ OngoingAmong(ids)' \subseteq JobIds
       /\ Bookers(ids) \subseteq Workers /\ Bookers(ids)' \subseteq Workers
BY DEF Orphans, OngoingAmong, Bookers, JobIds

LEMMA InitFlood == Init => FloodInv
<1> SUFFICES ASSUME Init PROVE FloodInv
  OBVIOUS
<1>1. Orphans = {}
  BY DEF Init, Orphans, Orphan, NoRow
<1>2. ASSUME NEW ids \in {CleanupIds, CheckIds}
      PROVE  OngoingAmong(ids) = {} /\ Bookers(ids) = {}
  BY DEF Init, OngoingAmong, Ongoing, Held, Handling, NoRow, Bookers, AboutToBook, JobIds
<1> QED
  BY <1>1, <1>2, FS_EmptySet, Counts DEF FloodInv, Init

\* When none of the name waits, what is live is held, or was lost.
LEMMA LiveUnlessPending ==
  ASSUME TypeInv, FloodInv, NEW ids \in {CleanupIds, CheckIds},
         \A j \in ids : job[j].status # "pending"
  PROVE  Cardinality(OngoingAmong(ids)) <= Cardinality(Workers) + crashes
<1> DEFINE Hands == {w \in Workers : pc[w] \in Handling}
           Inhand == {cur[w] : w \in Hands}
           f == [w \in Hands |-> cur[w]]
<1>1. Hands \in SUBSET Workers
  OBVIOUS
<1>2. f \in Surjection(Hands, Inhand)
  BY DEF Surjection
<1>3. /\ IsFiniteSet(Inhand)
      /\ Cardinality(Inhand) <= Cardinality(Hands)
  BY <1>1, <1>2, Counts, FS_Surjection
<1>4. Inhand \subseteq JobIds
  BY DEF TypeInv, Busy
<1>5. OngoingAmong(ids) \subseteq Inhand \union Orphans
  BY DEF OngoingAmong, Ongoing, Orphans, Orphan, Held, JobIds
<1>6. Cardinality(OngoingAmong(ids)) <= Cardinality(Inhand \union Orphans)
  BY <1>4, <1>5, Counts, CountedSets
<1>7. Cardinality(Inhand \union Orphans) <= Cardinality(Inhand) + Cardinality(Orphans)
  <2>1. Inhand \intersect Orphans \in SUBSET JobIds
    BY <1>4
  <2>2. IsFiniteSet(Orphans) /\ Cardinality(Orphans) \in Nat /\ Cardinality(Inhand) \in Nat
        /\ Cardinality(Inhand \intersect Orphans) \in Nat
    BY <1>4, <2>1, Counts, CountedSets
  <2> HIDE DEF Inhand
  <2>3. Cardinality(Inhand \union Orphans)
          = Cardinality(Inhand) + Cardinality(Orphans) - Cardinality(Inhand \intersect Orphans)
    BY <1>3, <2>2, FS_Union
  <2> QED
    BY <2>2, <2>3
<1>8. /\ Cardinality(Inhand) \in Nat /\ Cardinality(Orphans) \in Nat
      /\ Cardinality(Hands) \in Nat /\ Cardinality(Hands) <= Cardinality(Workers)
      /\ Cardinality(Inhand \union Orphans) \in Nat
      /\ Cardinality(OngoingAmong(ids)) \in Nat /\ Cardinality(Workers) \in Nat
  BY <1>1, <1>4, Counts, CountedSets
<1>9. Cardinality(Orphans) <= crashes /\ crashes \in Nat
  BY DEF FloodInv, TypeInv, TypeOK
<1> HIDE DEF Hands, Inhand
<1> QED
  BY <1>3, <1>6, <1>7, <1>8, <1>9

\* A step that makes no row live, loses none and books nothing.
LEMMA FloodUntouched ==
  ASSUME TypeInv, FloodInv, crashes' = crashes, revived \subseteq revived',
         \A j \in Recurring \ revived' : Ongoing(j)' => Ongoing(j),
         \A j \in JobIds : Orphan(j)' => Orphan(j),
         \A w \in Workers, ids \in {CleanupIds, CheckIds} :
           AboutToBook(w, ids)' => AboutToBook(w, ids)
  PROVE  FloodInv'
<1>1. Orphans' \subseteq Orphans
  BY DEF Orphans
<1>2. Cardinality(Orphans') <= crashes
  BY <1>1, Counts, CountedSets DEF FloodInv, TypeInv, TypeOK
<1>3. ASSUME NEW ids \in {CleanupIds, CheckIds}
      PROVE  Cardinality(OngoingAmong(ids)') + Cardinality(Bookers(ids)')
               <= 2 * Cardinality(Workers) + crashes
  <2>1. OngoingAmong(ids)' \subseteq OngoingAmong(ids) /\ Bookers(ids)' \subseteq Bookers(ids)
    BY DEF OngoingAmong, Bookers, Recurring
  <2>2. /\ Cardinality(OngoingAmong(ids)') <= Cardinality(OngoingAmong(ids))
        /\ Cardinality(Bookers(ids)') <= Cardinality(Bookers(ids))
    BY <2>1, Counts, CountedSets
  <2>3. /\ Cardinality(OngoingAmong(ids)') \in Nat /\ Cardinality(OngoingAmong(ids)) \in Nat
        /\ Cardinality(Bookers(ids)') \in Nat /\ Cardinality(Bookers(ids)) \in Nat
        /\ Cardinality(Workers) \in Nat /\ crashes \in Nat
    BY Counts, CountedSets DEF TypeInv, TypeOK
  <2>4. Cardinality(OngoingAmong(ids)) + Cardinality(Bookers(ids))
          <= 2 * Cardinality(Workers) + crashes
    BY DEF FloodInv
  <2> QED
    BY <2>2, <2>3, <2>4
<1> QED
  BY <1>2, <1>3 DEF FloodInv

\* Looking for a pending row: only the worker that looks can become a booker,
\* and only of a name of which none waits.
LEMMA FloodLooked ==
  ASSUME TypeInv, FloodInv, UNCHANGED <<job, crashes, revived>>,
         \A j \in JobIds : Held(j)' <=> Held(j),
         NEW w \in Workers,
         \A v \in Workers \ {w}, ids \in {CleanupIds, CheckIds} :
           AboutToBook(v, ids)' => AboutToBook(v, ids),
         \A ids \in {CleanupIds, CheckIds} :
           AboutToBook(w, ids)' => \A j \in ids : job[j].status # "pending"
  PROVE  FloodInv'
<1>1. Orphans' = Orphans
  BY DEF Orphans, Orphan
<1>2. ASSUME NEW ids \in {CleanupIds, CheckIds}
      PROVE  Cardinality(OngoingAmong(ids)') + Cardinality(Bookers(ids)')
               <= 2 * Cardinality(Workers) + crashes
  <2>1. OngoingAmong(ids)' = OngoingAmong(ids)
    BY DEF OngoingAmong, Ongoing, JobIds
  <2>2. /\ Cardinality(OngoingAmong(ids)) \in Nat /\ Cardinality(Bookers(ids)') \in Nat
        /\ Cardinality(Bookers(ids)) \in Nat /\ Cardinality(Workers) \in Nat
        /\ Cardinality(Bookers(ids)') <= Cardinality(Workers) /\ crashes \in Nat
    BY Counts, CountedSets DEF TypeInv, TypeOK
  <2>3. CASE AboutToBook(w, ids)'
    <3>1. Cardinality(OngoingAmong(ids)) <= Cardinality(Workers) + crashes
      BY <2>3, LiveUnlessPending
    <3> QED
      BY <2>1, <2>2, <3>1
  <2>4. CASE ~AboutToBook(w, ids)'
    <3>1. Bookers(ids)' \subseteq Bookers(ids)
      BY <2>4 DEF Bookers
    <3>2. Cardinality(Bookers(ids)') <= Cardinality(Bookers(ids))
      BY <3>1, Counts, CountedSets
    <3>3. Cardinality(OngoingAmong(ids)) + Cardinality(Bookers(ids))
            <= 2 * Cardinality(Workers) + crashes
      BY DEF FloodInv
    <3> QED
      BY <2>1, <2>2, <3>2, <3>3
  <2> QED
    BY <2>3, <2>4
<1> QED
  BY <1>1, <1>2 DEF FloodInv

\* Booking turns a booker of the name into a row of it.
LEMMA FloodBooked ==
  ASSUME TypeInv, FloodInv, UNCHANGED <<crashes, revived>>,
         NEW n, NEW t, Enqueue(n, t),
         \A j \in JobIds : Held(j)' <=> Held(j),
         NEW w \in Workers,
         \A ids \in {CleanupIds, CheckIds} :
           /\ IdsNamed(n) = ids => AboutToBook(w, ids)
           /\ ~AboutToBook(w, ids)',
         \A v \in Workers \ {w}, ids \in {CleanupIds, CheckIds} :
           AboutToBook(v, ids)' => AboutToBook(v, ids)
  PROVE  FloodInv'
<1>1. PICK k \in IdsNamed(n) : job[k].status = "none" /\ job' = [job EXCEPT ![k] = NewRow(t)]
  BY DEF Enqueue
<1>2. k \in JobIds /\ \A j \in JobIds : j # k => job'[j] = job[j]
  BY <1>1, IdsNamedAreIds
<1>3. job'[k].status = "pending"
  BY <1>1, <1>2 DEF TypeInv, TypeOK, NewRow, NoRow
<1>4. Orphans' \subseteq Orphans
  BY <1>2, <1>3 DEF Orphans, Orphan
<1>5. Cardinality(Orphans') <= crashes
  BY <1>4, Counts, CountedSets DEF FloodInv, TypeInv, TypeOK
<1>6. ASSUME NEW ids \in {CleanupIds, CheckIds}
      PROVE  Cardinality(OngoingAmong(ids)') + Cardinality(Bookers(ids)')
               <= 2 * Cardinality(Workers) + crashes
  <2>1. Bookers(ids)' \subseteq Bookers(ids) \ {w}
    BY DEF Bookers
  <2>2. OngoingAmong(ids)' \subseteq OngoingAmong(ids) \union {k}
    BY <1>2 DEF OngoingAmong, Ongoing, JobIds
  <2>3. /\ IsFiniteSet(OngoingAmong(ids)) /\ Cardinality(OngoingAmong(ids)) \in Nat
        /\ IsFiniteSet(Bookers(ids)) /\ Cardinality(Bookers(ids)) \in Nat
        /\ Cardinality(OngoingAmong(ids)') \in Nat /\ Cardinality(Bookers(ids)') \in Nat
        /\ Cardinality(Workers) \in Nat /\ crashes \in Nat
    BY Counts, CountedSets DEF TypeInv, TypeOK
  <2>4. Cardinality(OngoingAmong(ids)) + Cardinality(Bookers(ids))
          <= 2 * Cardinality(Workers) + crashes
    BY DEF FloodInv
  <2>5. CASE k \in ids
    <3>1. IdsNamed(n) = ids
      BY <1>1, <2>5, IdsAssumption DEF IdsNamed
    <3>2. w \in Bookers(ids)
      BY <3>1 DEF Bookers
    <3>3. Bookers(ids) \ {w} \subseteq Workers /\ OngoingAmong(ids) \union {k} \subseteq JobIds
      BY <1>2, CountedSets
    <3>4. Cardinality(Bookers(ids)') <= Cardinality(Bookers(ids) \ {w})
      BY <2>1, <3>3, Counts
    <3>5. Cardinality(Bookers(ids) \ {w}) = Cardinality(Bookers(ids)) - 1
      BY <2>3, <3>2, FS_RemoveElement
    <3>6. Cardinality(OngoingAmong(ids)') <= Cardinality(OngoingAmong(ids) \union {k})
      BY <2>2, <3>3, Counts
    <3>7. Cardinality(OngoingAmong(ids) \union {k})
            \in {Cardinality(OngoingAmong(ids)), Cardinality(OngoingAmong(ids)) + 1}
      BY <2>3, FS_AddElement
    <3> QED
      BY <2>3, <2>4, <3>4, <3>5, <3>6, <3>7
  <2>6. CASE k \notin ids
    <3>1. OngoingAmong(ids)' \subseteq OngoingAmong(ids) /\ Bookers(ids)' \subseteq Bookers(ids)
      BY <2>1, <2>2, <2>6 DEF OngoingAmong
    <3>2. /\ Cardinality(OngoingAmong(ids)') <= Cardinality(OngoingAmong(ids))
          /\ Cardinality(Bookers(ids)') <= Cardinality(Bookers(ids))
      BY <3>1, Counts, CountedSets
    <3> QED
      BY <2>3, <2>4, <3>2
  <2> QED
    BY <2>5, <2>6
<1> QED
  BY <1>5, <1>6 DEF FloodInv

\* What the workers other than w are about to book does not change.
LEMMA BookersApart ==
  ASSUME NEW v \in Workers, pc'[v] = pc[v], cur'[v] = cur[v], todo'[v] = todo[v], NEW ids
  PROVE  AboutToBook(v, ids)' <=> AboutToBook(v, ids)
BY DEF AboutToBook, NameOf, NextSeed

\* A step of w that keeps its row in hand, if it had one.
LEMMA HeldApart ==
  ASSUME NEW w \in Workers, \A v \in Workers \ {w} : pc'[v] = pc[v] /\ cur'[v] = cur[v],
         pc'[w] \in Handling <=> pc[w] \in Handling,
         pc[w] \in Handling => cur'[w] = cur[w]
  PROVE  \A j \in JobIds : Held(j)' <=> Held(j)
BY DEF Held

LEMMA NextFlood == TypeInv /\ FloodInv /\ [Next]_vars => FloodInv'
<1> SUFFICES ASSUME TypeInv, FloodInv, [Next]_vars
             PROVE  FloodInv'
  OBVIOUS
<1> USE DEF TypeInv, TypeOK, Places, Busy, GoTo, Drop
<1>1. ASSUME NEW w \in Workers, StartWorker(w)
      PROVE  FloodInv'
  <2>1. /\ pc[w] = "down" /\ pc'[w] = "seed_check" /\ cur' = cur
        /\ UNCHANGED <<crashes, revived>>
        /\ \A v \in Workers \ {w} : pc'[v] = pc[v] /\ cur'[v] = cur[v] /\ todo'[v] = todo[v]
    BY <1>1 DEF StartWorker
  <2>2. \A j \in JobIds : Held(j)' <=> Held(j)
    BY <2>1, HeldApart DEF Handling
  <2>3. \A j \in JobIds :
          /\ job'[j].status = "running" => job[j].status = "running"
          /\ job'[j].status = "pending" => job[j].status \in {"pending", "running"}
    BY <1>1 DEF StartWorker, Zombie
  <2>4. \A v \in Workers, ids \in {CleanupIds, CheckIds} :
          AboutToBook(v, ids)' => AboutToBook(v, ids)
    <3>1. \A ids : ~AboutToBook(w, ids)'
      BY <2>1 DEF AboutToBook
    <3> QED
      BY <2>1, <3>1, BookersApart
  <2> QED
    BY <2>1, <2>2, <2>3, <2>4, FloodUntouched DEF Ongoing, Orphan, Recurring, JobIds
<1>2. ASSUME NEW w \in Workers, SeedCheck(w) \/ BookCheck(w)
      PROVE  FloodInv'
  <2>1. /\ UNCHANGED <<job, crashes, revived, cur>>
        /\ pc'[w] \in Handling <=> pc[w] \in Handling
        /\ \A v \in Workers \ {w} : pc'[v] = pc[v] /\ cur'[v] = cur[v] /\ todo'[v] = todo[v]
    BY <1>2 DEF SeedCheck, BookCheck, Handling
  <2>2. \A j \in JobIds : Held(j)' <=> Held(j)
    BY <2>1, HeldApart
  <2>3. ASSUME NEW ids \in {CleanupIds, CheckIds}, AboutToBook(w, ids)'
        PROVE  \A j \in ids : job[j].status # "pending"
    <3>1. CASE SeedCheck(w)
      <4>1. /\ pc'[w] = "seed_enqueue" /\ todo' = todo
            /\ ~PendingExists(NextSeed(w))
            /\ IdsNamed(NextSeed(w)) = ids
        BY <2>3, <3>1 DEF SeedCheck, AboutToBook, NextSeed
      <4> QED
        BY <4>1 DEF PendingExists
    <3>2. CASE BookCheck(w)
      <4>1. /\ pc'[w] = "book_enqueue" /\ cur' = cur
            /\ ~PendingExists(NameOf(cur[w]))
            /\ IdsNamed(NameOf(cur[w])) = ids
        BY <2>3, <3>2 DEF BookCheck, AboutToBook, NameOf
      <4> QED
        BY <4>1 DEF PendingExists
    <3> QED
      BY <1>2, <3>1, <3>2
  <2>4. \A v \in Workers \ {w}, ids \in {CleanupIds, CheckIds} :
          AboutToBook(v, ids)' => AboutToBook(v, ids)
    BY <2>1, BookersApart
  <2> QED
    BY <2>1, <2>2, <2>3, <2>4, FloodLooked
<1>3. ASSUME NEW w \in Workers, SeedEnqueue(w) \/ BookEnqueue(w)
      PROVE  FloodInv'
  <2>1. /\ UNCHANGED <<crashes, revived, cur>>
        /\ pc'[w] \in Handling <=> pc[w] \in Handling
        /\ pc'[w] \in {"seed_check", "working"}
        /\ \A v \in Workers \ {w} : pc'[v] = pc[v] /\ cur'[v] = cur[v] /\ todo'[v] = todo[v]
    BY <1>3 DEF SeedEnqueue, BookEnqueue, Handling
  <2>2. \A j \in JobIds : Held(j)' <=> Held(j)
    BY <2>1, HeldApart
  <2>3. PICK n \in {NextSeed(w), NameOf(cur[w])}, t \in {now, now + Day} :
          /\ Enqueue(n, t)
          /\ \A ids : IdsNamed(n) = ids => AboutToBook(w, ids)
    BY <1>3 DEF SeedEnqueue, BookEnqueue, AboutToBook
  <2>4. \A ids : ~AboutToBook(w, ids)'
    BY <2>1 DEF AboutToBook
  <2>5. \A v \in Workers \ {w}, ids \in {CleanupIds, CheckIds} :
          AboutToBook(v, ids)' => AboutToBook(v, ids)
    BY <2>1, BookersApart
  <2> QED
    BY <2>1, <2>2, <2>3, <2>4, <2>5, FloodBooked
<1>4. ASSUME NEW w \in Workers, StartInline(w) \/ EndInline(w) \/ ClaimSelect(w) \/ ClaimLost(w)
      PROVE  FloodInv'
  <2>1. /\ UNCHANGED <<job, crashes, revived>>
        /\ pc[w] \notin Handling /\ pc'[w] \in {"idle", "down", "claiming"}
        /\ \A v \in Workers \ {w} : pc'[v] = pc[v] /\ cur'[v] = cur[v] /\ todo'[v] = todo[v]
    BY <1>4 DEF StartInline, EndInline, ClaimSelect, ClaimLost, Handling
  <2>2. \A j \in JobIds : Held(j)' <=> Held(j)
    BY <2>1, HeldApart DEF Handling
  <2>3. \A ids : ~AboutToBook(w, ids)'
    BY <2>1 DEF AboutToBook
  <2>4. \A v \in Workers, ids \in {CleanupIds, CheckIds} :
          AboutToBook(v, ids)' => AboutToBook(v, ids)
    BY <2>1, <2>3, BookersApart
  <2> QED
    BY <2>1, <2>2, <2>4, FloodUntouched DEF Ongoing, Orphan, Recurring, JobIds
<1>5. ASSUME NEW w \in Workers, ClaimWon(w)
      PROVE  FloodInv'
  <2>1. /\ UNCHANGED <<cur, crashes, revived>>
        /\ pc[w] = "claiming" /\ pc'[w] \in {"book_check", "working"}
        /\ cur[w] \in JobIds /\ job[cur[w]].status = "pending"
        /\ \A v \in Workers \ {w} : pc'[v] = pc[v] /\ cur'[v] = cur[v] /\ todo'[v] = todo[v]
    BY <1>5 DEF ClaimWon, HandlerStart
  <2>2. \A j \in JobIds : j # cur[w] => job'[j] = job[j]
    BY <1>5, <2>1 DEF ClaimWon
  <2>3. Held(cur[w])' /\ \A j \in JobIds : j # cur[w] => (Held(j)' <=> Held(j))
    BY <2>1 DEF Held, Handling
  <2>4. \A ids : ~AboutToBook(w, ids)'
    BY <2>1 DEF AboutToBook
  <2>5. \A v \in Workers, ids \in {CleanupIds, CheckIds} :
          AboutToBook(v, ids)' => AboutToBook(v, ids)
    BY <2>1, <2>4, BookersApart
  <2>6. \A j \in JobIds : (Ongoing(j)' => Ongoing(j)) /\ (Orphan(j)' => Orphan(j))
    BY <2>1, <2>2, <2>3 DEF Ongoing, Orphan
  <2> QED
    BY <2>1, <2>5, <2>6, FloodUntouched DEF Recurring, JobIds
<1>6. ASSUME NEW w \in Workers, Purge(w)
      PROVE  FloodInv'
  <2>1. /\ UNCHANGED <<cur, crashes, revived>>
        /\ pc[w] = "working" /\ pc'[w] = "purged"
        /\ \A v \in Workers \ {w} : pc'[v] = pc[v] /\ cur'[v] = cur[v] /\ todo'[v] = todo[v]
    BY <1>6 DEF Purge
  <2>2. \A j \in JobIds : \/ job'[j] = job[j]
                          \/ job'[j].status \notin {"pending", "running"}
    BY <1>6 DEF Purge, DeletedRow, NoRow
  <2>3. \A j \in JobIds : Held(j)' <=> Held(j)
    BY <2>1, HeldApart DEF Handling
  <2>4. \A ids : ~AboutToBook(w, ids)'
    BY <2>1 DEF AboutToBook
  <2>5. \A v \in Workers, ids \in {CleanupIds, CheckIds} :
          AboutToBook(v, ids)' => AboutToBook(v, ids)
    BY <2>1, <2>4, BookersApart
  <2>6. \A j \in JobIds : (Ongoing(j)' => Ongoing(j)) /\ (Orphan(j)' => Orphan(j))
    BY <2>2, <2>3 DEF Ongoing, Orphan
  <2> QED
    BY <2>1, <2>5, <2>6, FloodUntouched DEF Recurring, JobIds
<1>7. ASSUME NEW w \in Workers, RunOk(w) \/ RunFail(w)
      PROVE  FloodInv'
  <2>1. /\ UNCHANGED <<crashes, revived>>
        /\ pc[w] \in Handling /\ cur[w] \in JobIds /\ Held(cur[w])
        /\ pc'[w] \in {"idle", "down"}
        /\ \A v \in Workers \ {w} : pc'[v] = pc[v] /\ cur'[v] = cur[v] /\ todo'[v] = todo[v]
    BY <1>7 DEF RunOk, RunFail, Handling, Held
  <2>2. \A j \in JobIds : j # cur[w] => job'[j] = job[j] /\ (Held(j)' <=> Held(j))
    BY <1>7, <2>1 DEF RunOk, RunFail, Held, Handling
  <2>3. job'[cur[w]].status # "running"
    <3>1. CASE Absent(cur[w])
      BY <1>7, <3>1 DEF Absent, RunOk, RunFail
    <3>2. CASE ~Absent(cur[w]) /\ RunOk(w)
      BY <2>1, <3>2 DEF RunOk, Rows
    <3>3. CASE ~Absent(cur[w]) /\ RunFail(w)
      <4>1. job[cur[w]] \in Rows
        BY <2>1
      <4>2. AfterFailure(job[cur[w]]).status # "running"
        BY <4>1, FailureVerdict
      <4> QED
        BY <2>1, <3>3, <4>2 DEF RunFail
    <3> QED
      BY <1>7, <3>1, <3>2, <3>3
  <2>4. \A ids : ~AboutToBook(w, ids)'
    BY <2>1 DEF AboutToBook
  <2>5. \A v \in Workers, ids \in {CleanupIds, CheckIds} :
          AboutToBook(v, ids)' => AboutToBook(v, ids)
    BY <2>1, <2>4, BookersApart
  <2>6. \A j \in JobIds : (Ongoing(j)' => Ongoing(j)) /\ (Orphan(j)' => Orphan(j))
    BY <2>1, <2>2, <2>3 DEF Ongoing, Orphan
  <2> QED
    BY <2>1, <2>5, <2>6, FloodUntouched DEF Recurring, JobIds
<1>8. ASSUME NEW w \in Workers, Crash(w)
      PROVE  FloodInv'
  <2>1. /\ UNCHANGED <<job, revived>> /\ crashes' = crashes + 1 /\ crashes \in Nat
        /\ pc'[w] = "down"
        /\ \A v \in Workers \ {w} : pc'[v] = pc[v] /\ cur'[v] = cur[v] /\ todo'[v] = todo[v]
    BY <1>8 DEF Crash
  <2>2. \A j \in JobIds : /\ Held(j)' => Held(j)
                          /\ j # cur[w] => (Held(j)' <=> Held(j))
    BY <1>8, <2>1 DEF Held, Handling, Crash
  <2>3. Orphans' \subseteq Orphans \union {cur[w]}
    BY <2>1, <2>2 DEF Orphans, Orphan
  <2>4. Cardinality(Orphans') <= crashes + 1
    <3>1. Orphans' \subseteq Orphans \union ({cur[w]} \intersect JobIds)
      BY <2>3, CountedSets
    <3>2. CASE cur[w] \in JobIds
      <4>1. /\ Orphans \union {cur[w]} \in SUBSET JobIds
            /\ IsFiniteSet(Orphans) /\ Cardinality(Orphans) \in Nat
            /\ Cardinality(Orphans') \in Nat
        BY <3>2, Counts, CountedSets
      <4>2. Cardinality(Orphans \union {cur[w]}) \in {Cardinality(Orphans), Cardinality(Orphans) + 1}
        BY <4>1, FS_AddElement
      <4>3. Cardinality(Orphans') <= Cardinality(Orphans \union {cur[w]})
        BY <2>3, <4>1, Counts
      <4> QED
        BY <2>1, <4>1, <4>2, <4>3 DEF FloodInv
    <3>3. CASE cur[w] \notin JobIds
      <4>1. Orphans' \subseteq Orphans
        BY <3>1, <3>3
      <4>2. Cardinality(Orphans') <= Cardinality(Orphans)
            /\ Cardinality(Orphans) \in Nat /\ Cardinality(Orphans') \in Nat
        BY <4>1, Counts, CountedSets
      <4> QED
        BY <2>1, <4>2 DEF FloodInv
    <3> QED
      BY <3>2, <3>3
  <2>5. ASSUME NEW ids \in {CleanupIds, CheckIds}
        PROVE  Cardinality(OngoingAmong(ids)') + Cardinality(Bookers(ids)')
                 <= 2 * Cardinality(Workers) + crashes'
    <3>1. OngoingAmong(ids)' \subseteq OngoingAmong(ids)
      BY <2>1, <2>2 DEF OngoingAmong, Ongoing, JobIds
    <3>2. Bookers(ids)' \subseteq Bookers(ids)
      <4>1. ~AboutToBook(w, ids)'
        BY <2>1 DEF AboutToBook
      <4> QED
        BY <2>1, <4>1, BookersApart DEF Bookers
    <3>3. /\ Cardinality(OngoingAmong(ids)') <= Cardinality(OngoingAmong(ids))
          /\ Cardinality(Bookers(ids)') <= Cardinality(Bookers(ids))
      BY <3>1, <3>2, Counts, CountedSets
    <3>4. /\ Cardinality(OngoingAmong(ids)') \in Nat /\ Cardinality(OngoingAmong(ids)) \in Nat
          /\ Cardinality(Bookers(ids)') \in Nat /\ Cardinality(Bookers(ids)) \in Nat
          /\ Cardinality(Workers) \in Nat
      BY Counts, CountedSets
    <3>5. Cardinality(OngoingAmong(ids)) + Cardinality(Bookers(ids))
            <= 2 * Cardinality(Workers) + crashes
      BY DEF FloodInv
    <3> QED
      BY <2>1, <3>3, <3>4, <3>5
  <2> QED
    BY <2>1, <2>4, <2>5 DEF FloodInv
\* Steps of the web application, the operators and the clock.
<1>9. ASSUME UNCHANGED <<pc, cur, at, todo, crashes>>, revived \subseteq revived',
             NEW k, NEW r, k \in JobIds => job[k].status # "running" \/ job'[k].status # "running",
             k \in Recurring => k \in revived',
             \A j \in JobIds : j # k => job'[j] = job[j],
             k \in JobIds => job'[k].status = "pending" \/ job'[k] = job[k]
      PROVE  FloodInv'
  <2>1. \A j \in JobIds : Held(j)' <=> Held(j)
    BY <1>9 DEF Held
  <2>2. \A v \in Workers, ids \in {CleanupIds, CheckIds} :
          AboutToBook(v, ids)' => AboutToBook(v, ids)
    BY <1>9, BookersApart
  <2>3. \A j \in JobIds : Orphan(j)' => Orphan(j)
    BY <1>9, <2>1 DEF Orphan
  <2>4. \A j \in Recurring \ revived' : Ongoing(j)' => Ongoing(j)
    BY <1>9, <2>1 DEF Ongoing, Recurring, JobIds
  <2> QED
    BY <1>9, <2>2, <2>3, <2>4, FloodUntouched
<1>10. CASE EnqueueTask
  <2>1. PICK k \in TaskIds : job[k].status = "none" /\ job' = [job EXCEPT ![k] = NewRow(now)]
    BY <1>10 DEF EnqueueTask, Enqueue, IdsNamed
  <2>2. k \in JobIds /\ k \notin Recurring
    BY IdsAssumption DEF JobIds, Recurring
  <2>3. job'[k].status = "pending" /\ \A j \in JobIds : j # k => job'[j] = job[j]
    BY <2>1, <2>2 DEF NewRow, NoRow
  <2> QED
    BY <1>9, <1>10, <2>1, <2>2, <2>3 DEF EnqueueTask, workerVars
<1>11. ASSUME NEW o \in Operators, RetrySave(o)
       PROVE  FloodInv'
  <2>1. loaded[o] \in JobIds /\ UNCHANGED <<pc, cur, at, todo, crashes>>
    BY <1>11 DEF RetrySave, workerVars
  <2>2. \A j \in JobIds : j # loaded[o] => job'[j] = job[j]
    BY <1>11 DEF RetrySave
  <2>3. CASE Absent(loaded[o])
    <3>1. job' = job /\ revived' = revived
      BY <1>11, <2>3 DEF RetrySave
    <3>2. \A j \in JobIds : Held(j)' <=> Held(j)
      BY <2>1 DEF Held
    <3>3. \A v \in Workers, ids \in {CleanupIds, CheckIds} :
            AboutToBook(v, ids)' => AboutToBook(v, ids)
      BY <2>1, BookersApart
    <3> QED
      BY <2>1, <3>1, <3>2, <3>3, FloodUntouched DEF Ongoing, Orphan, Recurring, JobIds
  <2>4. CASE ~Absent(loaded[o])
    <3>1. job'[loaded[o]].status = "pending"
      BY <1>11, <2>1, <2>4 DEF RetrySave, NewRow, NoRow
    <3>2. revived \subseteq revived' /\ (loaded[o] \in Recurring => loaded[o] \in revived')
      BY <1>11, <2>4, IdsAssumption DEF RetrySave, Recurring
    <3> QED
      BY <1>9, <2>1, <2>2, <3>1, <3>2
  <2> QED
    BY <2>3, <2>4
<1>12. ASSUME UNCHANGED <<job, pc, cur, at, todo, crashes, revived>>
       PROVE  FloodInv'
  <2>1. \A j \in JobIds : Held(j)' <=> Held(j)
    BY <1>12 DEF Held
  <2>2. \A v \in Workers, ids \in {CleanupIds, CheckIds} :
          AboutToBook(v, ids)' => AboutToBook(v, ids)
    BY <1>12, BookersApart
  <2> QED
    BY <1>12, <2>1, <2>2, FloodUntouched DEF Ongoing, Orphan, Recurring, JobIds
<1>13. ASSUME NEW o \in Operators, NEW j \in JobIds, RetryLoad(o, j)
       PROVE  FloodInv'
  BY <1>12, <1>13 DEF RetryLoad, workerVars
<1>14. CASE Tick \/ UNCHANGED vars
  BY <1>12, <1>14 DEF Tick, vars, workerVars
<1> QED
  BY <1>1, <1>2, <1>3, <1>4, <1>5, <1>6, <1>7, <1>8, <1>10, <1>11, <1>13, <1>14
  DEF Next, WorkerStep, Loop

\* Whatever fails and whoever dies, at most two rows of a recurring job wait
\* for every worker and one for every worker that died, besides those put
\* back by hand: the number does not grow with the number of failures.
THEOREM FloodBounded == Spec => []NoFlood
<1>1. TypeInv /\ FloodInv /\ [Next]_vars => FloodInv'
  BY NextFlood
<1>2. TypeInv /\ FloodInv => NoFlood
  <2> SUFFICES ASSUME TypeInv, FloodInv, NEW ids \in {CleanupIds, CheckIds}
               PROVE  Cardinality({j \in ids \ revived : job[j].status = "pending"})
                        <= 2 * Cardinality(Workers) + crashes
    BY DEF NoFlood
  <2> DEFINE Waiting == {j \in ids \ revived : job[j].status = "pending"}
  <2>1. Waiting \in SUBSET OngoingAmong(ids)
    BY DEF OngoingAmong, Ongoing
  <2>2. OngoingAmong(ids) \in SUBSET JobIds /\ Bookers(ids) \in SUBSET Workers
    BY DEF OngoingAmong, Bookers, JobIds
  <2>3. /\ Cardinality(Waiting) <= Cardinality(OngoingAmong(ids))
        /\ Cardinality(Waiting) \in Nat /\ Cardinality(OngoingAmong(ids)) \in Nat
        /\ Cardinality(Bookers(ids)) \in Nat /\ Cardinality(Workers) \in Nat
    <3>1. Waiting \in SUBSET JobIds
      BY <2>1, <2>2
    <3> HIDE DEF Waiting
    <3> QED
      BY <2>1, <2>2, <3>1, Counts
  <2>4. crashes \in Nat
    BY DEF TypeInv, TypeOK
  <2>5. Cardinality(OngoingAmong(ids)) + Cardinality(Bookers(ids))
          <= 2 * Cardinality(Workers) + crashes
    BY DEF FloodInv
  <2> HIDE DEF Waiting
  <2>6. Cardinality(Waiting) <= 2 * Cardinality(Workers) + crashes
    BY <2>3, <2>4, <2>5
  <2> QED
    BY <2>6 DEF Waiting
<1>. QED
  BY InitFlood, TypeCorrect, <1>1, <1>2, PTL DEF Spec

=============================================================================
