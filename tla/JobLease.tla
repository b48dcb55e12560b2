------------------------------ MODULE JobLease ------------------------------
(***************************************************************************)
(* What the job queue promises, with no clock and no claim protocol: a job *)
(* is in one of six states, at most one worker holds it while it runs,    *)
(* only the holder decides how the run ended, and a running job goes back  *)
(* to the queue without a verdict only after its holder has gone.          *)
(***************************************************************************)
CONSTANTS Workers, JobIds, NoWorker

VARIABLES
  phase,        \* phase[j]: the lifecycle state of job j
  holder        \* holder[j]: the worker whose process is running j

leaseVars == <<phase, holder>>

LeaseInit ==
  /\ phase = [j \in JobIds |-> "none"]
  /\ holder = [j \in JobIds |-> NoWorker]

Book(j) ==
  /\ phase[j] = "none"
  /\ phase' = [phase EXCEPT ![j] = "pending"]
  /\ UNCHANGED holder

Take(w, j) ==
  /\ phase[j] = "pending"
  /\ holder[j] = NoWorker
  /\ phase' = [phase EXCEPT ![j] = "running"]
  /\ holder' = [holder EXCEPT ![j] = w]

\* The holder's verdict: finished, given up, or to be tried again.
Decide(w, j) ==
  /\ phase[j] = "running"
  /\ holder[j] = w
  /\ \E p \in {"done", "failed", "pending"} : phase' = [phase EXCEPT ![j] = p]
  /\ holder' = [holder EXCEPT ![j] = NoWorker]

\* The holder's process dies; the row still says running.
Orphan(w, j) ==
  /\ holder[j] = w
  /\ holder' = [holder EXCEPT ![j] = NoWorker]
  /\ UNCHANGED phase

\* Running jobs that nobody holds go back to the queue, several at a time.
Reclaim ==
  \E S \in SUBSET {j \in JobIds : phase[j] = "running" /\ holder[j] = NoWorker} :
    phase' = [j \in JobIds |-> IF j \in S THEN "pending" ELSE phase[j]]
  /\ UNCHANGED holder

Requeue(j) ==
  /\ phase[j] = "failed"
  /\ phase' = [phase EXCEPT ![j] = "pending"]
  /\ UNCHANGED holder

Forget ==
  \E S \in SUBSET {j \in JobIds : phase[j] \in {"done", "failed"}} :
    phase' = [j \in JobIds |-> IF j \in S THEN "deleted" ELSE phase[j]]
  /\ UNCHANGED holder

LeaseNext ==
  \/ \E j \in JobIds : Book(j) \/ Requeue(j)
  \/ \E w \in Workers, j \in JobIds : Take(w, j) \/ Decide(w, j) \/ Orphan(w, j)
  \/ Reclaim
  \/ Forget

LeaseSpec == LeaseInit /\ [][LeaseNext]_leaseVars
=============================================================================
