---------------------------- MODULE JobLifecycle ----------------------------
(***************************************************************************)
(* What the job queue promises to its callers (the IPC handlers and the    *)
(* watch manager), with no slot, worker or message in sight: a job is      *)
(* queued, claimed in priority order, ended once, and sent back to the     *)
(* queue only by a restart.  JobQueue implements this specification.       *)
(***************************************************************************)
EXTENDS Integers

CONSTANT MaxJobs         \* how many jobs are ever enqueued

VARIABLES
  status,                \* job -> its scan_jobs.status, "absent" before the insert
  jobType,               \* job -> "scan", "hash" or "demo"
  cancelRequested        \* job -> has a user asked for its cancellation

lifecycleVars == <<status, jobType, cancelRequested>>

-----------------------------------------------------------------------------
(* Jobs are numbered in creation order: (created_at, id) of scan_jobs.     *)

Jobs == 1..MaxJobs
JobTypes == {"scan", "hash", "demo"}
Terminal == {"completed", "failed", "cancelled"}
Statuses == {"absent", "queued", "running"} \cup Terminal

Priority(t) == IF t = "hash" THEN -1 ELSE 0

\* k is claimed before j: the ORDER BY of claimNext
Before(k, j) ==
  \/ Priority(jobType[k]) > Priority(jobType[j])
  \/ Priority(jobType[k]) = Priority(jobType[j]) /\ k < j

BestQueued(j) ==
  /\ status[j] = "queued"
  /\ \A k \in Jobs \ {j} : status[k] = "queued" => Before(j, k)

-----------------------------------------------------------------------------
LifecycleInit ==
  /\ status = [j \in Jobs |-> "absent"]
  /\ jobType = [j \in Jobs |-> "demo"]
  /\ cancelRequested = [j \in Jobs |-> FALSE]

Create(j, t) ==
  /\ status[j] = "absent"
  /\ \A i \in Jobs : i < j => status[i] # "absent"
  /\ status' = [status EXCEPT ![j] = "queued"]
  /\ jobType' = [jobType EXCEPT ![j] = t]
  /\ UNCHANGED cancelRequested

Claim(j) ==
  /\ BestQueued(j)
  /\ status' = [status EXCEPT ![j] = "running"]
  /\ UNCHANGED <<jobType, cancelRequested>>

Withdraw(j) ==
  /\ status[j] = "queued"
  /\ status' = [status EXCEPT ![j] = "cancelled"]
  /\ cancelRequested' = [cancelRequested EXCEPT ![j] = TRUE]
  /\ UNCHANGED jobType

AskToStop(j) ==
  /\ status[j] = "running"
  /\ cancelRequested' = [cancelRequested EXCEPT ![j] = TRUE]
  /\ UNCHANGED <<status, jobType>>

End(j, outcome) ==
  /\ status[j] = "running"
  /\ outcome = "cancelled" => cancelRequested[j]
  /\ status' = [status EXCEPT ![j] = outcome]
  /\ UNCHANGED <<jobType, cancelRequested>>

\* A restart sends every running job back to the queue, and only a restart does.
Requeue ==
  /\ status' = [j \in Jobs |-> IF status[j] = "running" THEN "queued" ELSE status[j]]
  /\ UNCHANGED <<jobType, cancelRequested>>

LifecycleNext ==
  \/ \E j \in Jobs :
       \/ \E t \in JobTypes : Create(j, t)
       \/ Claim(j)
       \/ Withdraw(j)
       \/ AskToStop(j)
       \/ \E outcome \in Terminal : End(j, outcome)
  \/ Requeue

LifecycleSpec == LifecycleInit /\ [][LifecycleNext]_lifecycleVars
=============================================================================
