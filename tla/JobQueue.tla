------------------------------ MODULE JobQueue ------------------------------
(***************************************************************************)
(* The scan_jobs table, the orchestrator that pumps it, the worker pool    *)
(* and the worker threads, with their two message channels per worker.     *)
(*                                                                         *)
(* The main process is one thread: a handler runs to its end before the    *)
(* next message is taken.  `todo` is the rest of the handler that is       *)
(* running, innermost call first, so a listener that calls back into the   *)
(* orchestrator (the watch manager does) nests as it does in the code.     *)
(* Each database statement is a step of its own, between which the worker  *)
(* threads move and the process may die.                                   *)
(***************************************************************************)
EXTENDS JobLifecycle, Sequences

CONSTANTS
  PoolSize,              \* worker threads
  Steps,                 \* totalSteps of a demo job; most reports of another job
  MaxWorkerCrashes,      \* bound: uncaught exceptions in worker threads
  MaxRestarts,           \* bound: deaths of the whole process
  MaxInbox               \* bound: messages a user's cancels may pile up

ASSUME ConstantsAssumption ==
  /\ MaxJobs \in Nat /\ PoolSize \in Nat /\ Steps \in Nat
  /\ MaxWorkerCrashes \in Nat /\ MaxRestarts \in Nat /\ MaxInbox \in Nat

VARIABLES
  progressCurrent,       \* scan_jobs.progress_current
  swept,                 \* history: jobs whose end ran markMissingNotSeenSince
  up,                    \* is the main process running (orchestrator started)
  todo,                  \* main thread: what is left of the running handler
  claimed,               \* main thread: job claimed by pump, not dispatched yet
  slotJob,               \* pool slot -> the job it is busy with
  alive,                 \* worker thread of the slot: has it not crashed
  inbox, outbox,         \* worker thread: messages to it and from it, FIFO
  threadJob,             \* worker thread: the job runJob is executing
  threadStep,            \* worker thread: last step reported by the runner
  threadCancelled,       \* worker thread: its `cancelled` flag
  workerCrashes, restarts

rowVars == <<status, jobType, cancelRequested, progressCurrent, swept>>
mainVars == <<up, todo, claimed, slotJob>>
threadVars == <<alive, inbox, outbox, threadJob, threadStep, threadCancelled>>
boundVars == <<workerCrashes, restarts>>
vars == <<rowVars, mainVars, threadVars, boundVars>>

-----------------------------------------------------------------------------
(* Values.                                                                 *)

NoJob == 0
Slots == 1..PoolSize

ToWorker == [type : {"run", "cancel"}, job : Jobs, resumeFrom : Nat]
Run(j) == [type |-> "run", job |-> j, resumeFrom |-> progressCurrent[j]]
CancelMsg(j) == [type |-> "cancel", job |-> j, resumeFrom |-> 0]

EndTypes == {"done", "error", "cancelled"}
FromWorker ==
  [type : {"progress"} \cup EndTypes, job : Jobs, current : Nat]
    \cup [type : {"crash"}, job : {NoJob}, current : {0}]
Progress(j, n) == [type |-> "progress", job |-> j, current |-> n]
Ended(type, j) == [type |-> type, job |-> j, current |-> 0]

\* What a handler still has to do, for which job or slot
Task ==
  [op : {"emit", "backlog", "pump"}, arg : {0}]
    \cup [op : {"sweep"}, arg : Jobs] \cup [op : {"respawn"}, arg : Slots]
Do(op) == [op |-> op, arg |-> 0]
DoFor(op, x) == [op |-> op, arg |-> x]

-----------------------------------------------------------------------------
(* Helpers.                                                                *)

Idle == {s \in Slots : slotJob[s] = NoJob}

\* A bug: the first slot, busy or not
FirstSlot(s) == \A t \in Slots : s <= t

\* slots.find(s => !s.busy)
FirstIdle(s) == s \in Idle /\ \A t \in Idle : s <= t

AtRest == up /\ todo = <<>>

Doing(op) == up /\ claimed = NoJob /\ todo # <<>> /\ Head(todo).op = op

\* postMessage: what is sent to a worker that has thrown is lost
Post(s, m) == inbox' = IF alive[s] THEN [inbox EXCEPT ![s] = Append(@, m)] ELSE inbox

\* The `WHERE status = 'running'` updates: complete, fail, markCancelled
EndRow(j, outcome) ==
  status' = IF status[j] = "running" THEN [status EXCEPT ![j] = outcome] ELSE status

\* A bug: oldest first, whatever the priority
OldestQueued(j) == status[j] = "queued" /\ \A k \in Jobs : k < j => status[k] # "queued"

\* The row claimNext selects: the oldest of the highest priority
NextInLine(j) ==
  LET queued == {k \in Jobs : status[k] = "queued"}
      urgent == {k \in queued : \A i \in queued :
                    Priority(jobType[k]) >= Priority(jobType[i])}
  IN j \in urgent /\ \A k \in urgent : j <= k

\* Three bugs: a job being cancelled is not requeued; failed jobs are; none is
RequeueUnlessCancelled ==
  status' = [j \in Jobs |-> IF status[j] = "running" /\ ~cancelRequested[j]
                              THEN "queued" ELSE status[j]]
RequeueFailedToo ==
  status' = [j \in Jobs |-> IF status[j] \in {"running", "failed"}
                              THEN "queued" ELSE status[j]]
RequeueNone == UNCHANGED status

RequeueOrphaned ==
  status' = [j \in Jobs |-> IF status[j] = "running" THEN "queued" ELSE status[j]]

\* enqueue: the inserted row, as `jobType`, last in creation order
EnqueueRow(j, t) ==
  /\ status[j] = "absent"
  /\ \A i \in Jobs : i < j => status[i] # "absent"
  /\ status' = [status EXCEPT ![j] = "queued"]
  /\ jobType' = [jobType EXCEPT ![j] = t]
  /\ UNCHANGED <<cancelRequested, progressCurrent, swept>>

-----------------------------------------------------------------------------
Init ==
  /\ LifecycleInit
  /\ progressCurrent = [j \in Jobs |-> 0]
  /\ swept = {}
  /\ up = FALSE
  /\ todo = <<>>
  /\ claimed = NoJob
  /\ slotJob = [s \in Slots |-> NoJob]
  /\ alive = [s \in Slots |-> TRUE]
  /\ inbox = [s \in Slots |-> <<>>]
  /\ outbox = [s \in Slots |-> <<>>]
  /\ threadJob = [s \in Slots |-> NoJob]
  /\ threadStep = [s \in Slots |-> 0]
  /\ threadCancelled = [s \in Slots |-> FALSE]
  /\ workerCrashes = 0
  /\ restarts = 0

-----------------------------------------------------------------------------
(* The process: start() at boot, and its death at any point of a handler.  *)

Boot ==
  /\ ~up
  /\ up' = TRUE
  /\ RequeueOrphaned
  /\ todo' = <<Do("pump")>>
  /\ UNCHANGED <<jobType, cancelRequested, progressCurrent, swept, claimed, slotJob,
                 threadVars, boundVars>>

ProcessDies ==
  /\ up
  /\ restarts < MaxRestarts
  /\ restarts' = restarts + 1
  /\ up' = FALSE
  /\ todo' = <<>>
  /\ claimed' = NoJob
  /\ slotJob' = [s \in Slots |-> NoJob]
  /\ alive' = [s \in Slots |-> TRUE]
  /\ inbox' = [s \in Slots |-> <<>>]
  /\ outbox' = [s \in Slots |-> <<>>]
  /\ threadJob' = [s \in Slots |-> NoJob]
  /\ threadStep' = [s \in Slots |-> 0]
  /\ threadCancelled' = [s \in Slots |-> FALSE]
  /\ UNCHANGED <<rowVars, workerCrashes>>

-----------------------------------------------------------------------------
(* Calls from the user interface.                                          *)

Enqueue(j, t) ==
  /\ AtRest
  /\ EnqueueRow(j, t)
  /\ todo' = <<Do("pump")>>
  /\ UNCHANGED <<up, claimed, slotJob, threadVars, boundVars>>

CancelQueued(j) ==
  /\ AtRest
  /\ status[j] = "queued"
  /\ status' = [status EXCEPT ![j] = "cancelled"]
  /\ cancelRequested' = [cancelRequested EXCEPT ![j] = TRUE]
  /\ todo' = <<Do("emit"), Do("pump")>>
  /\ UNCHANGED <<jobType, progressCurrent, swept, up, claimed, slotJob, threadVars, boundVars>>

\* A bug: the message goes to the first busy slot
CancelFirstBusy(j) ==
  \E s \in Slots :
    /\ slotJob[s] # NoJob /\ \A t \in Slots : slotJob[t] # NoJob => s <= t
    /\ Len(inbox[s]) < MaxInbox
    /\ Post(s, CancelMsg(j))

\* pool.cancel; RunningIsOwned shows that a running job has its slot
PoolCancel(j) ==
  \E s \in Slots :
    /\ slotJob[s] = j
    /\ Len(inbox[s]) < MaxInbox
    /\ Post(s, CancelMsg(j))

CancelRunning(j) ==
  /\ AtRest
  /\ status[j] = "running"
  /\ cancelRequested' = [cancelRequested EXCEPT ![j] = TRUE]
  /\ PoolCancel(j)
  /\ todo' = <<Do("pump")>>
  /\ UNCHANGED <<status, jobType, progressCurrent, swept, up, claimed, slotJob,
                 alive, outbox, threadJob, threadStep, threadCancelled, boundVars>>

\* requestCancel of an ended job changes no row, but its event goes out again
CancelEnded(j) ==
  /\ AtRest
  /\ status[j] \in Terminal
  /\ todo' = <<Do("emit"), Do("pump")>>
  /\ UNCHANGED <<rowVars, up, claimed, slotJob, threadVars, boundVars>>

-----------------------------------------------------------------------------
(* The pump, and the other tails of the handlers.                          *)

PumpClaim(j) ==
  /\ Doing("pump")
  /\ Idle # {}
  /\ NextInLine(j)
  /\ status' = [status EXCEPT ![j] = "running"]
  /\ claimed' = j
  /\ UNCHANGED <<jobType, cancelRequested, progressCurrent, swept, up, todo, slotJob,
                 threadVars, boundVars>>

PumpDropCancelled ==
  /\ up
  /\ claimed # NoJob
  /\ cancelRequested[claimed]
  /\ EndRow(claimed, "cancelled")
  /\ claimed' = NoJob
  /\ todo' = <<Do("emit")>> \o todo
  /\ UNCHANGED <<jobType, cancelRequested, progressCurrent, swept, up, slotJob,
                 threadVars, boundVars>>

PumpDispatch(s) ==
  /\ up
  /\ claimed # NoJob
  /\ ~cancelRequested[claimed]
  /\ FirstIdle(s)
  /\ slotJob' = [slotJob EXCEPT ![s] = claimed]
  /\ Post(s, Run(claimed))
  /\ claimed' = NoJob
  /\ UNCHANGED <<rowVars, up, todo, alive, outbox, threadJob, threadStep, threadCancelled,
                 boundVars>>

PumpStop ==
  /\ Doing("pump")
  /\ Idle = {} \/ \A j \in Jobs : status[j] # "queued"
  /\ todo' = Tail(todo)
  /\ UNCHANGED <<rowVars, up, claimed, slotJob, threadVars, boundVars>>

\* The listeners of a terminal event: at most, the watch manager enqueues the scan it
\* had deferred, and that call pumps before it returns.
EmitUnheard ==
  /\ Doing("emit")
  /\ todo' = Tail(todo)
  /\ UNCHANGED <<rowVars, up, claimed, slotJob, threadVars, boundVars>>

EmitRescan(j) ==
  /\ Doing("emit")
  /\ EnqueueRow(j, "scan")
  /\ todo' = <<Do("pump")>> \o Tail(todo)
  /\ UNCHANGED <<up, claimed, slotJob, threadVars, boundVars>>

\* markMissingNotSeenSince: the sweep of the rows is in ScanPipeline
SweepMissing ==
  /\ Doing("sweep")
  /\ swept' = swept \cup {Head(todo).arg}
  /\ todo' = Tail(todo)
  /\ UNCHANGED <<status, jobType, cancelRequested, progressCurrent, up, claimed, slotJob,
                 threadVars, boundVars>>

\* enqueueHashIfBacklog, with the listUnhashed(1) check left open (HashPipeline has it)
BacklogEmpty ==
  /\ Doing("backlog")
  /\ todo' = Tail(todo)
  /\ UNCHANGED <<rowVars, up, claimed, slotJob, threadVars, boundVars>>

BacklogEnqueue(j) ==
  /\ Doing("backlog")
  /\ EnqueueRow(j, "hash")
  /\ todo' = Tail(todo)
  /\ UNCHANGED <<up, claimed, slotJob, threadVars, boundVars>>

\* The end of the pool's crash handler: a new thread, with new channels
Respawn ==
  /\ Doing("respawn")
  /\ LET s == Head(todo).arg IN
       /\ alive' = [alive EXCEPT ![s] = TRUE]
       /\ inbox' = [inbox EXCEPT ![s] = <<>>]
       /\ outbox' = [outbox EXCEPT ![s] = <<>>]
  /\ todo' = Tail(todo)
  /\ UNCHANGED <<rowVars, up, claimed, slotJob, threadJob, threadStep, threadCancelled,
                 boundVars>>

-----------------------------------------------------------------------------
(* The pool's message handlers, with the orchestrator callbacks they call. *)

Arrives(s, type) ==
  /\ AtRest
  /\ outbox[s] # <<>>
  /\ Head(outbox[s]).type = type
  /\ outbox' = [outbox EXCEPT ![s] = Tail(@)]

\* A bug: the slot stays busy
KeepSlot(s) == UNCHANGED slotJob

FreeSlot(s) == slotJob' = [slotJob EXCEPT ![s] = NoJob]

HandleProgress(s) ==
  /\ Arrives(s, "progress")
  /\ LET m == Head(outbox[s]) IN
       progressCurrent' = [progressCurrent EXCEPT ![m.job] = m.current]
  /\ UNCHANGED <<status, jobType, cancelRequested, swept, mainVars,
                 alive, inbox, threadJob, threadStep, threadCancelled, boundVars>>

\* A bug: missing-detection after a hash job too
SweepAfterAny(j) == <<Do("emit"), DoFor("sweep", j), Do("backlog"), Do("pump")>>

\* What onDone does after complete()
AfterDone(j) ==
  CASE jobType[j] = "scan" -> <<Do("emit"), DoFor("sweep", j), Do("backlog"), Do("pump")>>
    [] jobType[j] = "hash" -> <<Do("emit"), Do("backlog"), Do("pump")>>
    [] jobType[j] = "demo" -> <<Do("emit"), Do("pump")>>

HandleDone(s) ==
  /\ Arrives(s, "done")
  /\ FreeSlot(s)
  /\ EndRow(Head(outbox[s]).job, "completed")
  /\ todo' = AfterDone(Head(outbox[s]).job)
  /\ UNCHANGED <<jobType, cancelRequested, progressCurrent, swept, up, claimed,
                 alive, inbox, threadJob, threadStep, threadCancelled, boundVars>>

HandleError(s) ==
  /\ Arrives(s, "error")
  /\ FreeSlot(s)
  /\ EndRow(Head(outbox[s]).job, "failed")
  /\ todo' = <<Do("emit"), Do("pump")>>
  /\ UNCHANGED <<jobType, cancelRequested, progressCurrent, swept, up, claimed,
                 alive, inbox, threadJob, threadStep, threadCancelled, boundVars>>

HandleCancelled(s) ==
  /\ Arrives(s, "cancelled")
  /\ FreeSlot(s)
  /\ EndRow(Head(outbox[s]).job, "cancelled")
  /\ todo' = <<Do("emit"), Do("pump")>>
  /\ UNCHANGED <<jobType, cancelRequested, progressCurrent, swept, up, claimed,
                 alive, inbox, threadJob, threadStep, threadCancelled, boundVars>>

\* The pool's 'error' event: fail the job in flight, pump, and only then respawn
HandleCrash(s) ==
  /\ Arrives(s, "crash")
  /\ FreeSlot(s)
  /\ IF slotJob[s] # NoJob
       THEN /\ EndRow(slotJob[s], "failed")
            /\ todo' = <<Do("emit"), Do("pump"), DoFor("respawn", s)>>
       ELSE /\ todo' = <<DoFor("respawn", s)>>
            /\ UNCHANGED status
  /\ UNCHANGED <<jobType, cancelRequested, progressCurrent, swept, up, claimed,
                 alive, inbox, threadJob, threadStep, threadCancelled, boundVars>>

-----------------------------------------------------------------------------
(* The worker thread of a slot: worker-entry and the job runners.          *)

Send(s, messages) == outbox' = [outbox EXCEPT ![s] = @ \o messages]

\* A bug: a message type the pool does not know
UnknownOutcome(s, j) == Ended(IF threadCancelled[s] THEN "cancelled" ELSE "completed", j)

\* runJob's last message when the runner has returned
Outcome(s, j) == Ended(IF threadCancelled[s] THEN "cancelled" ELSE "done", j)

ReceiveCancel(s) ==
  /\ inbox[s] # <<>>
  /\ Head(inbox[s]).type = "cancel"
  /\ inbox' = [inbox EXCEPT ![s] = Tail(@)]
  /\ threadCancelled' = [threadCancelled EXCEPT ![s] = TRUE]
  /\ UNCHANGED <<rowVars, mainVars, alive, outbox, threadJob, threadStep, boundVars>>

\* A bug: the flag of an earlier cancel stays up
KeepFlag(s) == UNCHANGED threadCancelled

ResetFlag(s) == threadCancelled' = [threadCancelled EXCEPT ![s] = FALSE]

\* A demo job that had reported its last step returns at once; every other runner starts,
\* and only the demo runner reads resumeFrom.
ReceiveRun(s) ==
  /\ inbox[s] # <<>>
  /\ Head(inbox[s]).type = "run"
  /\ inbox' = [inbox EXCEPT ![s] = Tail(@)]
  /\ ResetFlag(s)
  /\ LET m == Head(inbox[s])
         isDemo == jobType[m.job] = "demo"
     IN IF isDemo /\ m.resumeFrom = Steps
          THEN /\ Send(s, <<Ended("done", m.job)>>)
               /\ UNCHANGED <<threadJob, threadStep>>
          ELSE /\ threadJob' = [threadJob EXCEPT ![s] = m.job]
               /\ threadStep' = [threadStep EXCEPT ![s] = IF isDemo THEN m.resumeFrom ELSE 0]
               /\ UNCHANGED outbox
  /\ UNCHANGED <<rowVars, mainVars, alive, boundVars>>

\* A bug: `step < totalSteps`
LastButOne(s, n) == threadCancelled[s] \/ n >= Steps - 1

LastStep(s, n) == threadCancelled[s] \/ n = Steps

\* One iteration of runDemoJob: report, then look at the flag and at the step count
DemoStep(s) ==
  /\ threadJob[s] # NoJob
  /\ jobType[threadJob[s]] = "demo"
  /\ LET j == threadJob[s]
         n == threadStep[s] + 1
         last == LastStep(s, n)
     IN /\ Send(s, IF last THEN <<Progress(j, n), Outcome(s, j)>> ELSE <<Progress(j, n)>>)
        /\ threadJob' = [threadJob EXCEPT ![s] = IF last THEN NoJob ELSE j]
        /\ threadStep' = [threadStep EXCEPT ![s] = IF last THEN 0 ELSE n]
  /\ UNCHANGED <<rowVars, mainVars, alive, inbox, threadCancelled, boundVars>>

\* A scan or hash runner reports a batch; how many there are depends on the disk
ReportBatch(s) ==
  /\ threadJob[s] # NoJob
  /\ jobType[threadJob[s]] # "demo"
  /\ threadStep[s] < Steps
  /\ Send(s, <<Progress(threadJob[s], threadStep[s] + 1)>>)
  /\ threadStep' = [threadStep EXCEPT ![s] = @ + 1]
  /\ UNCHANGED <<rowVars, mainVars, alive, inbox, threadJob, threadCancelled, boundVars>>

RunnerLeaves(s, message) ==
  /\ Send(s, <<message>>)
  /\ threadJob' = [threadJob EXCEPT ![s] = NoJob]
  /\ threadStep' = [threadStep EXCEPT ![s] = 0]
  /\ UNCHANGED <<rowVars, mainVars, alive, inbox, threadCancelled, boundVars>>

RunnerReturns(s) ==
  /\ threadJob[s] # NoJob /\ jobType[threadJob[s]] # "demo"
  /\ RunnerLeaves(s, Outcome(s, threadJob[s]))

RunnerThrows(s) ==
  /\ threadJob[s] # NoJob /\ jobType[threadJob[s]] # "demo"
  /\ RunnerLeaves(s, Ended("error", threadJob[s]))

WorkerCrash(s) ==
  /\ up
  /\ alive[s]
  /\ workerCrashes < MaxWorkerCrashes
  /\ workerCrashes' = workerCrashes + 1
  /\ alive' = [alive EXCEPT ![s] = FALSE]
  /\ inbox' = [inbox EXCEPT ![s] = <<>>]
  /\ Send(s, <<Ended("crash", NoJob)>>)
  /\ threadJob' = [threadJob EXCEPT ![s] = NoJob]
  /\ threadStep' = [threadStep EXCEPT ![s] = 0]
  /\ threadCancelled' = [threadCancelled EXCEPT ![s] = FALSE]
  /\ UNCHANGED <<rowVars, mainVars, restarts>>

-----------------------------------------------------------------------------
UserCall ==
  \E j \in Jobs :
    \/ \E t \in JobTypes : Enqueue(j, t)
    \/ CancelQueued(j)
    \/ CancelRunning(j)
    \/ CancelEnded(j)

RunHandler ==
  \/ \E j \in Jobs : PumpClaim(j)
  \/ PumpDropCancelled
  \/ \E s \in Slots : PumpDispatch(s)
  \/ PumpStop
  \/ EmitUnheard
  \/ \E j \in Jobs : EmitRescan(j)
  \/ SweepMissing
  \/ BacklogEmpty
  \/ \E j \in Jobs : BacklogEnqueue(j)
  \/ Respawn

TakeMessage(s) ==
  \/ HandleProgress(s)
  \/ HandleDone(s)
  \/ HandleError(s)
  \/ HandleCancelled(s)
  \/ HandleCrash(s)

WorkerReceives(s) == ReceiveCancel(s) \/ ReceiveRun(s)

RunnerWorks(s) ==
  \/ DemoStep(s)
  \/ ReportBatch(s)
  \/ RunnerReturns(s)
  \/ RunnerThrows(s)

Next ==
  \/ Boot
  \/ ProcessDies
  \/ UserCall
  \/ RunHandler
  \/ \E s \in Slots :
       \/ TakeMessage(s)
       \/ WorkerReceives(s)
       \/ RunnerWorks(s)
       \/ WorkerCrash(s)

Spec == Init /\ [][Next]_vars

(***************************************************************************)
(* The event loop runs a handler to its end and serves every port however  *)
(* many calls the user makes (SF); a live thread reads its port and its    *)
(* runner returns (every loop in the runners is over a finite list).       *)
(***************************************************************************)
Fairness ==
  /\ WF_vars(Boot)
  /\ WF_vars(RunHandler)
  /\ \A s \in Slots :
       /\ SF_vars(TakeMessage(s))
       /\ WF_vars(WorkerReceives(s))
       /\ WF_vars(RunnerWorks(s))

FairSpec == Spec /\ Fairness

-----------------------------------------------------------------------------
(* Properties.                                                             *)

RowTypes ==
  /\ status \in [Jobs -> Statuses]
  /\ jobType \in [Jobs -> JobTypes]
  /\ cancelRequested \in [Jobs -> BOOLEAN]
  /\ progressCurrent \in [Jobs -> Nat]
  /\ swept \in SUBSET Jobs

MainTypes ==
  /\ up \in BOOLEAN
  /\ todo \in Seq(Task)
  /\ claimed \in Jobs \cup {NoJob}
  /\ slotJob \in [Slots -> Jobs \cup {NoJob}]

ThreadTypes ==
  /\ alive \in [Slots -> BOOLEAN]
  /\ inbox \in [Slots -> Seq(ToWorker)]
  /\ outbox \in [Slots -> Seq(FromWorker)]
  /\ threadJob \in [Slots -> Jobs \cup {NoJob}]
  /\ threadStep \in [Slots -> Nat]
  /\ threadCancelled \in [Slots -> BOOLEAN]

BoundTypes == workerCrashes \in 0..MaxWorkerCrashes /\ restarts \in 0..MaxRestarts

(* The variables keep their types: every message that waits in a channel and every task of
   a handler is one the receiver knows.                                                   *)
TypeOK == RowTypes /\ MainTypes /\ ThreadTypes /\ BoundTypes

RunsIn(s) == {i \in DOMAIN inbox[s] : inbox[s][i].type = "run"}
EndsIn(s) == {i \in DOMAIN outbox[s] : outbox[s][i].type \in EndTypes}

(* A row says "running" exactly when the pool, or the pump that is about to give it to
   the pool, holds the job: no terminal message, crash, cancel or requeue leaves a
   running row behind, or a slot busy with a job that has ended.                       *)
RunningIsOwned ==
  up => \A j \in Jobs :
          status[j] = "running" <=> (claimed = j \/ \E s \in Slots : slotJob[s] = j)

(* Two slots are never busy with one job, and a thread works on its slot's job only: one
   run message or one runner or one final message, whatever crashed, respawned or restarted.
   A job run by two workers would write the catalogue twice over.                      *)
OneWorkerPerJob ==
  /\ \A s, t \in Slots : slotJob[s] = slotJob[t] /\ slotJob[s] # NoJob => s = t
  /\ \A s \in Slots :
       /\ threadJob[s] # NoJob =>
            threadJob[s] = slotJob[s] /\ RunsIn(s) = {} /\ EndsIn(s) = {}
       /\ \A i \in RunsIn(s) :
            inbox[s][i].job = slotJob[s] /\ RunsIn(s) = {i} /\ EndsIn(s) = {}
       /\ \A i \in EndsIn(s) : outbox[s][i].job = slotJob[s] /\ EndsIn(s) = {i}

(* The cancel flag of a thread is never up for a job nobody asked to cancel: the cancel
   of an earlier job of the slot, read late, does not reach the next one.              *)
CancelOnlyItsJob ==
  \A s \in Slots :
    threadJob[s] # NoJob /\ threadCancelled[s] => cancelRequested[threadJob[s]]

(* A cancel asked for while the job runs is not lost: the live thread has its flag up, or
   will read a cancel after the run message, or has already ended the job.  That somebody
   runs the job is not said: the cancel of one that was dispatched into a crashed thread
   (BusySlotIsServed) is read by a thread that never heard of the job.                 *)
CancelIsOnItsWay ==
  \A s \in Slots :
    AtRest /\ alive[s] /\ slotJob[s] # NoJob /\ cancelRequested[slotJob[s]] =>
      \/ threadCancelled[s] /\ RunsIn(s) = {}
      \/ EndsIn(s) # {}
      \/ \E i \in DOMAIN inbox[s] :
           inbox[s][i].type = "cancel" /\ \A k \in RunsIn(s) : k < i

(* Missing-detection runs for completed scans only, never after a cancelled, failed or
   crashed one, whose walk was cut short.                                              *)
SweepOnlyCompleted ==
  \A j \in swept : status[j] = "completed" /\ jobType[j] = "scan"

(* A demo job that completed has persisted its last step, through restarts too.         *)
CompletedDemoRanEveryStep ==
  \A j \in Jobs :
    status[j] = "completed" /\ jobType[j] = "demo" => progressCurrent[j] = Steps

(* A busy slot has something under way that will free it: a run message, a runner, a
   final message or a crash event.  (pool.ts: "respawn the slot so pool capacity isn't
   permanently lost".)                                                                 *)
BusySlotIsServed ==
  \A s \in Slots :
    AtRest /\ slotJob[s] # NoJob =>
      RunsIn(s) # {} \/ threadJob[s] # NoJob \/ EndsIn(s) # {} \/ ~alive[s]

(* A job that has ended stays as it ended, whatever late message or cancel comes.       *)
TerminalIsFinal ==
  [][\A j \in Jobs : status[j] \in Terminal => status'[j] = status[j]]_vars

(* Every queued job ends, behind any number of jobs of higher priority, cancels, errors
   and a restart.                                                                      *)
EveryJobEnds ==
  \A j \in Jobs : status[j] = "queued" ~> status[j] \in Terminal

(* The queue keeps its promise to the callers: see JobLifecycle.                        *)
ImplementsLifecycle == LifecycleSpec

-----------------------------------------------------------------------------
(* The inductive invariant behind the properties above.                    *)

\* Nothing survives the process but the rows.
DeadMeansEmpty ==
  ~up => /\ todo = <<>> /\ claimed = NoJob
         /\ \A s \in Slots : slotJob[s] = NoJob /\ threadJob[s] = NoJob
         /\ \A s \in Slots : alive[s] /\ inbox[s] = <<>> /\ outbox[s] = <<>>

Ownership ==
  /\ \A s \in Slots : slotJob[s] # NoJob => status[slotJob[s]] = "running"
  /\ claimed # NoJob =>
       status[claimed] = "running" /\ \A s \in Slots : slotJob[s] # claimed
  /\ \A s, t \in Slots : slotJob[s] = slotJob[t] /\ slotJob[s] # NoJob => s = t

IsEnd(m) == m.type \in EndTypes

\* The runner, the run message and the final message exclude each other and name the slot's job.
OneStage(s) ==
  /\ threadJob[s] # NoJob =>
       /\ threadJob[s] = slotJob[s] /\ alive[s]
       /\ \A i \in 1..Len(inbox[s]) : inbox[s][i].type # "run"
       /\ \A i \in 1..Len(outbox[s]) : ~IsEnd(outbox[s][i])
  /\ \A i \in 1..Len(inbox[s]) : inbox[s][i].type = "run" =>
       /\ inbox[s][i].job = slotJob[s]
       /\ \A k \in 1..Len(inbox[s]) : k # i => inbox[s][k].type # "run"
       /\ \A k \in 1..Len(outbox[s]) : ~IsEnd(outbox[s][k])
  /\ \A i \in 1..Len(outbox[s]) : IsEnd(outbox[s][i]) =>
       /\ outbox[s][i].job = slotJob[s] /\ outbox[s][i].job \in Jobs
       /\ \A k \in 1..Len(outbox[s]) : k # i => ~IsEnd(outbox[s][k])

\* A crash event is the last thing a thread sends.
CrashIsLast(s) ==
  /\ ~alive[s] => inbox[s] = <<>>
  /\ \A i \in 1..Len(outbox[s]) :
       outbox[s][i].type = "crash" => i = Len(outbox[s]) /\ ~alive[s]

\* Cancels follow the run message of their job, and were asked for.
CancelsInOrder(s) ==
  /\ threadJob[s] # NoJob /\ threadCancelled[s] => cancelRequested[threadJob[s]]
  /\ \A i \in 1..Len(inbox[s]) : inbox[s][i].type = "cancel" =>
       /\ cancelRequested[inbox[s][i].job]
       /\ threadJob[s] # NoJob => inbox[s][i].job = threadJob[s]
       /\ \A k \in 1..Len(inbox[s]) :
            k < i /\ inbox[s][k].type = "run" => inbox[s][k].job = inbox[s][i].job
  /\ \A i \in 1..Len(outbox[s]) :
       outbox[s][i].type = "cancelled" => cancelRequested[outbox[s][i].job]

QueueInvariant ==
  /\ DeadMeansEmpty
  /\ Ownership
  /\ \A s \in Slots : OneStage(s) /\ CrashIsLast(s) /\ CancelsInOrder(s)
=============================================================================
