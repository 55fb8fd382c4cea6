--------------------------- MODULE JobQueueProofs ---------------------------
(***************************************************************************)
(* What holds of the job queue for any number of jobs, slots, steps,       *)
(* worker crashes and restarts: its type correctness, its inductive        *)
(* invariant, the properties that follow from the two, and the proof that  *)
(* it implements JobLifecycle.                                             *)
(***************************************************************************)
EXTENDS JobQueue, TLAPS

-----------------------------------------------------------------------------
(* Type correctness.                                                       *)

\* Short lists are sequences.
LEMMA ShortSeq ==
  ASSUME NEW S, NEW a \in S, NEW b \in S, NEW c \in S, NEW d \in S
  PROVE  /\ <<a>> \in Seq(S)
         /\ <<a, b>> \in Seq(S)
         /\ <<a, b, c>> \in Seq(S)
         /\ <<a, b, c, d>> \in Seq(S)
OBVIOUS

\* One message appended to a channel, or two.
LEMMA SendOne ==
  ASSUME NEW S, NEW q \in Seq(S), NEW m \in S
  PROVE  /\ q \o <<m>> \in Seq(S)
         /\ Len(q \o <<m>>) = Len(q) + 1
         /\ \A i \in 1..Len(q) : (q \o <<m>>)[i] = q[i]
         /\ (q \o <<m>>)[Len(q) + 1] = m
OBVIOUS

LEMMA SendTwo ==
  ASSUME NEW S, NEW q \in Seq(S), NEW m \in S, NEW n \in S
  PROVE  /\ q \o <<m, n>> \in Seq(S)
         /\ Len(q \o <<m, n>>) = Len(q) + 2
         /\ \A i \in 1..Len(q) : (q \o <<m, n>>)[i] = q[i]
         /\ (q \o <<m, n>>)[Len(q) + 1] = m
         /\ (q \o <<m, n>>)[Len(q) + 2] = n
OBVIOUS

USE DEF RowTypes, MainTypes, ThreadTypes, BoundTypes, NoJob

\* Every message and task the model builds has its type.
LEMMA ValueTypes ==
  ASSUME TypeOK
  PROVE  /\ \A j \in Jobs : Run(j) \in ToWorker /\ CancelMsg(j) \in ToWorker
         /\ \A op \in {"emit", "backlog", "pump"} : Do(op) \in Task
         /\ \A j \in Jobs : DoFor("sweep", j) \in Task
         /\ \A s \in Slots : DoFor("respawn", s) \in Task
         /\ \A j \in Jobs, type \in EndTypes : Ended(type, j) \in FromWorker
         /\ Ended("crash", NoJob) \in FromWorker
         /\ \A j \in Jobs, n \in Nat : Progress(j, n) \in FromWorker
BY ConstantsAssumption DEF TypeOK, Run, CancelMsg, ToWorker, Do, DoFor, Task, Ended, Progress,
   FromWorker, EndTypes

\* The first element of a non-empty list or channel, and the rest of it.
LEMMA QueueTypes ==
  ASSUME TypeOK
  PROVE  /\ todo # <<>> => Head(todo) \in Task /\ Tail(todo) \in Seq(Task)
         /\ \A s \in Slots : outbox[s] # <<>> =>
              Head(outbox[s]) \in FromWorker /\ Tail(outbox[s]) \in Seq(FromWorker)
         /\ \A s \in Slots : inbox[s] # <<>> =>
              Head(inbox[s]) \in ToWorker /\ Tail(inbox[s]) \in Seq(ToWorker)
BY DEF TypeOK

\* The initial state is well typed.
LEMMA InitTypeOK == Init => TypeOK
<1> SUFFICES ASSUME Init PROVE TypeOK
  OBVIOUS
<1> USE ConstantsAssumption DEF Init
<1>1. RowTypes
  BY DEF LifecycleInit, Statuses, JobTypes
<1>2. MainTypes
  <2>1. <<>> \in Seq(Task)
    OBVIOUS
  <2> QED BY <2>1
<1>3. ThreadTypes
  <2>1. <<>> \in Seq(ToWorker) /\ <<>> \in Seq(FromWorker)
    OBVIOUS
  <2> QED BY <2>1
<1>4. BoundTypes
  OBVIOUS
<1> QED BY <1>1, <1>2, <1>3, <1>4 DEF TypeOK

\* Every step keeps the types.
LEMMA NextTypeOK == TypeOK /\ [Next]_vars => TypeOK'
<1> SUFFICES ASSUME TypeOK, [Next]_vars PROVE TypeOK'
  OBVIOUS
<1> USE ConstantsAssumption DEF TypeOK, rowVars, mainVars, threadVars, boundVars
<1>1. CASE Boot
  BY <1>1, ValueTypes DEF Boot, RequeueOrphaned, Statuses
<1>2. CASE ProcessDies
  <2>1. RowTypes' /\ BoundTypes'
    BY <1>2 DEF ProcessDies
  <2>2. MainTypes'
    <3>1. <<>> \in Seq(Task)
      OBVIOUS
    <3> QED BY <1>2, <3>1 DEF ProcessDies
  <2>3. ThreadTypes'
    <3>1. <<>> \in Seq(ToWorker) /\ <<>> \in Seq(FromWorker)
      OBVIOUS
    <3> QED BY <1>2, <3>1 DEF ProcessDies
  <2> QED BY <2>1, <2>2, <2>3
<1>3. CASE UserCall
  <2>1. ASSUME NEW j \in Jobs, NEW t \in JobTypes, Enqueue(j, t) PROVE TypeOK'
    BY <2>1, ValueTypes DEF Enqueue, EnqueueRow, Statuses
  <2>2. ASSUME NEW j \in Jobs, CancelQueued(j) PROVE TypeOK'
    BY <2>2, ValueTypes DEF CancelQueued, Statuses, Terminal
  <2>3. ASSUME NEW j \in Jobs, CancelRunning(j) PROVE TypeOK'
    BY <2>3, ValueTypes DEF CancelRunning, PoolCancel, Post
  <2>4. ASSUME NEW j \in Jobs, CancelEnded(j) PROVE TypeOK'
    BY <2>4, ValueTypes DEF CancelEnded
  <2> QED BY <1>3, <2>1, <2>2, <2>3, <2>4 DEF UserCall
<1>4. CASE RunHandler
  <2> USE DEF Doing
  <2>1. ASSUME NEW j \in Jobs, PumpClaim(j) PROVE TypeOK'
    BY <2>1 DEF PumpClaim, Statuses
  <2>2. CASE PumpDropCancelled
    BY <2>2, ValueTypes DEF PumpDropCancelled, EndRow, Statuses, Terminal
  <2>3. ASSUME NEW s \in Slots, PumpDispatch(s) PROVE TypeOK'
    BY <2>3, ValueTypes DEF PumpDispatch, Post
  <2>4. CASE PumpStop
    BY <2>4, QueueTypes DEF PumpStop
  <2>5. CASE EmitUnheard
    BY <2>5, QueueTypes DEF EmitUnheard
  <2>6. ASSUME NEW j \in Jobs, EmitRescan(j) PROVE TypeOK'
    <3>1. todo' \in Seq(Task)
      <4>1. Tail(todo) \in Seq(Task) /\ Do("pump") \in Task
        BY <2>6, QueueTypes, ValueTypes DEF EmitRescan
      <4> QED BY <2>6, <4>1 DEF EmitRescan
    <3> QED BY <2>6, <3>1 DEF EmitRescan, EnqueueRow, Statuses, JobTypes
  <2>7. CASE SweepMissing
    <3>1. Head(todo).arg \in Jobs
      BY <2>7, QueueTypes DEF SweepMissing, Task
    <3> QED BY <2>7, QueueTypes, <3>1 DEF SweepMissing
  <2>8. CASE BacklogEmpty
    BY <2>8, QueueTypes DEF BacklogEmpty
  <2>9. ASSUME NEW j \in Jobs, BacklogEnqueue(j) PROVE TypeOK'
    BY <2>9, QueueTypes DEF BacklogEnqueue, EnqueueRow, Statuses, JobTypes
  <2>10. CASE Respawn
    <3>1. Tail(todo) \in Seq(Task)
      BY <2>10, QueueTypes DEF Respawn
    <3>2. <<>> \in Seq(ToWorker) /\ <<>> \in Seq(FromWorker)
      OBVIOUS
    <3> QED BY <2>10, <3>1, <3>2 DEF Respawn
  <2> QED BY <1>4, <2>1, <2>2, <2>3, <2>4, <2>5, <2>6, <2>7, <2>8, <2>9, <2>10 DEF RunHandler
<1>5. ASSUME NEW s \in Slots, TakeMessage(s) PROVE TypeOK'
  <2>1. ASSUME NEW type, Arrives(s, type)
        PROVE  /\ Head(outbox[s]) \in FromWorker
               /\ Head(outbox[s]).type = type
               /\ outbox' \in [Slots -> Seq(FromWorker)]
    BY <2>1, QueueTypes DEF Arrives
  <2>2. \A j \in Jobs \cup {NoJob}, outcome \in Terminal :
          EndRow(j, outcome) => status' \in [Jobs -> Statuses]
    BY DEF EndRow, Statuses
  <2>3. FreeSlot(s) => slotJob' \in [Slots -> Jobs \cup {NoJob}]
    BY DEF FreeSlot
  <2>4. CASE HandleProgress(s)
    BY <2>4, <2>1 DEF HandleProgress, FromWorker
  <2>5. CASE HandleDone(s)
    <3>1. AfterDone(Head(outbox[s]).job) \in Seq(Task)
      <4> DEFINE j == Head(outbox[s]).job
      <4>1. Do("emit") \in Task /\ DoFor("sweep", j) \in Task
            /\ Do("backlog") \in Task /\ Do("pump") \in Task
        <5>1. j \in Jobs
          BY <2>5, <2>1 DEF HandleDone, Arrives, FromWorker
        <5> QED BY <5>1, ValueTypes
      <4>2. jobType[j] \in {"scan", "hash", "demo"}
        BY <2>5, <2>1 DEF HandleDone, Arrives, FromWorker, JobTypes
      <4>3. /\ <<Do("emit"), DoFor("sweep", j), Do("backlog"), Do("pump")>> \in Seq(Task)
            /\ <<Do("emit"), Do("backlog"), Do("pump")>> \in Seq(Task)
            /\ <<Do("emit"), Do("pump")>> \in Seq(Task)
        BY <4>1, ShortSeq
      <4> HIDE DEF j
      <4>4. AfterDone(j) \in Seq(Task)
        BY <4>2, <4>3 DEF AfterDone
      <4> QED BY <4>4 DEF j
    <3> QED BY <2>5, <2>1, <2>2, <2>3, <3>1 DEF HandleDone, FromWorker, Terminal
  <2>6. <<Do("emit"), Do("pump")>> \in Seq(Task)
    BY ValueTypes
  <2>7. CASE HandleError(s)
    BY <2>7, <2>1, <2>2, <2>3, <2>6 DEF HandleError, FromWorker, Terminal
  <2>8. CASE HandleCancelled(s)
    BY <2>8, <2>1, <2>2, <2>3, <2>6 DEF HandleCancelled, FromWorker, Terminal
  <2>9. CASE HandleCrash(s)
    <3>1. /\ <<Do("emit"), Do("pump"), DoFor("respawn", s)>> \in Seq(Task)
          /\ <<DoFor("respawn", s)>> \in Seq(Task)
      BY ValueTypes DEF Slots
    <3> QED BY <2>9, <2>1, <2>2, <2>3, <3>1 DEF HandleCrash, Terminal
  <2> QED BY <1>5, <2>4, <2>5, <2>7, <2>8, <2>9 DEF TakeMessage
<1>6. ASSUME NEW s \in Slots, WorkerReceives(s) PROVE TypeOK'
  <2>1. inbox[s] # <<>> => Head(inbox[s]) \in ToWorker
                           /\ [inbox EXCEPT ![s] = Tail(@)] \in [Slots -> Seq(ToWorker)]
    BY QueueTypes
  <2>2. CASE ReceiveCancel(s)
    BY <2>2, <2>1 DEF ReceiveCancel
  <2>3. CASE ReceiveRun(s)
    <3> DEFINE m == Head(inbox[s])
    <3>1. m \in ToWorker /\ inbox' \in [Slots -> Seq(ToWorker)]
      BY <2>3, <2>1 DEF ReceiveRun
    <3>2. threadCancelled' \in [Slots -> BOOLEAN]
      BY <2>3 DEF ReceiveRun, ResetFlag
    <3>3. Ended("done", m.job) \in FromWorker
      BY <3>1, ValueTypes DEF EndTypes, ToWorker
    <3>4. outbox[s] \o <<Ended("done", m.job)>> \in Seq(FromWorker)
      BY <3>3, SendOne
    <3>5. outbox' \in [Slots -> Seq(FromWorker)]
      <4>1. outbox' = outbox \/ outbox' = [outbox EXCEPT ![s] = outbox[s] \o <<Ended("done", m.job)>>]
        BY <2>3 DEF ReceiveRun, Send
      <4> HIDE DEF m
      <4> QED BY <4>1, <3>4
    <3>6. threadJob' \in [Slots -> Jobs \cup {NoJob}] /\ threadStep' \in [Slots -> Nat]
      <4>1. m.job \in Jobs /\ m.resumeFrom \in Nat
        BY <3>1 DEF ToWorker
      <4>2. CASE UNCHANGED <<threadJob, threadStep>>
        BY <4>2
      <4>3. CASE /\ threadJob' = [threadJob EXCEPT ![s] = m.job]
                 /\ threadStep' = [threadStep EXCEPT
                      ![s] = IF jobType[m.job] = "demo" THEN m.resumeFrom ELSE 0]
        <5> HIDE DEF m
        <5> QED BY <4>1, <4>3
      <4> QED BY <2>3, <4>2, <4>3 DEF ReceiveRun
    <3> QED BY <2>3, <3>1, <3>2, <3>5, <3>6 DEF ReceiveRun
  <2> QED BY <1>6, <2>2, <2>3 DEF WorkerReceives
<1>7. ASSUME NEW s \in Slots, RunnerWorks(s) \/ WorkerCrash(s) PROVE TypeOK'
  <2>1. \A m \in FromWorker : outbox[s] \o <<m>> \in Seq(FromWorker)
    BY SendOne
  <2>2. \A m \in FromWorker : Send(s, <<m>>) => outbox' \in [Slots -> Seq(FromWorker)]
    BY <2>1 DEF Send
  <2>3. \A j \in Jobs : Outcome(s, j) \in FromWorker /\ Ended("error", j) \in FromWorker
    BY ValueTypes DEF Outcome, EndTypes
  <2>4. CASE DemoStep(s)
    <3> DEFINE j == threadJob[s]
               n == threadStep[s] + 1
    <3>1. j \in Jobs /\ n \in Nat
      BY <2>4 DEF DemoStep
    <3>2. Progress(j, n) \in FromWorker /\ Outcome(s, j) \in FromWorker
      BY <3>1, <2>3, ValueTypes
    <3>3. /\ outbox[s] \o <<Progress(j, n), Outcome(s, j)>> \in Seq(FromWorker)
          /\ outbox[s] \o <<Progress(j, n)>> \in Seq(FromWorker)
      BY <3>2, SendTwo, SendOne
    <3>4. outbox' \in [Slots -> Seq(FromWorker)]
      BY <2>4, <3>3 DEF DemoStep, Send
    <3>5. threadJob' \in [Slots -> Jobs \cup {NoJob}] /\ threadStep' \in [Slots -> Nat]
      BY <2>4, <3>1 DEF DemoStep
    <3> QED BY <2>4, <3>4, <3>5 DEF DemoStep
  <2>5. CASE ReportBatch(s)
    <3>1. Progress(threadJob[s], threadStep[s] + 1) \in FromWorker
      BY <2>5, ValueTypes DEF ReportBatch
    <3> QED BY <2>5, <2>2, <3>1 DEF ReportBatch
  <2>6. ASSUME NEW m \in FromWorker, RunnerLeaves(s, m) PROVE TypeOK'
    BY <2>6, <2>2 DEF RunnerLeaves
  <2>7. CASE RunnerReturns(s)
    BY <2>7, <2>3, <2>6 DEF RunnerReturns
  <2>8. CASE RunnerThrows(s)
    BY <2>8, <2>3, <2>6 DEF RunnerThrows
  <2>9. CASE WorkerCrash(s)
    <3>1. <<>> \in Seq(ToWorker) /\ Ended("crash", NoJob) \in FromWorker
      BY ValueTypes
    <3>2. /\ inbox' \in [Slots -> Seq(ToWorker)]
          /\ outbox' \in [Slots -> Seq(FromWorker)]
      BY <2>9, <2>2, <3>1 DEF WorkerCrash
    <3> QED BY <2>9, <3>2 DEF WorkerCrash
  <2> QED BY <1>7, <2>4, <2>5, <2>7, <2>8, <2>9 DEF RunnerWorks
<1>8. CASE UNCHANGED vars
  BY <1>8 DEF vars
<1> QED BY <1>1, <1>2, <1>3, <1>4, <1>5, <1>6, <1>7, <1>8 DEF Next

\* Type correctness: whatever the order of messages, cancels, crashes and restarts, the rows
\* hold a known status and every message in a channel is one its receiver understands.
THEOREM TypeCorrect == Spec => []TypeOK
<1>1. Init => TypeOK
  BY InitTypeOK
<1>2. TypeOK /\ [Next]_vars => TypeOK'
  BY NextTypeOK
<1> QED BY <1>1, <1>2, PTL DEF Spec

-----------------------------------------------------------------------------
(* The inductive invariant: who owns a running job, and what a slot's      *)
(* channels may hold.                                                      *)

SlotInv(s) == OneStage(s) /\ CrashIsLast(s) /\ CancelsInOrder(s)

CancelsGrow == \A j \in Jobs : cancelRequested[j] => cancelRequested'[j]

SameSlot(t) ==
  /\ alive'[t] = alive[t] /\ inbox'[t] = inbox[t] /\ outbox'[t] = outbox[t]
  /\ threadJob'[t] = threadJob[t] /\ threadCancelled'[t] = threadCancelled[t]
  /\ slotJob'[t] = slotJob[t]

\* What the messages waiting at a slot look like, one index at a time.
LEMMA MessageTypes ==
  ASSUME TypeOK, NEW s \in Slots
  PROVE  /\ inbox[s] \in Seq(ToWorker) /\ outbox[s] \in Seq(FromWorker)
         /\ Len(inbox[s]) \in Nat /\ Len(outbox[s]) \in Nat
         /\ \A i \in 1..Len(inbox[s]) :
              inbox[s][i].job \in Jobs /\ inbox[s][i].type \in {"run", "cancel"}
         /\ \A i \in 1..Len(outbox[s]) :
              outbox[s][i].type # "crash" => outbox[s][i].job \in Jobs
<1>1. inbox[s] \in Seq(ToWorker) /\ outbox[s] \in Seq(FromWorker)
  BY DEF TypeOK
<1>2. \A i \in 1..Len(inbox[s]) : inbox[s][i] \in ToWorker
  BY <1>1
<1>3. \A i \in 1..Len(outbox[s]) : outbox[s][i] \in FromWorker
  BY <1>1
<1> QED BY <1>1, <1>2, <1>3 DEF ToWorker, FromWorker

\* A slot that nothing touched keeps its invariant, whatever cancels are asked for.
LEMMA SlotFrame ==
  ASSUME TypeOK, NEW t \in Slots, SlotInv(t), SameSlot(t), CancelsGrow
  PROVE  SlotInv(t)'
<1>1. OneStage(t)'
  BY DEF SlotInv, OneStage, SameSlot, IsEnd
<1>2. CrashIsLast(t)'
  BY DEF SlotInv, CrashIsLast, SameSlot
<1>3. CancelsInOrder(t)'
  <2>1. threadJob[t] # NoJob => threadJob[t] \in Jobs
    BY DEF TypeOK
  <2> QED BY <2>1, MessageTypes, SMTT(30) DEF SlotInv, CancelsInOrder, SameSlot, CancelsGrow
<1> QED BY <1>1, <1>2, <1>3 DEF SlotInv

\* A slot whose channels are empty and whose thread rests has nothing to violate.
LEMMA SlotEmpty ==
  ASSUME NEW t \in Slots, inbox'[t] = <<>>, outbox'[t] = <<>>, threadJob'[t] = NoJob
  PROVE  SlotInv(t)'
BY DEF SlotInv, OneStage, CrashIsLast, CancelsInOrder

\* A thread at work is alive, and neither its slot's outbox nor its inbox holds the end or
\* the start of a job.
LEMMA Working ==
  ASSUME TypeOK, NEW s \in Slots, SlotInv(s), threadJob[s] # NoJob
  PROVE  /\ threadJob[s] \in Jobs /\ threadJob[s] = slotJob[s] /\ alive[s]
         /\ \A i \in 1..Len(inbox[s]) : inbox[s][i].type # "run"
         /\ \A i \in 1..Len(outbox[s]) :
              outbox[s][i].type \notin {"done", "error", "cancelled", "crash"}
BY DEF TypeOK, SlotInv, OneStage, CrashIsLast, IsEnd, EndTypes

\* The runner reports and goes on.
LEMMA ReportInv ==
  ASSUME TypeOK, NEW s \in Slots, SlotInv(s), threadJob[s] # NoJob,
         NEW n \in Nat,
         outbox'[s] = outbox[s] \o <<Progress(threadJob[s], n)>>,
         inbox'[s] = inbox[s], alive'[s] = alive[s], slotJob'[s] = slotJob[s],
         threadJob'[s] = threadJob[s], threadCancelled'[s] = threadCancelled[s],
         cancelRequested' = cancelRequested
  PROVE  SlotInv(s)'
<1> DEFINE m == Progress(threadJob[s], n)
           q == outbox[s]
           r == outbox'[s]
<1>1. m \in FromWorker /\ m.type = "progress"
  BY Working, ValueTypes DEF Progress
<1>2. /\ Len(r) = Len(q) + 1
      /\ \A i \in 1..Len(q) : r[i] = q[i]
      /\ r[Len(q) + 1] = m
  BY <1>1, MessageTypes, SendOne
<1>3. \A i \in 1..Len(r) : r[i].type \notin {"done", "error", "cancelled", "crash"}
  <2> SUFFICES ASSUME NEW i \in 1..Len(r)
               PROVE  r[i].type \notin {"done", "error", "cancelled", "crash"}
    OBVIOUS
  <2> HIDE DEF m, q, r
  <2>1. CASE i = Len(q) + 1
    BY <2>1, <1>1, <1>2
  <2>2. CASE i \in 1..Len(q)
    BY <2>2, <1>2, Working DEF q
  <2>3. Len(q) \in Nat
    BY MessageTypes DEF q
  <2> QED BY <2>1, <2>2, <2>3, <1>2
<1> HIDE DEF m, q
<1>4. OneStage(s)'
  BY <1>3, Working DEF OneStage, IsEnd, EndTypes
<1>5. CrashIsLast(s)'
  BY <1>3, Working DEF CrashIsLast
<1>6. CancelsInOrder(s)'
  BY <1>3 DEF CancelsInOrder, SlotInv
<1> QED BY <1>4, <1>5, <1>6 DEF SlotInv

\* The runner leaves: the last message is its final message on the slot's job, the others are
\* reports, and no run message waits.
LEMMA LeaveInv ==
  ASSUME TypeOK, NEW s \in Slots, SlotInv(s),
         NEW v, v.type \in EndTypes, v.job = slotJob[s], v.job \in Jobs,
         v.type = "cancelled" => cancelRequested[v.job],
         NEW n \in Nat, n > 0, Len(outbox'[s]) = n, outbox'[s][n] = v,
         \A i \in 1..(n - 1) :
           outbox'[s][i].type \notin {"done", "error", "cancelled", "crash"},
         inbox'[s] \in Seq(ToWorker),
         \A i \in 1..Len(inbox'[s]) :
           inbox'[s][i].type # "run" /\ cancelRequested[inbox'[s][i].job],
         alive[s], alive'[s] = alive[s], slotJob'[s] = slotJob[s],
         threadJob'[s] = NoJob, cancelRequested' = cancelRequested
  PROVE  SlotInv(s)'
<1>1. \A i \in 1..n : i # n => i \in 1..(n - 1)
  OBVIOUS
<1>2. \A i \in 1..n : IsEnd(outbox'[s][i]) => i = n
  BY <1>1 DEF IsEnd, EndTypes
<1>3. OneStage(s)'
  BY <1>2 DEF OneStage, IsEnd
<1>4. CrashIsLast(s)'
  BY <1>1 DEF CrashIsLast, EndTypes
<1>5. CancelsInOrder(s)'
  BY <1>1 DEF CancelsInOrder, EndTypes
<1> QED BY <1>3, <1>4, <1>5 DEF SlotInv

\* Steps of the thread of a slot keep that slot's invariant.
LEMMA ThreadInv ==
  ASSUME TypeOK, NEW s \in Slots, SlotInv(s),
         WorkerReceives(s) \/ RunnerWorks(s) \/ WorkerCrash(s)
  PROVE  SlotInv(s)'
<1> USE DEF rowVars, mainVars, threadVars
<1>1. CASE ReceiveCancel(s)
  <2> DEFINE q == inbox[s]
  <2>1. /\ q # <<>> /\ Head(q).type = "cancel" /\ inbox'[s] = Tail(q)
        /\ UNCHANGED <<alive, outbox, threadJob, slotJob, cancelRequested>>
        /\ threadCancelled'[s] = TRUE
    BY <1>1 DEF ReceiveCancel, TypeOK
  <2>2. /\ Len(q) \in Nat \ {0} /\ Head(q) = q[1] /\ Len(Tail(q)) = Len(q) - 1
        /\ \A i \in 1..Len(Tail(q)) : Tail(q)[i] = q[i + 1]
    BY <2>1, MessageTypes
  <2>3. OneStage(s)'
    BY <2>1, <2>2 DEF SlotInv, OneStage
  <2>4. CrashIsLast(s)'
    BY <2>1, <2>2 DEF SlotInv, CrashIsLast
  <2>5. CancelsInOrder(s)'
    <3>1. 1 \in 1..Len(q) /\ q[1].type = "cancel"
      BY <2>1, <2>2
    <3>2. threadJob[s] # NoJob => cancelRequested[threadJob[s]]
      BY <3>1 DEF SlotInv, CancelsInOrder
    <3>3. \A i \in 1..Len(inbox'[s]) : i + 1 \in 1..Len(q) /\ inbox'[s][i] = q[i + 1]
      BY <2>1, <2>2
    <3>4. \A i \in 1..Len(inbox'[s]) : inbox'[s][i].type = "cancel" =>
            /\ cancelRequested[inbox'[s][i].job]
            /\ threadJob[s] # NoJob => inbox'[s][i].job = threadJob[s]
      BY <3>3 DEF SlotInv, CancelsInOrder
    <3>5. \A i, k \in 1..Len(inbox'[s]) :
            inbox'[s][i].type = "cancel" /\ k < i /\ inbox'[s][k].type = "run" =>
              inbox'[s][k].job = inbox'[s][i].job
      <4> SUFFICES ASSUME NEW i \in 1..Len(inbox'[s]), NEW k \in 1..Len(inbox'[s]),
                          inbox'[s][i].type = "cancel", k < i, inbox'[s][k].type = "run"
                   PROVE  inbox'[s][k].job = inbox'[s][i].job
        OBVIOUS
      <4>1. k + 1 < i + 1 /\ k + 1 \in 1..Len(q) /\ i + 1 \in 1..Len(q)
        BY <3>3
      <4>2. inbox'[s][i] = q[i + 1] /\ inbox'[s][k] = q[k + 1]
        BY <3>3
      <4> QED BY <4>1, <4>2 DEF SlotInv, CancelsInOrder
    <3>6. \A i \in 1..Len(outbox[s]) :
            outbox[s][i].type = "cancelled" => cancelRequested[outbox[s][i].job]
      BY DEF SlotInv, CancelsInOrder
    <3> HIDE DEF q
    <3> QED BY <2>1, <3>2, <3>4, <3>5, <3>6 DEF CancelsInOrder
  <2> QED BY <2>3, <2>4, <2>5 DEF SlotInv
<1>2. CASE ReceiveRun(s)
  <2> DEFINE q == inbox[s]
             m == Head(q)
  <2>1. /\ q # <<>> /\ m.type = "run" /\ inbox'[s] = Tail(q)
        /\ UNCHANGED <<alive, slotJob, cancelRequested>>
        /\ threadCancelled'[s] = FALSE
    BY <1>2 DEF ReceiveRun, ResetFlag, TypeOK
  <2>2. /\ Len(q) \in Nat \ {0} /\ m = q[1] /\ Len(Tail(q)) = Len(q) - 1
        /\ \A i \in 1..Len(Tail(q)) : Tail(q)[i] = q[i + 1]
        /\ Tail(q) \in Seq(ToWorker)
    BY <2>1, MessageTypes
  <2>3. /\ m.job = slotJob[s] /\ m.job \in Jobs
        /\ \A i \in 1..Len(Tail(q)) : Tail(q)[i].type # "run"
        /\ \A i \in 1..Len(outbox[s]) : ~IsEnd(outbox[s][i])
        /\ alive[s]
    BY <2>1, <2>2, MessageTypes DEF SlotInv, OneStage, CrashIsLast
  <2>4. \A i \in 1..Len(Tail(q)) :
          Tail(q)[i].job = m.job /\ cancelRequested[Tail(q)[i].job]
    BY <2>1, <2>2, <2>3, MessageTypes DEF SlotInv, CancelsInOrder
  <2>5. \A i \in 1..Len(outbox[s]) :
          outbox[s][i].type \notin {"done", "error", "cancelled", "crash"}
    BY <2>3 DEF SlotInv, CrashIsLast, IsEnd, EndTypes
  <2>6. CASE outbox'[s] = outbox[s] \o <<Ended("done", m.job)>> /\ threadJob' = threadJob
    <3> DEFINE v == Ended("done", m.job)
               n == Len(outbox[s]) + 1
    <3>1. v \in FromWorker /\ v.type = "done" /\ v.job = m.job
      BY <2>3, ValueTypes DEF Ended, EndTypes
    <3>2. /\ Len(outbox'[s]) = n /\ outbox'[s][n] = v
          /\ \A i \in 1..Len(outbox[s]) : outbox'[s][i] = outbox[s][i]
      BY <2>6, <3>1, SendOne, MessageTypes
    <3>3. threadJob'[s] = NoJob
      BY <2>6, <2>1, <2>2 DEF SlotInv, OneStage
    <3>4. n \in Nat /\ n > 0 /\ n - 1 = Len(outbox[s])
      BY MessageTypes
    <3>5. /\ v.type \in EndTypes /\ v.type # "cancelled"
          /\ v.job = slotJob[s] /\ v.job \in Jobs
      BY <2>3, <3>1 DEF EndTypes
    <3>6. \A i \in 1..(n - 1) :
            outbox'[s][i].type \notin {"done", "error", "cancelled", "crash"}
      BY <2>5, <3>2, <3>4
    <3>7. /\ inbox'[s] \in Seq(ToWorker)
          /\ \A i \in 1..Len(inbox'[s]) :
               inbox'[s][i].type # "run" /\ cancelRequested[inbox'[s][i].job]
      BY <2>1, <2>2, <2>3, <2>4
    <3>8. /\ alive[s] /\ alive'[s] = alive[s] /\ slotJob'[s] = slotJob[s]
          /\ cancelRequested' = cancelRequested
      BY <2>1, <2>3
    <3> HIDE DEF v, n, m, q
    <3> QED BY <3>2, <3>3, <3>4, <3>5, <3>6, <3>7, <3>8, LeaveInv
  <2>7. CASE threadJob'[s] = m.job /\ outbox' = outbox
    <3> HIDE DEF m, q
    <3>1. OneStage(s)'
      BY <2>7, <2>1, <2>3 DEF OneStage, q
    <3>2. CrashIsLast(s)'
      BY <2>7, <2>1, <2>3 DEF SlotInv, CrashIsLast
    <3>3. CancelsInOrder(s)'
      BY <2>7, <2>1, <2>3, <2>4, <2>5 DEF CancelsInOrder
    <3> QED BY <3>1, <3>2, <3>3 DEF SlotInv
  <2> QED BY <1>2, <2>6, <2>7 DEF ReceiveRun, Send, TypeOK
<1>3. CASE DemoStep(s)
  <2> DEFINE j == threadJob[s]
             k == threadStep[s] + 1
             last == LastStep(s, k)
             q == outbox[s]
  <2>1. /\ threadJob[s] # NoJob /\ alive[s] /\ j \in Jobs /\ j = slotJob[s] /\ k \in Nat
        /\ \A i \in 1..Len(inbox[s]) : inbox[s][i].type # "run"
        /\ \A i \in 1..Len(q) : q[i].type \notin {"done", "error", "cancelled", "crash"}
    BY <1>3, Working DEF DemoStep, TypeOK
  <2>2. UNCHANGED <<alive, inbox, slotJob, cancelRequested, threadCancelled>>
    BY <1>3 DEF DemoStep
  <2>3. CASE ~last
    <3>1. outbox'[s] = q \o <<Progress(j, k)>> /\ threadJob'[s] = j
      BY <1>3, <2>3 DEF DemoStep, Send, TypeOK
    <3> QED BY <2>1, <2>2, <3>1, ReportInv
  <2>4. CASE last
    <3> DEFINE v == Outcome(s, j)
               m == Progress(j, k)
    <3>1. outbox'[s] = q \o <<m, v>> /\ threadJob'[s] = NoJob
      BY <1>3, <2>4 DEF DemoStep, Send, TypeOK
    <3>2. /\ v \in FromWorker /\ v.type \in {"done", "cancelled"} /\ v.job = j
          /\ v.type = "cancelled" => threadCancelled[s]
          /\ m \in FromWorker /\ m.type = "progress"
      BY <2>1, ValueTypes DEF Outcome, Ended, EndTypes, Progress
    <3> HIDE DEF v, m
    <3>3. /\ Len(outbox'[s]) = Len(q) + 2 /\ Len(q) \in Nat
          /\ \A i \in 1..Len(q) : outbox'[s][i] = q[i]
          /\ outbox'[s][Len(q) + 1] = m
          /\ outbox'[s][Len(q) + 2] = v
      BY <3>1, <3>2, SendTwo, MessageTypes
    <3>4. \A i \in 1..(Len(q) + 1) :
            outbox'[s][i].type \notin {"done", "error", "cancelled", "crash"}
      <4> HIDE DEF q
      <4>1. \A i \in 1..(Len(q) + 1) : i \in 1..Len(q) \/ i = Len(q) + 1
        BY <3>3
      <4> QED BY <4>1, <2>1, <3>2, <3>3
    <3>5. cancelRequested[j] \/ v.type # "cancelled"
      BY <2>1, <3>2 DEF SlotInv, CancelsInOrder
    <3>6. \A i \in 1..Len(inbox[s]) : cancelRequested[inbox[s][i].job]
      BY <2>1, MessageTypes DEF SlotInv, CancelsInOrder
    <3>7. inbox[s] \in Seq(ToWorker)
      BY MessageTypes
    <3> DEFINE n == Len(q) + 2
    <3>8. n \in Nat /\ n > 0 /\ n - 1 = Len(q) + 1
      BY <3>3
    <3>9. /\ v.type \in EndTypes
          /\ v.job = slotJob[s] /\ v.job \in Jobs
          /\ v.type = "cancelled" => cancelRequested[v.job]
          /\ Len(outbox'[s]) = n /\ outbox'[s][n] = v
      BY <2>1, <3>2, <3>3, <3>5 DEF EndTypes
    <3>10. /\ \A i \in 1..(n - 1) :
               outbox'[s][i].type \notin {"done", "error", "cancelled", "crash"}
           /\ alive'[s] = alive[s] /\ slotJob'[s] = slotJob[s]
      BY <2>2, <3>4, <3>8
    <3>11. /\ inbox'[s] \in Seq(ToWorker)
           /\ \A i \in 1..Len(inbox'[s]) :
                inbox'[s][i].type # "run" /\ cancelRequested[inbox'[s][i].job]
      BY <2>1, <2>2, <3>6, <3>7
    <3> HIDE DEF n, q, j
    <3> QED BY <2>1, <2>2, <3>1, <3>8, <3>9, <3>10, <3>11, LeaveInv
  <2> QED BY <2>3, <2>4
<1>4. CASE ReportBatch(s)
  <2>1. /\ threadJob[s] # NoJob
        /\ outbox'[s] = outbox[s] \o <<Progress(threadJob[s], threadStep[s] + 1)>>
        /\ threadStep[s] + 1 \in Nat
        /\ UNCHANGED <<inbox, alive, slotJob, threadJob, threadCancelled, cancelRequested>>
    BY <1>4 DEF ReportBatch, Send, TypeOK
  <2> QED BY <2>1, ReportInv
<1>5. ASSUME NEW v, v.type \in EndTypes, v.job = threadJob[s], v \in FromWorker,
             v.type = "cancelled" => threadCancelled[s],
             threadJob[s] # NoJob, RunnerLeaves(s, v)
      PROVE  SlotInv(s)'
  <2> DEFINE q == outbox[s]
             n == Len(q) + 1
  <2>1. /\ v.job = slotJob[s] /\ v.job \in Jobs /\ alive[s]
        /\ \A i \in 1..Len(inbox[s]) : inbox[s][i].type # "run"
        /\ \A i \in 1..Len(q) : q[i].type \notin {"done", "error", "cancelled", "crash"}
    BY <1>5, Working
  <2>2. /\ outbox'[s] = q \o <<v>> /\ threadJob'[s] = NoJob
        /\ UNCHANGED <<alive, inbox, slotJob, cancelRequested, threadCancelled>>
    BY <1>5 DEF RunnerLeaves, Send, TypeOK
  <2>3. /\ Len(outbox'[s]) = n /\ Len(q) \in Nat
        /\ \A i \in 1..Len(q) : outbox'[s][i] = q[i]
        /\ outbox'[s][n] = v
    BY <1>5, <2>2, SendOne, MessageTypes
  <2>4. n \in Nat /\ n > 0 /\ n - 1 = Len(q)
    BY <2>3
  <2>5. v.type = "cancelled" => cancelRequested[v.job]
    BY <1>5 DEF SlotInv, CancelsInOrder
  <2>6. \A i \in 1..Len(inbox[s]) : cancelRequested[inbox[s][i].job]
    BY <2>1, MessageTypes DEF SlotInv, CancelsInOrder
  <2>7. inbox[s] \in Seq(ToWorker)
    BY MessageTypes
  <2> HIDE DEF n, q
  <2> QED BY <1>5, <2>1, <2>2, <2>3, <2>4, <2>5, <2>6, <2>7, LeaveInv
<1>6. CASE RunnerReturns(s)
  <2>1. threadJob[s] \in Jobs /\ RunnerLeaves(s, Outcome(s, threadJob[s]))
    BY <1>6 DEF RunnerReturns, TypeOK
  <2> DEFINE v == Outcome(s, threadJob[s])
  <2>2. /\ v.type \in EndTypes /\ v.job = threadJob[s] /\ v \in FromWorker
        /\ v.type = "cancelled" => threadCancelled[s]
    BY <2>1, ValueTypes DEF Outcome, Ended, EndTypes
  <2> HIDE DEF v
  <2> QED BY <1>6, <1>5, <2>1, <2>2 DEF RunnerReturns, v
<1>7. CASE RunnerThrows(s)
  <2>1. threadJob[s] \in Jobs /\ RunnerLeaves(s, Ended("error", threadJob[s]))
    BY <1>7 DEF RunnerThrows, TypeOK
  <2> DEFINE v == Ended("error", threadJob[s])
  <2>2. /\ v.type = "error" /\ v.type \in EndTypes /\ v.job = threadJob[s]
        /\ v \in FromWorker
    BY <2>1, ValueTypes DEF Ended, EndTypes
  <2> HIDE DEF v
  <2> QED BY <1>7, <1>5, <2>1, <2>2 DEF RunnerThrows, v
<1>8. CASE WorkerCrash(s)
  <2> DEFINE v == Ended("crash", NoJob)
             q == outbox[s]
             n == Len(q) + 1
  <2>1. /\ outbox'[s] = q \o <<v>> /\ threadJob'[s] = NoJob /\ inbox'[s] = <<>>
        /\ alive[s] /\ alive'[s] = FALSE
        /\ UNCHANGED <<slotJob, cancelRequested>>
    BY <1>8 DEF WorkerCrash, Send, TypeOK
  <2>2. v \in FromWorker /\ v.type = "crash"
    BY ValueTypes DEF Ended
  <2>3. /\ Len(outbox'[s]) = n /\ Len(q) \in Nat
        /\ \A i \in 1..Len(q) : outbox'[s][i] = q[i]
        /\ outbox'[s][n] = v
    BY <2>1, <2>2, SendOne, MessageTypes
  <2>4. \A i \in 1..n : i \in 1..Len(q) \/ i = n
    BY <2>3
  <2>5. \A i \in 1..Len(q) : q[i].type # "crash"
    BY <2>1 DEF SlotInv, CrashIsLast
  <2> HIDE DEF n, q, v
  <2>6. OneStage(s)'
    BY <2>1, <2>2, <2>3, <2>4 DEF SlotInv, OneStage, IsEnd, EndTypes, q
  <2>7. CrashIsLast(s)'
    BY <2>1, <2>2, <2>3, <2>4, <2>5 DEF CrashIsLast
  <2>8. CancelsInOrder(s)'
    BY <2>1, <2>2, <2>3, <2>4 DEF SlotInv, CancelsInOrder, q
  <2> QED BY <2>6, <2>7, <2>8 DEF SlotInv
<1> QED BY <1>1, <1>2, <1>3, <1>4, <1>6, <1>7, <1>8 DEF WorkerReceives, RunnerWorks

\* Steps of a thread keep the whole invariant: the rows and the other slots are untouched.
LEMMA ThreadStepInv ==
  ASSUME TypeOK, QueueInvariant, NEW s \in Slots,
         WorkerReceives(s) \/ RunnerWorks(s) \/ WorkerCrash(s)
  PROVE  QueueInvariant'
<1> USE DEF rowVars, mainVars, threadVars
<1> DEFINE Untouched == UNCHANGED <<status, cancelRequested, up, todo, claimed, slotJob>>
<1>1. /\ up /\ Untouched
      /\ \A t \in Slots \ {s} : SameSlot(t)
  <2> USE DEF SameSlot, TypeOK
  <2>1. CASE ReceiveCancel(s)
    BY <2>1 DEF ReceiveCancel, QueueInvariant, DeadMeansEmpty
  <2>2. CASE ReceiveRun(s)
    BY <2>2 DEF ReceiveRun, ResetFlag, Send, QueueInvariant, DeadMeansEmpty
  <2>3. CASE DemoStep(s)
    BY <2>3 DEF DemoStep, Send, QueueInvariant, DeadMeansEmpty
  <2>4. CASE ReportBatch(s)
    BY <2>4 DEF ReportBatch, Send, QueueInvariant, DeadMeansEmpty
  <2>5. CASE RunnerReturns(s) \/ RunnerThrows(s)
    BY <2>5 DEF RunnerReturns, RunnerThrows, RunnerLeaves, Send, QueueInvariant, DeadMeansEmpty
  <2>6. CASE WorkerCrash(s)
    BY <2>6 DEF WorkerCrash, Send
  <2> QED BY <2>1, <2>2, <2>3, <2>4, <2>5, <2>6 DEF WorkerReceives, RunnerWorks
<1>2. CancelsGrow
  BY <1>1 DEF CancelsGrow
<1>3. \A t \in Slots : SlotInv(t)'
  <2>1. SlotInv(s)'
    BY ThreadInv DEF QueueInvariant, SlotInv
  <2>2. \A t \in Slots \ {s} : SlotInv(t)'
    BY <1>1, <1>2, SlotFrame DEF QueueInvariant, SlotInv
  <2> QED BY <2>1, <2>2
<1>4. DeadMeansEmpty'
  BY <1>1 DEF DeadMeansEmpty
<1>5. Ownership'
  BY <1>1 DEF Ownership, QueueInvariant
<1> QED BY <1>3, <1>4, <1>5 DEF QueueInvariant, SlotInv

\* The messages of a slot after its first one has been taken, the job's end included.
LEMMA TakeInv ==
  ASSUME TypeOK, NEW s \in Slots, SlotInv(s), outbox[s] # <<>>,
         outbox'[s] = Tail(outbox[s]),
         \/ slotJob'[s] = slotJob[s]
         \/ slotJob'[s] = NoJob /\ Head(outbox[s]).type \in EndTypes \cup {"crash"},
         UNCHANGED <<alive, inbox, threadJob, threadCancelled, cancelRequested>>
  PROVE  SlotInv(s)'
<1> DEFINE q == outbox[s]
<1>1. /\ Len(q) \in Nat \ {0} /\ Head(q) = q[1] /\ Len(Tail(q)) = Len(q) - 1
      /\ \A i \in 1..Len(Tail(q)) : Tail(q)[i] = q[i + 1]
  BY MessageTypes
<1>2. CASE slotJob'[s] = slotJob[s]
  <2>1. OneStage(s)'
    BY <1>1, <1>2 DEF SlotInv, OneStage, IsEnd
  <2>2. CrashIsLast(s)'
    BY <1>1 DEF SlotInv, CrashIsLast
  <2>3. CancelsInOrder(s)'
    BY <1>1 DEF SlotInv, CancelsInOrder
  <2> QED BY <2>1, <2>2, <2>3 DEF SlotInv
<1>3. CASE slotJob'[s] = NoJob /\ Head(q).type \in EndTypes
  <2>1. /\ threadJob[s] = NoJob
        /\ \A i \in 1..Len(inbox[s]) : inbox[s][i].type # "run"
        /\ \A i \in 1..Len(q) : i # 1 => ~IsEnd(q[i])
    BY <1>1, <1>3, SMTT(30) DEF SlotInv, OneStage, IsEnd
  <2>2. OneStage(s)'
    BY <1>1, <2>1 DEF OneStage
  <2>3. CrashIsLast(s)'
    BY <1>1 DEF SlotInv, CrashIsLast
  <2>4. CancelsInOrder(s)'
    BY <1>1 DEF SlotInv, CancelsInOrder
  <2> QED BY <2>2, <2>3, <2>4 DEF SlotInv
<1>4. CASE slotJob'[s] = NoJob /\ Head(q).type = "crash"
  <2>1. Len(q) = 1 /\ ~alive[s] /\ inbox[s] = <<>> /\ threadJob[s] = NoJob
    <3>1. 1 \in 1..Len(q) /\ q[1].type = "crash"
      BY <1>1, <1>4
    <3>2. Len(q) = 1 /\ ~alive[s] /\ inbox[s] = <<>>
      BY <3>1 DEF SlotInv, CrashIsLast
    <3> QED BY <3>2 DEF SlotInv, OneStage
  <2>2. Len(outbox'[s]) = 0 /\ Len(inbox'[s]) = 0 /\ inbox'[s] = <<>> /\ threadJob'[s] = NoJob
    <3> HIDE DEF q
    <3> QED BY <1>1, <2>1 DEF q
  <2>3. OneStage(s)' /\ CrashIsLast(s)' /\ CancelsInOrder(s)'
    BY <2>2 DEF OneStage, CrashIsLast, CancelsInOrder
  <2> QED BY <2>3 DEF SlotInv
<1> QED BY <1>2, <1>3, <1>4

\* Taking a message keeps the invariant: the final message that ends a row names the job of the
\* slot it frees.
LEMMA TakeStepInv ==
  ASSUME TypeOK, QueueInvariant, NEW s \in Slots, TakeMessage(s)
  PROVE  QueueInvariant'
<1> USE DEF rowVars, mainVars, threadVars
<1> DEFINE m == Head(outbox[s])
<1>1. /\ up /\ up' /\ outbox[s] # <<>> /\ outbox' = [outbox EXCEPT ![s] = Tail(@)]
      /\ UNCHANGED <<alive, inbox, threadJob, threadCancelled, cancelRequested, claimed>>
  BY DEF TakeMessage, HandleProgress, HandleDone, HandleError, HandleCancelled, HandleCrash,
         Arrives, AtRest
<1>2. \/ slotJob' = slotJob /\ status' = status
      \/ /\ slotJob' = [slotJob EXCEPT ![s] = NoJob]
         /\ m.type \in EndTypes \cup {"crash"}
         /\ \/ status' = status
            \/ \E outcome \in Terminal :
                 \/ m.type \in EndTypes /\ status' = [status EXCEPT ![m.job] = outcome]
                 \/ slotJob[s] # NoJob /\ status' = [status EXCEPT ![slotJob[s]] = outcome]
  <2> USE DEF Arrives, EndTypes, EndRow, FreeSlot, Terminal
  <2>1. CASE HandleProgress(s)
    BY <2>1 DEF HandleProgress
  <2>2. CASE HandleDone(s)
    BY <2>2 DEF HandleDone
  <2>3. CASE HandleError(s)
    BY <2>3 DEF HandleError
  <2>4. CASE HandleCancelled(s)
    BY <2>4 DEF HandleCancelled
  <2>5. CASE HandleCrash(s)
    BY <2>5 DEF HandleCrash
  <2> QED BY <2>1, <2>2, <2>3, <2>4, <2>5 DEF TakeMessage
<1>3. m.type \in EndTypes => m.job = slotJob[s] /\ m.job # NoJob
  <2>1. Len(outbox[s]) \in Nat \ {0} /\ m = outbox[s][1]
    BY <1>1, MessageTypes
  <2> HIDE DEF m
  <2> QED BY <2>1, ConstantsAssumption DEF QueueInvariant, OneStage, IsEnd, Jobs
<1>4. \A t \in Slots : SlotInv(t)'
  <2>1. SlotInv(s)'
    <3>1. SlotInv(s)
      BY DEF QueueInvariant, SlotInv
    <3>2. /\ outbox'[s] = Tail(outbox[s])
          /\ \/ slotJob'[s] = slotJob[s]
             \/ slotJob'[s] = NoJob /\ Head(outbox[s]).type \in EndTypes \cup {"crash"}
      BY <1>1, <1>2 DEF TypeOK
    <3> QED BY <1>1, <3>1, <3>2, TakeInv
  <2>2. ASSUME NEW t \in Slots \ {s} PROVE SlotInv(t)'
    <3>1. SameSlot(t) /\ CancelsGrow
      BY <1>1, <1>2 DEF SameSlot, CancelsGrow, TypeOK
    <3> QED BY <3>1, SlotFrame DEF QueueInvariant, SlotInv
  <2> QED BY <2>1, <2>2
<1>5. DeadMeansEmpty'
  BY <1>1 DEF DeadMeansEmpty
<1>6. Ownership'
  <2>1. \A t \in Slots : slotJob'[t] = slotJob[t] \/ slotJob'[t] = NoJob
    BY <1>2 DEF TypeOK
  <2>2. CASE status' = status
    <3>1. Ownership
      BY DEF QueueInvariant
    <3> QED BY <1>1, <2>1, <2>2, <3>1 DEF Ownership
  <2>3. CASE /\ slotJob[s] # NoJob /\ slotJob'[s] = NoJob
             /\ \A j \in Jobs : j # slotJob[s] => status'[j] = status[j]
    <3>1. Ownership /\ claimed \in Jobs \cup {NoJob} /\ slotJob \in [Slots -> Jobs \cup {NoJob}]
      BY DEF QueueInvariant, TypeOK
    <3> QED BY <1>1, <2>1, <2>3, <3>1 DEF Ownership
  <2>4. \/ status' = status
        \/ /\ slotJob[s] # NoJob /\ slotJob'[s] = NoJob
           /\ \A j \in Jobs : j # slotJob[s] => status'[j] = status[j]
    <3> HIDE DEF m
    <3> QED BY <1>2, <1>3 DEF TypeOK
  <2> QED BY <2>2, <2>3, <2>4
<1> QED BY <1>4, <1>5, <1>6 DEF QueueInvariant, SlotInv

\* The rest of a handler keeps the invariant: pump claims a queued row, so a job no slot has,
\* and hands it to a slot that is idle.
LEMMA HandlerStepInv ==
  ASSUME TypeOK, QueueInvariant, RunHandler
  PROVE  QueueInvariant'
<1> USE DEF rowVars, mainVars, threadVars
<1>1. DeadMeansEmpty' /\ up
  <2>1. up /\ up'
    BY DEF RunHandler, PumpClaim, PumpDropCancelled, PumpDispatch, PumpStop, EmitUnheard,
           EmitRescan, SweepMissing, BacklogEmpty, BacklogEnqueue, Respawn, Doing
  <2> QED BY <2>1 DEF DeadMeansEmpty
<1>2. cancelRequested' = cancelRequested
  BY DEF RunHandler, PumpClaim, PumpDropCancelled, PumpDispatch, PumpStop, EmitUnheard,
         EmitRescan, SweepMissing, BacklogEmpty, BacklogEnqueue, Respawn, EnqueueRow
<1>3. CancelsGrow
  BY <1>2 DEF CancelsGrow
<1>4. Ownership /\ \A t \in Slots : SlotInv(t)
  BY DEF QueueInvariant, SlotInv
<1>5. ASSUME UNCHANGED <<threadVars, slotJob>> PROVE \A t \in Slots : SlotInv(t)'
  <2>1. \A t \in Slots : SameSlot(t)
    BY <1>5 DEF SameSlot
  <2> QED BY <2>1, <1>3, <1>4, SlotFrame
<1>6. ASSUME NEW j \in Jobs, PumpClaim(j) PROVE QueueInvariant'
  <2>1. status[j] = "queued"
    BY <1>6 DEF PumpClaim, NextInLine
  <2>2. Ownership'
    BY <1>4, <1>6, <2>1 DEF PumpClaim, Ownership, TypeOK
  <2> QED BY <1>1, <1>5, <1>6, <2>2 DEF PumpClaim, QueueInvariant, SlotInv
<1>7. CASE PumpDropCancelled
  <2>1. Ownership'
    BY <1>4, <1>7 DEF PumpDropCancelled, EndRow, Ownership, TypeOK
  <2> QED BY <1>1, <1>5, <1>7, <2>1 DEF PumpDropCancelled, QueueInvariant, SlotInv
<1>8. ASSUME NEW s \in Slots, PumpDispatch(s) PROVE QueueInvariant'
  <2> DEFINE m == Run(claimed)
             q == inbox[s]
  <2>1. /\ slotJob[s] = NoJob /\ claimed # NoJob /\ claimed \in Jobs
        /\ slotJob' = [slotJob EXCEPT ![s] = claimed] /\ claimed' = NoJob
        /\ UNCHANGED <<status, alive, outbox, threadJob, threadCancelled>>
        /\ inbox' = IF alive[s] THEN [inbox EXCEPT ![s] = Append(q, m)] ELSE inbox
    BY <1>8 DEF PumpDispatch, FirstIdle, Idle, Post, TypeOK
  <2>2. Ownership'
    BY <1>4, <2>1 DEF Ownership, TypeOK
  <2>3. ASSUME NEW t \in Slots \ {s} PROVE SlotInv(t)'
    <3>1. SameSlot(t)
      BY <2>1 DEF SameSlot, TypeOK
    <3> QED BY <3>1, <1>3, <1>4, SlotFrame
  <2>4. /\ threadJob[s] = NoJob
        /\ \A i \in 1..Len(q) : q[i].type # "run"
        /\ \A i \in 1..Len(outbox[s]) : ~IsEnd(outbox[s][i])
    <3>1. NoJob \notin Jobs
      BY ConstantsAssumption DEF Jobs
    <3> QED BY <1>4, <2>1, <3>1, MessageTypes DEF SlotInv, OneStage
  <2>5. CASE ~alive[s]
    <3>1. UNCHANGED <<alive, inbox, outbox, threadJob, threadCancelled>>
      BY <2>1, <2>5
    <3>2. OneStage(s)'
      BY <2>4, <3>1 DEF OneStage
    <3>3. CrashIsLast(s)'
      BY <1>4, <3>1 DEF SlotInv, CrashIsLast
    <3>4. CancelsInOrder(s)'
      BY <1>2, <1>4, <3>1 DEF SlotInv, CancelsInOrder
    <3> QED BY <1>1, <2>2, <2>3, <3>2, <3>3, <3>4 DEF QueueInvariant, SlotInv
  <2>6. CASE alive[s]
    <3>1. m \in ToWorker /\ m.type = "run" /\ m.job = claimed
      BY <2>1, ValueTypes DEF Run
    <3>2. inbox'[s] = Append(q, m) /\ slotJob'[s] = claimed
      BY <2>1, <2>6 DEF TypeOK
    <3> HIDE DEF m
    <3>3. /\ Len(inbox'[s]) = Len(q) + 1 /\ Len(q) \in Nat
          /\ \A i \in 1..Len(q) : inbox'[s][i] = q[i]
          /\ inbox'[s][Len(q) + 1] = m
      BY <3>1, <3>2, MessageTypes
    <3>4. \A i \in 1..(Len(q) + 1) : i \in 1..Len(q) \/ i = Len(q) + 1
      BY <3>3
    <3> HIDE DEF q
    <3>5. OneStage(s)'
      BY <2>1, <2>4, <3>1, <3>2, <3>3, <3>4 DEF OneStage
    <3>6. CrashIsLast(s)'
      BY <1>4, <2>1, <2>6 DEF SlotInv, CrashIsLast
    <3>7. CancelsInOrder(s)'
      BY <1>2, <1>4, <2>1, <2>4, <3>1, <3>3, <3>4 DEF SlotInv, CancelsInOrder, q
    <3> QED BY <1>1, <2>2, <2>3, <3>5, <3>6, <3>7 DEF QueueInvariant, SlotInv
  <2> QED BY <2>5, <2>6
<1>9. CASE PumpStop \/ EmitUnheard \/ SweepMissing \/ BacklogEmpty
  <2>1. UNCHANGED <<status, claimed, slotJob, threadVars>>
    BY <1>9 DEF PumpStop, EmitUnheard, SweepMissing, BacklogEmpty
  <2>2. Ownership'
    BY <1>4, <2>1 DEF Ownership
  <2> QED BY <1>1, <1>5, <2>1, <2>2 DEF QueueInvariant, SlotInv
<1>10. ASSUME NEW j \in Jobs, EmitRescan(j) \/ BacklogEnqueue(j) PROVE QueueInvariant'
  <2>1. /\ status[j] = "absent" /\ status' = [status EXCEPT ![j] = "queued"]
        /\ UNCHANGED <<claimed, slotJob, threadVars>>
    BY <1>10 DEF EmitRescan, BacklogEnqueue, EnqueueRow
  <2>2. Ownership'
    BY <1>4, <2>1 DEF Ownership, TypeOK
  <2> QED BY <1>1, <1>5, <2>1, <2>2 DEF QueueInvariant, SlotInv
<1>11. CASE Respawn
  <2>1. PICK s \in Slots :
           /\ alive' = [alive EXCEPT ![s] = TRUE]
           /\ inbox' = [inbox EXCEPT ![s] = <<>>]
           /\ outbox' = [outbox EXCEPT ![s] = <<>>]
    BY <1>11, QueueTypes DEF Respawn, Doing, Task
  <2>2. UNCHANGED <<status, claimed, slotJob, threadJob, threadCancelled>>
    BY <1>11 DEF Respawn
  <2>3. Ownership'
    BY <1>4, <2>2 DEF Ownership
  <2>4. ASSUME NEW t \in Slots \ {s} PROVE SlotInv(t)'
    <3>1. SameSlot(t)
      BY <2>1, <2>2 DEF SameSlot, TypeOK
    <3> QED BY <3>1, <1>3, <1>4, SlotFrame
  <2>5. SlotInv(s)'
    <3>1. /\ inbox'[s] = <<>> /\ outbox'[s] = <<>> /\ alive'[s]
          /\ threadJob'[s] = threadJob[s] /\ slotJob'[s] = slotJob[s]
          /\ threadCancelled'[s] = threadCancelled[s]
      BY <2>1, <2>2 DEF TypeOK
    <3>2. OneStage(s)' /\ CrashIsLast(s)'
      BY <1>4, <3>1 DEF SlotInv, OneStage, CrashIsLast
    <3>3. CancelsInOrder(s)'
      BY <1>2, <1>4, <3>1 DEF SlotInv, CancelsInOrder
    <3> QED BY <3>2, <3>3 DEF SlotInv
  <2> QED BY <1>1, <2>3, <2>4, <2>5 DEF QueueInvariant, SlotInv
<1> QED BY <1>6, <1>7, <1>8, <1>9, <1>10, <1>11 DEF RunHandler

\* Boot, a death of the process and the calls of the user interface keep the invariant.
LEMMA CallStepInv ==
  ASSUME TypeOK, QueueInvariant, Boot \/ ProcessDies \/ UserCall
  PROVE  QueueInvariant'
<1> USE DEF rowVars, mainVars, threadVars
<1>1. /\ DeadMeansEmpty /\ Ownership
      /\ \A t \in Slots : SlotInv(t)
  BY DEF QueueInvariant, SlotInv
<1>2. ASSUME UNCHANGED <<threadVars, slotJob>>, CancelsGrow PROVE \A t \in Slots : SlotInv(t)'
  <2>1. \A t \in Slots : SameSlot(t)
    BY <1>2 DEF SameSlot
  <2> QED BY <2>1, <1>1, <1>2, SlotFrame
<1>3. CASE Boot
  <2>1. DeadMeansEmpty' /\ Ownership'
    BY <1>1, <1>3 DEF Boot, DeadMeansEmpty, Ownership
  <2>2. CancelsGrow
    BY <1>3 DEF Boot, CancelsGrow
  <2> QED BY <1>2, <1>3, <2>1, <2>2 DEF Boot, QueueInvariant, SlotInv
<1>4. CASE ProcessDies
  <2>1. \A t \in Slots : /\ inbox'[t] = <<>> /\ outbox'[t] = <<>> /\ alive'[t]
                         /\ threadJob'[t] = NoJob /\ slotJob'[t] = NoJob
    BY <1>4 DEF ProcessDies
  <2>2. \A t \in Slots : SlotInv(t)'
    BY <2>1, SlotEmpty
  <2>3. DeadMeansEmpty' /\ Ownership'
    BY <1>4, <2>1 DEF ProcessDies, DeadMeansEmpty, Ownership
  <2> QED BY <2>2, <2>3 DEF QueueInvariant, SlotInv
<1>5. ASSUME NEW j \in Jobs,
             (\E t \in JobTypes : Enqueue(j, t)) \/ CancelQueued(j) \/ CancelEnded(j)
      PROVE  QueueInvariant'
  <2>1. /\ status' = status \/ /\ status[j] # "running"
                               /\ \A i \in Jobs : i # j => status'[i] = status[i]
        /\ up /\ up' /\ UNCHANGED <<claimed, slotJob, threadVars>>
    BY <1>5 DEF Enqueue, EnqueueRow, CancelQueued, CancelEnded, AtRest, TypeOK
  <2>2. CancelsGrow
    BY <1>5 DEF Enqueue, EnqueueRow, CancelQueued, CancelEnded, CancelsGrow, TypeOK
  <2>3. DeadMeansEmpty' /\ Ownership'
    BY <1>1, <2>1 DEF DeadMeansEmpty, Ownership, TypeOK
  <2> QED BY <1>2, <2>1, <2>2, <2>3 DEF QueueInvariant, SlotInv
<1>6. ASSUME NEW j \in Jobs, CancelRunning(j) PROVE QueueInvariant'
  <2> DEFINE m == CancelMsg(j)
  <2>1. PICK s \in Slots :
           /\ slotJob[s] = j
           /\ inbox' = IF alive[s] THEN [inbox EXCEPT ![s] = Append(@, m)] ELSE inbox
    BY <1>6 DEF CancelRunning, PoolCancel, Post
  <2>2. /\ up /\ up' /\ cancelRequested' = [cancelRequested EXCEPT ![j] = TRUE]
        /\ UNCHANGED <<status, claimed, slotJob, alive, outbox, threadJob, threadCancelled>>
    BY <1>6 DEF CancelRunning, AtRest
  <2>3. CancelsGrow
    BY <2>2 DEF CancelsGrow, TypeOK
  <2>4. DeadMeansEmpty' /\ Ownership'
    BY <1>1, <2>2 DEF DeadMeansEmpty, Ownership
  <2>5. ASSUME NEW t \in Slots, inbox'[t] = inbox[t] PROVE SlotInv(t)'
    <3>1. SameSlot(t)
      BY <2>2, <2>5 DEF SameSlot
    <3> QED BY <1>1, <2>3, <3>1, SlotFrame
  <2>6. CASE ~alive[s]
    BY <2>1, <2>4, <2>5, <2>6 DEF QueueInvariant, SlotInv
  <2>7. CASE alive[s]
    <3> DEFINE q == inbox[s]
    <3>1. m \in ToWorker /\ m.type = "cancel" /\ m.job = j
      BY ValueTypes DEF CancelMsg
    <3>2. inbox'[s] = Append(q, m)
      BY <2>1, <2>7 DEF TypeOK
    <3> HIDE DEF m
    <3>3. /\ Len(inbox'[s]) = Len(q) + 1 /\ Len(q) \in Nat
          /\ \A i \in 1..Len(q) : inbox'[s][i] = q[i]
          /\ inbox'[s][Len(q) + 1] = m
      BY <3>1, <3>2, MessageTypes
    <3>4. \A i \in 1..(Len(q) + 1) : i \in 1..Len(q) \/ i = Len(q) + 1
      BY <3>3
    <3>5. cancelRequested'[j]
      BY <2>2 DEF TypeOK
    <3>6. \A i \in 1..Len(q) : q[i].job \in Jobs
      BY MessageTypes
    <3>7. \A i \in 1..Len(outbox[s]) :
            outbox[s][i].type = "cancelled" => outbox[s][i].job \in Jobs
      BY MessageTypes
    <3>8. threadJob[s] # NoJob => threadJob[s] = j
      BY <1>1, <2>1 DEF SlotInv, OneStage
    <3>9. \A i \in 1..Len(q) : q[i].type = "run" => q[i].job = j
      BY <1>1, <2>1 DEF SlotInv, OneStage
    <3> HIDE DEF q
    <3>10. OneStage(s)'
      <4>1. OneStage(s)
        BY <1>1 DEF SlotInv
      <4>2. \A i \in 1..Len(inbox'[s]) :
              inbox'[s][i].type = "run" => i \in 1..Len(inbox[s]) /\ inbox'[s][i] = inbox[s][i]
        BY <3>1, <3>3, <3>4 DEF q
      <4> QED BY <2>2, <4>1, <4>2 DEF OneStage, IsEnd
    <3>11. CrashIsLast(s)'
      BY <1>1, <2>2, <2>7 DEF SlotInv, CrashIsLast
    <3>12. CancelsInOrder(s)'
      <4>1. CancelsInOrder(s)
        BY <1>1 DEF SlotInv
      <4>2. threadJob[s] # NoJob => threadJob[s] \in Jobs
        BY DEF TypeOK
      <4>3. threadJob'[s] # NoJob /\ threadCancelled'[s] => cancelRequested'[threadJob'[s]]
        BY <2>2, <2>3, <4>1, <4>2 DEF CancelsInOrder, CancelsGrow
      <4>4. \A i \in 1..Len(outbox'[s]) :
              outbox'[s][i].type = "cancelled" => cancelRequested'[outbox'[s][i].job]
        BY <2>2, <2>3, <3>7, <4>1 DEF CancelsInOrder, CancelsGrow
      <4>5. ASSUME NEW i \in 1..Len(inbox'[s]), inbox'[s][i].type = "cancel"
            PROVE  /\ cancelRequested'[inbox'[s][i].job]
                   /\ threadJob'[s] # NoJob => inbox'[s][i].job = threadJob'[s]
                   /\ \A k \in 1..Len(inbox'[s]) : k < i /\ inbox'[s][k].type = "run" =>
                        inbox'[s][k].job = inbox'[s][i].job
        <5>1. CASE i = Len(q) + 1
          <6>1. \A k \in 1..Len(inbox'[s]) : k < i => k \in 1..Len(q)
            BY <3>3, <5>1
          <6> QED BY <2>2, <3>1, <3>3, <3>5, <3>8, <3>9, <5>1, <6>1
        <5>2. CASE i \in 1..Len(q)
          <6>1. inbox'[s][i] = q[i] /\ \A k \in 1..Len(inbox'[s]) : k < i => k \in 1..Len(q)
            BY <3>3, <5>2
          <6>2. /\ cancelRequested[q[i].job]
                /\ threadJob[s] # NoJob => q[i].job = threadJob[s]
                /\ \A k \in 1..Len(q) : k < i /\ q[k].type = "run" => q[k].job = q[i].job
            BY <4>1, <4>5, <5>2, <6>1 DEF CancelsInOrder, q
          <6> QED BY <2>2, <2>3, <3>3, <3>6, <5>2, <6>1, <6>2 DEF CancelsGrow
        <5> QED BY <3>3, <3>4, <5>1, <5>2
      <4> QED BY <4>3, <4>4, <4>5 DEF CancelsInOrder
    <3>13. \A t \in Slots \ {s} : inbox'[t] = inbox[t]
      BY <2>1, <2>7 DEF TypeOK
    <3> QED BY <2>4, <2>5, <3>10, <3>11, <3>12, <3>13 DEF QueueInvariant, SlotInv
  <2> QED BY <2>6, <2>7
<1> QED BY <1>3, <1>4, <1>5, <1>6 DEF UserCall

\* The invariant holds at the start, and every step keeps it.
LEMMA InitQueueInvariant == Init => QueueInvariant
<1> SUFFICES ASSUME Init PROVE QueueInvariant
  OBVIOUS
<1>1. \A t \in Slots : /\ inbox[t] = <<>> /\ outbox[t] = <<>> /\ alive[t]
                       /\ threadJob[t] = NoJob /\ slotJob[t] = NoJob
  BY DEF Init
<1>2. \A t \in Slots : OneStage(t) /\ CrashIsLast(t) /\ CancelsInOrder(t)
  BY <1>1 DEF OneStage, CrashIsLast, CancelsInOrder
<1>3. DeadMeansEmpty /\ Ownership
  BY <1>1 DEF Init, DeadMeansEmpty, Ownership
<1> QED BY <1>2, <1>3 DEF QueueInvariant

\* Every step keeps the invariant.
LEMMA NextQueueInvariant == TypeOK /\ QueueInvariant /\ [Next]_vars => QueueInvariant'
<1> SUFFICES ASSUME TypeOK, QueueInvariant, [Next]_vars PROVE QueueInvariant'
  OBVIOUS
<1>1. CASE Boot \/ ProcessDies \/ UserCall
  BY <1>1, CallStepInv
<1>2. CASE RunHandler
  BY <1>2, HandlerStepInv
<1>3. ASSUME NEW s \in Slots, TakeMessage(s) PROVE QueueInvariant'
  BY <1>3, TakeStepInv
<1>4. ASSUME NEW s \in Slots, WorkerReceives(s) \/ RunnerWorks(s) \/ WorkerCrash(s)
      PROVE  QueueInvariant'
  BY <1>4, ThreadStepInv
<1>5. CASE UNCHANGED vars
  <2>1. UNCHANGED <<up, todo, claimed, status>>
    BY <1>5 DEF vars, rowVars, mainVars
  <2>2. CancelsGrow /\ \A t \in Slots : SameSlot(t)
    BY <1>5 DEF vars, rowVars, mainVars, threadVars, CancelsGrow, SameSlot
  <2>3. \A t \in Slots : SlotInv(t)'
    BY <2>2, SlotFrame DEF QueueInvariant, SlotInv
  <2>4. DeadMeansEmpty' /\ Ownership'
    BY <1>5 DEF vars, rowVars, mainVars, threadVars, QueueInvariant, DeadMeansEmpty, Ownership
  <2> QED BY <2>3, <2>4 DEF QueueInvariant, SlotInv
<1> QED BY <1>1, <1>2, <1>3, <1>4, <1>5 DEF Next

\* The inductive invariant of the queue, for any number of jobs, slots, crashes and restarts.
THEOREM QueueIsSafe == Spec => []QueueInvariant
<1>1. Init => TypeOK /\ QueueInvariant
  BY InitTypeOK, InitQueueInvariant
<1>2. TypeOK /\ QueueInvariant /\ [Next]_vars => TypeOK' /\ QueueInvariant'
  BY NextTypeOK, NextQueueInvariant
<1> QED BY <1>1, <1>2, PTL DEF Spec

-----------------------------------------------------------------------------
(* What the invariant says of the slots.                                   *)

\* Two workers never run one job (pool.ts, busy and currentJobId of a slot).
THEOREM WorkersApart == Spec => []OneWorkerPerJob
<1>1. TypeOK /\ QueueInvariant => OneWorkerPerJob
  <2> SUFFICES ASSUME TypeOK, QueueInvariant PROVE OneWorkerPerJob
    OBVIOUS
  <2>1. \A s, t \in Slots : slotJob[s] = slotJob[t] /\ slotJob[s] # NoJob => s = t
    BY DEF QueueInvariant, Ownership
  <2>2. ASSUME NEW s \in Slots
        PROVE  /\ threadJob[s] # NoJob =>
                    threadJob[s] = slotJob[s] /\ RunsIn(s) = {} /\ EndsIn(s) = {}
               /\ \A i \in RunsIn(s) :
                    inbox[s][i].job = slotJob[s] /\ RunsIn(s) = {i} /\ EndsIn(s) = {}
               /\ \A i \in EndsIn(s) : outbox[s][i].job = slotJob[s] /\ EndsIn(s) = {i}
    <3>1. OneStage(s)
      BY DEF QueueInvariant
    <3>2. DOMAIN inbox[s] = 1..Len(inbox[s]) /\ DOMAIN outbox[s] = 1..Len(outbox[s])
      BY MessageTypes
    <3> QED BY <3>1, <3>2 DEF OneStage, RunsIn, EndsIn, IsEnd
  <2> QED BY <2>1, <2>2 DEF OneWorkerPerJob
<1> QED BY <1>1, TypeCorrect, QueueIsSafe, PTL

\* A cancel never stops a job nobody asked to cancel (worker-entry.ts, the reset of
\* `cancelled` by a run message).
THEOREM CancelsAreAsked == Spec => []CancelOnlyItsJob
<1>1. QueueInvariant => CancelOnlyItsJob
  BY DEF QueueInvariant, CancelsInOrder, CancelOnlyItsJob
<1> QED BY <1>1, QueueIsSafe, PTL

-----------------------------------------------------------------------------
(* What each step does to the rows: the facts the next proofs share.       *)

\* The job a terminal message or a crash names is the one its slot is busy with.
LEMMA EndsItsSlotsJob ==
  ASSUME TypeOK, QueueInvariant, NEW s \in Slots, NEW type \in EndTypes, Arrives(s, type)
  PROVE  /\ Head(outbox[s]).job = slotJob[s] /\ slotJob[s] \in Jobs
         /\ slotJob[s] # NoJob /\ status[slotJob[s]] = "running"
         /\ type = "cancelled" => cancelRequested[slotJob[s]]
<1>1. /\ outbox[s] # <<>> /\ Head(outbox[s]) = outbox[s][1]
      /\ outbox[s][1].type = type /\ 1 \in 1..Len(outbox[s])
  BY MessageTypes DEF Arrives
<1>2. outbox[s][1].job = slotJob[s] /\ slotJob[s] \in Jobs
  BY <1>1 DEF QueueInvariant, OneStage, IsEnd
<1>3. slotJob[s] # NoJob
  BY <1>2, ConstantsAssumption DEF Jobs, NoJob
<1>4. status[slotJob[s]] = "running"
  BY <1>3 DEF QueueInvariant, Ownership
<1>5. type = "cancelled" => cancelRequested[slotJob[s]]
  BY <1>1, <1>2 DEF QueueInvariant, CancelsInOrder
<1> QED BY <1>1, <1>2, <1>3, <1>4, <1>5

-----------------------------------------------------------------------------
(* The queue implements JobLifecycle.                                      *)

\* claimNext picks a row that no other queued row precedes.
LEMMA NextIsBest ==
  ASSUME TypeOK, NEW j \in Jobs, NextInLine(j)
  PROVE  BestQueued(j)
<1>1. \A k \in Jobs : Priority(jobType[k]) \in Int
  BY DEF Priority
<1>2. status[j] = "queued"
  BY DEF NextInLine
<1>3. ASSUME NEW k \in Jobs \ {j}, status[k] = "queued" PROVE Before(j, k)
  <2>1. Priority(jobType[j]) >= Priority(jobType[k])
    BY <1>3 DEF NextInLine
  <2>2. CASE Priority(jobType[j]) = Priority(jobType[k])
    <3>1. j <= k
      BY <1>3, <2>2 DEF NextInLine
    <3> QED BY <2>2, <3>1 DEF Before, Jobs
  <2> QED BY <1>1, <2>1, <2>2 DEF Before
<1> QED BY <1>2, <1>3 DEF BestQueued

\* Every step of the queue is a step of JobLifecycle, or leaves its rows alone.
LEMMA StepImplements ==
  TypeOK /\ QueueInvariant /\ [Next]_vars => [LifecycleNext]_lifecycleVars
<1> SUFFICES ASSUME TypeOK, QueueInvariant, [Next]_vars
             PROVE  LifecycleNext \/ UNCHANGED lifecycleVars
  OBVIOUS
<1> USE DEF rowVars, mainVars, threadVars, lifecycleVars
<1>1. CASE Boot
  BY <1>1 DEF Boot, RequeueOrphaned, Requeue, LifecycleNext
<1>2. CASE ProcessDies
  BY <1>2 DEF ProcessDies
<1>3. CASE UserCall
  <2>1. ASSUME NEW j \in Jobs, NEW t \in JobTypes, Enqueue(j, t) PROVE LifecycleNext
    BY <2>1 DEF Enqueue, EnqueueRow, Create, LifecycleNext
  <2>2. ASSUME NEW j \in Jobs, CancelQueued(j) PROVE LifecycleNext
    BY <2>2 DEF CancelQueued, Withdraw, LifecycleNext
  <2>3. ASSUME NEW j \in Jobs, CancelRunning(j) PROVE LifecycleNext
    BY <2>3 DEF CancelRunning, AskToStop, LifecycleNext
  <2>4. ASSUME NEW j \in Jobs, CancelEnded(j) PROVE UNCHANGED lifecycleVars
    BY <2>4 DEF CancelEnded
  <2> QED BY <1>3, <2>1, <2>2, <2>3, <2>4 DEF UserCall
<1>4. ASSUME NEW j \in Jobs, NEW outcome \in Terminal, status[j] = "running",
             outcome = "cancelled" => cancelRequested[j],
             EndRow(j, outcome), UNCHANGED <<jobType, cancelRequested>>
      PROVE  LifecycleNext
  BY <1>4 DEF EndRow, End, LifecycleNext
<1>5. CASE RunHandler
  <2>1. ASSUME NEW j \in Jobs, PumpClaim(j) PROVE LifecycleNext
    BY <2>1, NextIsBest DEF PumpClaim, Claim, LifecycleNext
  <2>2. CASE PumpDropCancelled
    <3>1. claimed \in Jobs /\ status[claimed] = "running"
      BY <2>2 DEF PumpDropCancelled, TypeOK, MainTypes, QueueInvariant, Ownership
    <3> QED BY <1>4, <2>2, <3>1 DEF PumpDropCancelled, Terminal
  <2>3. ASSUME NEW j \in Jobs, EmitRescan(j) \/ BacklogEnqueue(j) PROVE LifecycleNext
    BY <2>3 DEF EmitRescan, BacklogEnqueue, EnqueueRow, Create, JobTypes, LifecycleNext
  <2>4. ASSUME NEW s \in Slots, PumpDispatch(s) PROVE UNCHANGED lifecycleVars
    BY <2>4 DEF PumpDispatch
  <2>5. CASE PumpStop \/ EmitUnheard \/ SweepMissing \/ BacklogEmpty \/ Respawn
    BY <2>5 DEF PumpStop, EmitUnheard, SweepMissing, BacklogEmpty, Respawn
  <2> QED BY <1>5, <2>1, <2>2, <2>3, <2>4, <2>5 DEF RunHandler
<1>6. ASSUME NEW s \in Slots, TakeMessage(s) PROVE LifecycleNext \/ UNCHANGED lifecycleVars
  <2>1. CASE HandleProgress(s)
    BY <2>1 DEF HandleProgress
  <2>2. CASE HandleDone(s)
    BY <1>4, <2>2, EndsItsSlotsJob DEF HandleDone, EndTypes, Terminal
  <2>3. CASE HandleError(s)
    BY <1>4, <2>3, EndsItsSlotsJob DEF HandleError, EndTypes, Terminal
  <2>4. CASE HandleCancelled(s)
    BY <1>4, <2>4, EndsItsSlotsJob DEF HandleCancelled, EndTypes, Terminal
  <2>5. CASE HandleCrash(s)
    <3>1. CASE slotJob[s] = NoJob
      BY <2>5, <3>1 DEF HandleCrash
    <3>2. CASE slotJob[s] # NoJob
      <4>1. slotJob[s] \in Jobs /\ status[slotJob[s]] = "running"
        BY <3>2 DEF TypeOK, MainTypes, QueueInvariant, Ownership
      <4> QED BY <1>4, <2>5, <3>2, <4>1 DEF HandleCrash, Terminal
    <3> QED BY <3>1, <3>2
  <2> QED BY <1>6, <2>1, <2>2, <2>3, <2>4, <2>5 DEF TakeMessage
<1>7. ASSUME NEW s \in Slots, WorkerReceives(s) \/ RunnerWorks(s) \/ WorkerCrash(s)
      PROVE  UNCHANGED lifecycleVars
  BY <1>7 DEF WorkerReceives, ReceiveCancel, ReceiveRun, RunnerWorks, DemoStep, ReportBatch,
     RunnerReturns, RunnerThrows, RunnerLeaves, WorkerCrash
<1>8. CASE UNCHANGED vars
  BY <1>8 DEF vars
<1> QED BY <1>1, <1>2, <1>3, <1>5, <1>6, <1>7, <1>8 DEF Next

\* The queue keeps its promise to the callers, for any number of jobs and workers.
THEOREM QueueImplementsLifecycle == Spec => ImplementsLifecycle
<1>1. Init => LifecycleInit
  BY DEF Init
<1> QED BY <1>1, StepImplements, TypeCorrect, QueueIsSafe, PTL
        DEF Spec, ImplementsLifecycle, LifecycleSpec

\* A row that has ended keeps its status, and a row that exists keeps its type.
LEMMA EndedStays ==
  ASSUME TypeOK, [LifecycleNext]_lifecycleVars
  PROVE  \A j \in Jobs :
           /\ status[j] \in Terminal => status'[j] = status[j]
           /\ status[j] # "absent" => jobType'[j] = jobType[j]
<1> USE DEF lifecycleVars, TypeOK, RowTypes
<1>1. CASE UNCHANGED lifecycleVars
  BY <1>1
<1>2. CASE Requeue
  BY <1>2 DEF Requeue, Terminal
<1>3. ASSUME NEW j \in Jobs, NEW t \in JobTypes, Create(j, t)
      PROVE  \A k \in Jobs : /\ status[k] \in Terminal => status'[k] = status[k]
                             /\ status[k] # "absent" => jobType'[k] = jobType[k]
  BY <1>3 DEF Create, Terminal
<1>4. ASSUME NEW j \in Jobs,
             Claim(j) \/ Withdraw(j) \/ AskToStop(j) \/ \E o \in Terminal : End(j, o)
      PROVE  \A k \in Jobs : /\ status[k] \in Terminal => status'[k] = status[k]
                             /\ status[k] # "absent" => jobType'[k] = jobType[k]
  BY <1>4 DEF Claim, BestQueued, Withdraw, AskToStop, End, Terminal
<1> QED BY <1>1, <1>2, <1>3, <1>4 DEF LifecycleNext

\* A job that has ended stays as it ended (the WHERE status = 'running' of complete, fail and
\* markCancelled, and requeueOrphaned).
THEOREM EndsAreFinal == Spec => TerminalIsFinal
<1>1. TypeOK /\ QueueInvariant /\ [Next]_vars =>
        [\A j \in Jobs : status[j] \in Terminal => status'[j] = status[j]]_vars
  BY StepImplements, EndedStays
<1> QED BY <1>1, TypeCorrect, QueueIsSafe, PTL DEF Spec, TerminalIsFinal

-----------------------------------------------------------------------------
(* Every running row has its owner, and owners only running rows.          *)

\* While the process is up, a running row is the pump's or a slot's.
Owned == up => \A j \in Jobs :
                 status[j] = "running" => claimed = j \/ \E s \in Slots : slotJob[s] = j

\* The end of a slot's job leaves the other running jobs with their slots.
LEMMA EndingKeepsOwned ==
  ASSUME TypeOK, QueueInvariant, Owned, up, NEW s \in Slots, slotJob[s] # NoJob,
         NEW outcome \in Terminal, EndRow(slotJob[s], outcome), FreeSlot(s), claimed' = claimed
  PROVE  Owned'
<1>1. slotJob[s] \in Jobs /\ status[slotJob[s]] = "running"
  BY DEF TypeOK, MainTypes, QueueInvariant, Ownership
<1>2. status' = [status EXCEPT ![slotJob[s]] = outcome] /\ outcome # "running"
  BY <1>1 DEF EndRow, Terminal
<1>3. ASSUME NEW j \in Jobs, status'[j] = "running"
      PROVE  claimed' = j \/ \E t \in Slots : slotJob'[t] = j
  <2>1. j # slotJob[s] /\ status[j] = "running"
    BY <1>1, <1>2, <1>3 DEF TypeOK, RowTypes
  <2>2. \A t \in Slots \ {s} : slotJob'[t] = slotJob[t]
    BY DEF FreeSlot, TypeOK, MainTypes
  <2> QED BY <2>1, <2>2 DEF Owned
<1> QED BY <1>3 DEF Owned

\* Every step keeps running rows owned.
LEMMA OwnedStep == TypeOK /\ QueueInvariant /\ Owned /\ [Next]_vars => Owned'
<1> SUFFICES ASSUME TypeOK, QueueInvariant, Owned, [Next]_vars PROVE Owned'
  OBVIOUS
<1> USE DEF rowVars, mainVars, threadVars
<1>1. CASE UNCHANGED <<status, up, claimed, slotJob>>
  BY <1>1 DEF Owned
<1>2. CASE Boot \/ ProcessDies
  BY <1>2 DEF Boot, RequeueOrphaned, ProcessDies, Owned
<1>3. ASSUME NEW j \in Jobs, UNCHANGED <<up, claimed, slotJob>>,
             status[j] # "running", \E v \in {"queued", "cancelled"} : status' = [status EXCEPT ![j] = v]
      PROVE  Owned'
  BY <1>3 DEF Owned, TypeOK, RowTypes
<1>4. CASE UserCall
  <2>1. ASSUME NEW j \in Jobs, NEW t \in JobTypes, Enqueue(j, t) PROVE Owned'
    BY <1>3, <2>1 DEF Enqueue, EnqueueRow
  <2>2. ASSUME NEW j \in Jobs, CancelQueued(j) PROVE Owned'
    BY <1>3, <2>2 DEF CancelQueued
  <2>3. ASSUME NEW j \in Jobs, CancelRunning(j) \/ CancelEnded(j) PROVE Owned'
    BY <1>1, <2>3 DEF CancelRunning, CancelEnded
  <2> QED BY <1>4, <2>1, <2>2, <2>3 DEF UserCall
<1>5. CASE RunHandler
  <2>1. ASSUME NEW j \in Jobs, PumpClaim(j) PROVE Owned'
    <3>1. NoJob \notin Jobs
      BY ConstantsAssumption DEF Jobs, NoJob
    <3> QED BY <2>1, <3>1 DEF PumpClaim, Doing, Owned, TypeOK, RowTypes
  <2>2. CASE PumpDropCancelled
    <3>1. claimed \in Jobs /\ status[claimed] = "running"
      BY <2>2 DEF PumpDropCancelled, TypeOK, MainTypes, QueueInvariant, Ownership
    <3> QED BY <2>2, <3>1 DEF PumpDropCancelled, EndRow, Owned, TypeOK, RowTypes
  <2>3. ASSUME NEW s \in Slots, PumpDispatch(s) PROVE Owned'
    <3>1. slotJob[s] = NoJob /\ slotJob'[s] = claimed
          /\ \A t \in Slots \ {s} : slotJob'[t] = slotJob[t]
      BY <2>3 DEF PumpDispatch, FirstIdle, Idle, TypeOK, MainTypes
    <3>2. NoJob \notin Jobs
      BY ConstantsAssumption DEF Jobs, NoJob
    <3> QED BY <2>3, <3>1, <3>2 DEF PumpDispatch, Owned
  <2>4. ASSUME NEW j \in Jobs, EmitRescan(j) \/ BacklogEnqueue(j) PROVE Owned'
    BY <1>3, <2>4 DEF EmitRescan, BacklogEnqueue, EnqueueRow
  <2>5. CASE PumpStop \/ EmitUnheard \/ SweepMissing \/ BacklogEmpty \/ Respawn
    BY <1>1, <2>5 DEF PumpStop, EmitUnheard, SweepMissing, BacklogEmpty, Respawn
  <2> QED BY <1>5, <2>1, <2>2, <2>3, <2>4, <2>5 DEF RunHandler
<1>6. ASSUME NEW s \in Slots, TakeMessage(s) PROVE Owned'
  <2>1. CASE HandleProgress(s)
    BY <1>1, <2>1 DEF HandleProgress
  <2>2. CASE HandleDone(s)
    BY <2>2, EndsItsSlotsJob, EndingKeepsOwned DEF HandleDone, Arrives, AtRest, EndTypes, Terminal
  <2>3. CASE HandleError(s)
    BY <2>3, EndsItsSlotsJob, EndingKeepsOwned DEF HandleError, Arrives, AtRest, EndTypes, Terminal
  <2>4. CASE HandleCancelled(s)
    BY <2>4, EndsItsSlotsJob, EndingKeepsOwned
       DEF HandleCancelled, Arrives, AtRest, EndTypes, Terminal
  <2>5. CASE HandleCrash(s)
    <3>1. CASE slotJob[s] = NoJob
      <4>1. slotJob' = slotJob
        BY <2>5, <3>1 DEF HandleCrash, FreeSlot, TypeOK, MainTypes
      <4> QED BY <1>1, <2>5, <3>1, <4>1 DEF HandleCrash
    <3>2. CASE slotJob[s] # NoJob
      BY <2>5, <3>2, EndingKeepsOwned DEF HandleCrash, Arrives, AtRest, Terminal
    <3> QED BY <3>1, <3>2
  <2> QED BY <1>6, <2>1, <2>2, <2>3, <2>4, <2>5 DEF TakeMessage
<1>7. ASSUME NEW s \in Slots, WorkerReceives(s) \/ RunnerWorks(s) \/ WorkerCrash(s)
      PROVE  Owned'
  BY <1>1, <1>7 DEF WorkerReceives, ReceiveCancel, ReceiveRun, RunnerWorks, DemoStep, ReportBatch,
     RunnerReturns, RunnerThrows, RunnerLeaves, WorkerCrash
<1>8. CASE UNCHANGED vars
  BY <1>1, <1>8 DEF vars
<1> QED BY <1>2, <1>4, <1>5, <1>6, <1>7, <1>8 DEF Next

\* No message, crash, cancel or restart leaves a running row without an owner, or a slot busy
\* with a job that has ended (pool.ts slots against scan_jobs rows).
THEOREM RunningJobsAreOwned == Spec => []RunningIsOwned
<1>1. Init => Owned
  BY DEF Init, Owned
<1>2. TypeOK /\ QueueInvariant /\ Owned => RunningIsOwned
  <2> SUFFICES ASSUME TypeOK, QueueInvariant, Owned PROVE RunningIsOwned
    OBVIOUS
  <2>1. NoJob \notin Jobs
    BY ConstantsAssumption DEF Jobs, NoJob
  <2> QED BY <2>1 DEF Owned, RunningIsOwned, QueueInvariant, Ownership
<1> QED BY <1>1, <1>2, OwnedStep, TypeCorrect, QueueIsSafe, PTL DEF Spec

-----------------------------------------------------------------------------
(* Missing-detection runs for completed scans only.                        *)

CompletedScan(j) == status[j] = "completed" /\ jobType[j] = "scan"

\* The sweeps that ran, and those a handler still has to run, are of completed scans.
SweepInvariant ==
  /\ \A j \in swept : CompletedScan(j)
  /\ \A i \in 1..Len(todo) : todo[i].op = "sweep" => CompletedScan(todo[i].arg)

\* A completed scan stays one.
LEMMA CompletedScanStays ==
  ASSUME TypeOK, QueueInvariant, [Next]_vars, NEW j \in Jobs, CompletedScan(j)
  PROVE  status'[j] = "completed" /\ jobType'[j] = "scan"
BY StepImplements, EndedStays DEF CompletedScan, Terminal

\* A list whose sweeps are sweeps of the old one.
LEMMA SweepsCarryOver ==
  ASSUME TypeOK, QueueInvariant, SweepInvariant, [Next]_vars, swept' = swept,
         \A i \in 1..Len(todo') : todo'[i].op = "sweep" =>
           \E k \in 1..Len(todo) : todo[k] = todo'[i]
  PROVE  SweepInvariant'
<1>1. \A k \in 1..Len(todo) : todo[k].op = "sweep" => todo[k].arg \in Jobs
  <2>1. \A k \in 1..Len(todo) : todo[k] \in Task
    BY DEF TypeOK, MainTypes
  <2> QED BY <2>1 DEF Task
<1>2. swept \subseteq Jobs
  BY DEF TypeOK, RowTypes
<1>3. \A j \in swept' : status'[j] = "completed" /\ jobType'[j] = "scan"
  BY <1>2, CompletedScanStays DEF SweepInvariant
<1>4. ASSUME NEW i \in 1..Len(todo'), todo'[i].op = "sweep"
      PROVE  status'[todo'[i].arg] = "completed" /\ jobType'[todo'[i].arg] = "scan"
  <2>1. PICK k \in 1..Len(todo) : todo[k] = todo'[i]
    BY <1>4
  <2>2. todo'[i].arg \in Jobs /\ CompletedScan(todo'[i].arg)
    BY <1>1, <1>4, <2>1 DEF SweepInvariant
  <2> QED BY <2>2, CompletedScanStays
<1> QED BY <1>3, <1>4 DEF SweepInvariant, CompletedScan

\* Every step keeps sweeps to completed scans.
LEMMA SweepStep == TypeOK /\ QueueInvariant /\ SweepInvariant /\ [Next]_vars => SweepInvariant'
<1> SUFFICES ASSUME TypeOK, QueueInvariant, SweepInvariant, [Next]_vars PROVE SweepInvariant'
  OBVIOUS
<1> USE DEF rowVars, mainVars, threadVars
<1>1. todo \in Seq(Task)
  BY DEF TypeOK, MainTypes
<1>2. CASE todo' = todo /\ swept' = swept
  BY <1>2, SweepsCarryOver
<1>3. ASSUME todo # <<>>, todo' = Tail(todo), swept' = swept PROVE SweepInvariant'
  <2>1. /\ Len(todo) \in Nat /\ Len(todo') = Len(todo) - 1
        /\ \A i \in 1..Len(todo') : todo'[i] = todo[i + 1]
    BY <1>1, <1>3
  <2>2. \A i \in 1..Len(todo') : i + 1 \in 1..Len(todo)
    BY <2>1
  <2> QED BY <1>3, <2>1, <2>2, SweepsCarryOver
<1>4. ASSUME swept' = swept, todo' \in Seq(Task),
             \A i \in 1..Len(todo') : todo'[i].op # "sweep"
      PROVE  SweepInvariant'
  BY <1>4, SweepsCarryOver
<1>5. /\ todo' = <<>> => \A i \in 1..Len(todo') : todo'[i].op # "sweep"
      /\ \A a, b, c : a.op # "sweep" /\ b.op # "sweep" /\ c.op # "sweep" =>
           /\ todo' = <<a>> => \A i \in 1..Len(todo') : todo'[i].op # "sweep"
           /\ todo' = <<a, b>> => \A i \in 1..Len(todo') : todo'[i].op # "sweep"
           /\ todo' = <<a, b, c>> => \A i \in 1..Len(todo') : todo'[i].op # "sweep"
  OBVIOUS
<1>6. TypeOK'
  BY NextTypeOK
<1>7. todo' \in Seq(Task)
  BY <1>6 DEF TypeOK, MainTypes
<1>8. Do("pump").op # "sweep" /\ Do("emit").op # "sweep" /\ Do("backlog").op # "sweep"
      /\ \A s \in Slots : DoFor("respawn", s).op # "sweep"
  BY DEF Do, DoFor
<1>9. CASE Boot \/ ProcessDies
  BY <1>9, <1>4, <1>5, <1>7, <1>8 DEF Boot, ProcessDies
<1>10. CASE UserCall
  BY <1>10, <1>4, <1>5, <1>7, <1>8
     DEF UserCall, Enqueue, EnqueueRow, CancelQueued, CancelRunning, CancelEnded
<1>11. CASE RunHandler
  <2>1. ASSUME NEW j \in Jobs, PumpClaim(j) PROVE SweepInvariant'
    BY <2>1, <1>2 DEF PumpClaim
  <2>2. CASE PumpDropCancelled
    <3>1. todo' = <<Do("emit")>> \o todo /\ swept' = swept
      BY <2>2 DEF PumpDropCancelled
    <3>2. /\ Len(todo') = Len(todo) + 1 /\ todo'[1] = Do("emit") /\ Len(todo) \in Nat
          /\ \A i \in 1..Len(todo) : todo'[i + 1] = todo[i]
      <4>1. Do("emit") \in Task
        BY ValueTypes
      <4> QED BY <1>1, <3>1, <4>1
    <3>3. \A i \in 1..Len(todo') : i = 1 \/ i - 1 \in 1..Len(todo)
      BY <3>2
    <3>4. \A i \in 1..Len(todo') : i # 1 => todo'[i] = todo[i - 1]
      BY <3>2, <3>3
    <3> QED BY <1>8, <3>1, <3>2, <3>3, <3>4, SweepsCarryOver
  <2>3. ASSUME NEW s \in Slots, PumpDispatch(s) PROVE SweepInvariant'
    BY <2>3, <1>2 DEF PumpDispatch
  <2>4. CASE PumpStop \/ EmitUnheard \/ BacklogEmpty \/ Respawn
    BY <2>4, <1>3 DEF PumpStop, EmitUnheard, BacklogEmpty, Respawn, Doing
  <2>5. ASSUME NEW j \in Jobs, BacklogEnqueue(j) PROVE SweepInvariant'
    BY <2>5, <1>3 DEF BacklogEnqueue, EnqueueRow, Doing
  <2>6. ASSUME NEW j \in Jobs, EmitRescan(j) PROVE SweepInvariant'
    <3>1. todo' = <<Do("pump")>> \o Tail(todo) /\ swept' = swept /\ todo # <<>>
      BY <2>6 DEF EmitRescan, EnqueueRow, Doing
    <3>2. Tail(todo) \in Seq(Task) /\ Len(Tail(todo)) = Len(todo) - 1 /\ Len(todo) \in Nat
          /\ \A i \in 1..Len(Tail(todo)) : Tail(todo)[i] = todo[i + 1]
      BY <1>1, <3>1
    <3>3. /\ Len(todo') = Len(todo) /\ todo'[1] = Do("pump")
          /\ \A i \in 1..Len(Tail(todo)) : todo'[i + 1] = Tail(todo)[i]
      <4>1. Do("pump") \in Task
        BY ValueTypes
      <4> QED BY <3>1, <3>2, <4>1
    <3>4. \A i \in 1..Len(todo') :
            /\ i \in 1..Len(todo)
            /\ i # 1 => i - 1 \in 1..Len(Tail(todo)) /\ (i - 1) + 1 = i
      BY <3>2, <3>3
    <3>5. ASSUME NEW i \in 1..Len(todo'), i # 1 PROVE todo'[i] = todo[i]
      <4>1. i - 1 \in 1..Len(Tail(todo)) /\ (i - 1) + 1 = i
        BY <3>4, <3>5
      <4>2. todo'[(i - 1) + 1] = Tail(todo)[i - 1] /\ Tail(todo)[i - 1] = todo[(i - 1) + 1]
        BY <3>2, <3>3, <4>1
      <4> QED BY <4>1, <4>2
    <3> QED BY <1>8, <3>1, <3>3, <3>4, <3>5, SweepsCarryOver
  <2>7. CASE SweepMissing
    <3>1. /\ todo # <<>> /\ Head(todo) = todo[1] /\ todo[1].op = "sweep" /\ 1 \in 1..Len(todo)
          /\ todo' = Tail(todo) /\ swept' = swept \cup {todo[1].arg}
      BY <1>1, <2>7 DEF SweepMissing, Doing
    <3>2. UNCHANGED <<status, jobType>>
      BY <2>7 DEF SweepMissing
    <3>3. /\ Len(todo) \in Nat /\ Len(todo') = Len(todo) - 1
          /\ \A i \in 1..Len(todo') : todo'[i] = todo[i + 1] /\ i + 1 \in 1..Len(todo)
      BY <1>1, <3>1
    <3> QED BY <3>1, <3>2, <3>3 DEF SweepInvariant, CompletedScan
  <2> QED BY <1>11, <2>1, <2>2, <2>3, <2>4, <2>5, <2>6, <2>7 DEF RunHandler
<1>12. ASSUME NEW s \in Slots, TakeMessage(s) PROVE SweepInvariant'
  <2>1. CASE HandleProgress(s)
    BY <2>1, <1>2 DEF HandleProgress
  <2>2. CASE HandleError(s) \/ HandleCancelled(s)
    BY <2>2, <1>4, <1>5, <1>7, <1>8 DEF HandleError, HandleCancelled
  <2>3. CASE HandleCrash(s)
    BY <2>3, <1>4, <1>5, <1>7, <1>8 DEF HandleCrash
  <2>4. CASE HandleDone(s)
    <3> DEFINE j == slotJob[s]
    <3>1. j \in Jobs /\ status[j] = "running" /\ Head(outbox[s]).job = j
      BY <2>4, EndsItsSlotsJob DEF HandleDone, EndTypes
    <3>2. /\ swept' = swept /\ todo' = AfterDone(j) /\ jobType' = jobType
          /\ status'[j] = "completed"
      BY <2>4, <3>1 DEF HandleDone, EndRow, TypeOK, RowTypes
    <3> HIDE DEF j
    <3>3. CASE jobType[j] = "scan"
      <4>1. todo' = <<Do("emit"), DoFor("sweep", j), Do("backlog"), Do("pump")>>
        BY <3>2, <3>3 DEF AfterDone
      <4>2. status'[j] = "completed" /\ jobType'[j] = "scan"
        BY <3>2, <3>3
      <4>3. \A i \in 1..Len(todo') : todo'[i].op = "sweep" => todo'[i].arg = j
        BY <4>1 DEF Do, DoFor
      <4>4. \A k \in swept' : status'[k] = "completed" /\ jobType'[k] = "scan"
        BY <3>2, CompletedScanStays DEF SweepInvariant, TypeOK, RowTypes
      <4> QED BY <4>2, <4>3, <4>4 DEF SweepInvariant, CompletedScan
    <3>4. CASE jobType[j] # "scan"
      <4>1. jobType[j] \in JobTypes
        BY <3>1 DEF TypeOK, RowTypes
      <4>2. CASE jobType[j] = "hash"
        <5>1. todo' = <<Do("emit"), Do("backlog"), Do("pump")>>
          BY <3>2, <4>2 DEF AfterDone
        <5> QED BY <3>2, <5>1, <1>4, <1>5, <1>7, <1>8
      <4>3. CASE jobType[j] = "demo"
        <5>1. todo' = <<Do("emit"), Do("pump")>>
          BY <3>2, <4>3 DEF AfterDone
        <5> QED BY <3>2, <5>1, <1>4, <1>5, <1>7, <1>8
      <4> QED BY <3>4, <4>1, <4>2, <4>3 DEF JobTypes
    <3> QED BY <3>3, <3>4
  <2> QED BY <1>12, <2>1, <2>2, <2>3, <2>4 DEF TakeMessage
<1>13. ASSUME NEW s \in Slots, WorkerReceives(s) \/ RunnerWorks(s) \/ WorkerCrash(s)
       PROVE  SweepInvariant'
  BY <1>2, <1>13 DEF WorkerReceives, ReceiveCancel, ReceiveRun, RunnerWorks, DemoStep,
     ReportBatch, RunnerReturns, RunnerThrows, RunnerLeaves, WorkerCrash
<1>14. CASE UNCHANGED vars
  BY <1>2, <1>14 DEF vars
<1> QED BY <1>9, <1>10, <1>11, <1>12, <1>13, <1>14 DEF Next

\* Missing-detection never runs for a scan that was cancelled, failed or crashed (onDone of
\* orchestrator.ts, and its comment).
THEOREM SweepsAreOfCompletedScans == Spec => []SweepOnlyCompleted
<1>1. Init => SweepInvariant
  BY DEF Init, SweepInvariant
<1>2. SweepInvariant => SweepOnlyCompleted
  BY DEF SweepInvariant, SweepOnlyCompleted, CompletedScan
<1> QED BY <1>1, <1>2, SweepStep, TypeCorrect, QueueIsSafe, PTL DEF Spec

-----------------------------------------------------------------------------
(* The respawn that a crash handler ends with.                             *)

\* A respawn is the last task of its handler; the thread it replaces is dead, and the job its
\* slot may have been given meanwhile is one nobody has asked to cancel.
RespawnsInOrder ==
  \A i \in 1..Len(todo) : todo[i].op = "respawn" =>
    /\ i = Len(todo)
    /\ ~alive[todo[i].arg]
    /\ slotJob[todo[i].arg] # NoJob => ~cancelRequested[slotJob[todo[i].arg]]

\* The ways a handler's list of tasks goes on keep a respawn last, and make none.
LEMMA RespawnStaysLast ==
  ASSUME TypeOK, RespawnsInOrder,
         \/ todo' = todo
         \/ todo # <<>> /\ todo' = Tail(todo)
         \/ todo' = <<Do("emit")>> \o todo
         \/ todo # <<>> /\ todo' = <<Do("pump")>> \o Tail(todo)
  PROVE  \A i \in 1..Len(todo') : todo'[i].op = "respawn" =>
           /\ i = Len(todo') /\ Len(todo) \in 1..Len(todo)
           /\ todo'[i] = todo[Len(todo)]
<1>1. todo \in Seq(Task) /\ Len(todo) \in Nat
  BY DEF TypeOK, MainTypes
<1>2. Do("emit") \in Task /\ Do("pump") \in Task
  BY ValueTypes
<1>3. Do("emit").op # "respawn" /\ Do("pump").op # "respawn"
  BY DEF Do
<1>4. todo # <<>> =>
        /\ Tail(todo) \in Seq(Task) /\ Len(Tail(todo)) = Len(todo) - 1
        /\ \A i \in 1..Len(Tail(todo)) : Tail(todo)[i] = todo[i + 1]
  BY <1>1
<1>5. CASE todo' = todo
  BY <1>1, <1>5 DEF RespawnsInOrder
<1>6. CASE todo # <<>> /\ todo' = Tail(todo)
  BY <1>1, <1>4, <1>6 DEF RespawnsInOrder
<1>7. CASE todo' = <<Do("emit")>> \o todo
  <2>1. /\ Len(todo') = Len(todo) + 1 /\ todo'[1] = Do("emit")
        /\ \A i \in 1..Len(todo) : todo'[i + 1] = todo[i]
    BY <1>1, <1>2, <1>7
  <2>2. ASSUME NEW i \in 1..Len(todo'), todo'[i].op = "respawn"
        PROVE  i - 1 \in 1..Len(todo) /\ todo'[i] = todo[i - 1]
    <3>1. i # 1
      BY <1>3, <2>1, <2>2
    <3>2. i - 1 \in 1..Len(todo) /\ (i - 1) + 1 = i
      BY <1>1, <2>1, <3>1
    <3> QED BY <2>1, <3>2
  <2> QED BY <1>1, <2>1, <2>2 DEF RespawnsInOrder
<1>8. CASE todo # <<>> /\ todo' = <<Do("pump")>> \o Tail(todo)
  <2>1. /\ Len(todo') = Len(todo) /\ todo'[1] = Do("pump")
        /\ \A i \in 1..Len(Tail(todo)) : todo'[i + 1] = Tail(todo)[i]
    BY <1>1, <1>2, <1>4, <1>8
  <2>2. ASSUME NEW i \in 1..Len(todo'), todo'[i].op = "respawn"
        PROVE  i \in 1..Len(todo) /\ todo'[i] = todo[i]
    <3>1. i # 1
      BY <1>3, <2>1, <2>2
    <3>2. Len(Tail(todo)) = Len(todo) - 1
      BY <1>4, <1>8
    <3>3. i \in 1..Len(todo) /\ i - 1 \in 1..Len(Tail(todo)) /\ (i - 1) + 1 = i
      BY <1>1, <2>1, <3>1, <3>2
    <3>4. todo'[(i - 1) + 1] = Tail(todo)[i - 1] /\ Tail(todo)[i - 1] = todo[(i - 1) + 1]
      BY <1>4, <1>8, <2>1, <3>3
    <3> QED BY <3>3, <3>4
  <2> QED BY <1>1, <2>1, <2>2 DEF RespawnsInOrder
<1> QED BY <1>5, <1>6, <1>7, <1>8

\* A respawn that was waiting still waits in order: its thread stays dead, and its slot has
\* been freed or given a job that is not cancelled.
LEMMA RespawnsWait ==
  ASSUME TypeOK, RespawnsInOrder, cancelRequested' = cancelRequested,
         \A t \in Slots :
           /\ ~alive[t] => ~alive'[t]
           /\ slotJob'[t] \in {slotJob[t], NoJob} \/ ~cancelRequested[slotJob'[t]],
         \A i \in 1..Len(todo') : todo'[i].op = "respawn" =>
           /\ i = Len(todo') /\ Len(todo) \in 1..Len(todo)
           /\ todo'[i] = todo[Len(todo)]
  PROVE  RespawnsInOrder'
<1>1. \A i \in 1..Len(todo) : todo[i] \in Task
  BY DEF TypeOK, MainTypes
<1>2. \A i \in 1..Len(todo) : todo[i].op = "respawn" => todo[i].arg \in Slots
  BY <1>1 DEF Task
<1> QED BY <1>2 DEF RespawnsInOrder

\* Every step keeps respawns in order.
LEMMA RespawnsStep ==
  TypeOK /\ QueueInvariant /\ RespawnsInOrder /\ [Next]_vars => RespawnsInOrder'
<1> SUFFICES ASSUME TypeOK, QueueInvariant, RespawnsInOrder, [Next]_vars
             PROVE  RespawnsInOrder'
  OBVIOUS
<1> USE DEF rowVars, mainVars, threadVars
<1>1. ASSUME cancelRequested' = cancelRequested,
             \/ todo' = todo
             \/ todo # <<>> /\ todo' = Tail(todo)
             \/ todo' = <<Do("emit")>> \o todo
             \/ todo # <<>> /\ todo' = <<Do("pump")>> \o Tail(todo),
             \A t \in Slots :
               /\ ~alive[t] => ~alive'[t]
               /\ slotJob'[t] \in {slotJob[t], NoJob} \/ ~cancelRequested[slotJob'[t]]
      PROVE  RespawnsInOrder'
  <2>1. \A i \in 1..Len(todo') : todo'[i].op = "respawn" =>
           /\ i = Len(todo') /\ Len(todo) \in 1..Len(todo)
           /\ todo'[i] = todo[Len(todo)]
    BY <1>1, RespawnStaysLast
  <2> QED BY <1>1, <2>1, RespawnsWait
<1>2. ASSUME todo' \in Seq(Task), \A i \in 1..Len(todo') : todo'[i].op # "respawn"
      PROVE  RespawnsInOrder'
  BY <1>2 DEF RespawnsInOrder
<1>3. /\ Do("pump").op # "respawn" /\ Do("emit").op # "respawn" /\ Do("backlog").op # "respawn"
      /\ \A j \in Jobs : DoFor("sweep", j).op # "respawn"
  BY DEF Do, DoFor
<1>4. /\ todo' = <<>> => RespawnsInOrder'
      /\ todo' = <<Do("pump")>> => RespawnsInOrder'
      /\ todo' = <<Do("emit"), Do("pump")>> => RespawnsInOrder'
      /\ todo' = <<Do("emit"), Do("backlog"), Do("pump")>> => RespawnsInOrder'
      /\ \A j \in Jobs : todo' = <<Do("emit"), DoFor("sweep", j), Do("backlog"), Do("pump")>> =>
           RespawnsInOrder'
  BY <1>3 DEF RespawnsInOrder
<1>5. CASE Boot \/ ProcessDies
  BY <1>4, <1>5 DEF Boot, ProcessDies
<1>6. CASE UserCall
  BY <1>4, <1>6 DEF UserCall, Enqueue, CancelQueued, CancelRunning, CancelEnded
<1>7. CASE RunHandler
  <2>1. ASSUME NEW j \in Jobs, PumpClaim(j) PROVE RespawnsInOrder'
    BY <1>1, <2>1 DEF PumpClaim
  <2>2. CASE PumpDropCancelled
    BY <1>1, <2>2 DEF PumpDropCancelled
  <2>3. ASSUME NEW s \in Slots, PumpDispatch(s) PROVE RespawnsInOrder'
    BY <1>1, <2>3 DEF PumpDispatch, TypeOK, MainTypes
  <2>4. CASE PumpStop \/ EmitUnheard \/ SweepMissing \/ BacklogEmpty
    BY <1>1, <2>4 DEF PumpStop, EmitUnheard, SweepMissing, BacklogEmpty, Doing
  <2>5. ASSUME NEW j \in Jobs, EmitRescan(j) \/ BacklogEnqueue(j) PROVE RespawnsInOrder'
    BY <1>1, <2>5 DEF EmitRescan, BacklogEnqueue, EnqueueRow, Doing
  <2>6. CASE Respawn
    <3>1. /\ Len(todo) \in Nat /\ 1 \in 1..Len(todo)
          /\ Head(todo) = todo[1] /\ todo[1].op = "respawn"
      BY <2>6 DEF Respawn, Doing, TypeOK, MainTypes
    <3>2. Len(todo) = 1
      BY <3>1 DEF RespawnsInOrder
    <3>3. Len(todo') = 0
      BY <2>6, <3>1, <3>2 DEF Respawn, TypeOK, MainTypes
    <3> QED BY <3>3 DEF RespawnsInOrder
  <2> QED BY <1>7, <2>1, <2>2, <2>3, <2>4, <2>5, <2>6 DEF RunHandler
<1>8. ASSUME NEW s \in Slots, TakeMessage(s) PROVE RespawnsInOrder'
  <2>1. CASE HandleProgress(s)
    BY <1>1, <2>1 DEF HandleProgress
  <2>2. CASE HandleDone(s)
    <3>1. Head(outbox[s]).job \in Jobs
      BY <2>2, EndsItsSlotsJob DEF HandleDone, EndTypes
    <3>2. jobType[Head(outbox[s]).job] \in JobTypes
      BY <3>1 DEF TypeOK, RowTypes
    <3> QED BY <1>4, <2>2, <3>1, <3>2 DEF HandleDone, AfterDone, JobTypes
  <2>3. CASE HandleError(s) \/ HandleCancelled(s)
    BY <1>4, <2>3 DEF HandleError, HandleCancelled
  <2>4. CASE HandleCrash(s)
    <3>1. slotJob'[s] = NoJob /\ alive' = alive
      BY <2>4 DEF HandleCrash, FreeSlot, TypeOK, MainTypes
    <3>2. ~alive[s]
      <4>1. 1 \in 1..Len(outbox[s]) /\ outbox[s][1].type = "crash"
        BY <2>4, MessageTypes DEF HandleCrash, Arrives
      <4> QED BY <4>1 DEF QueueInvariant, CrashIsLast
    <3>3. /\ DoFor("respawn", s).op = "respawn" /\ DoFor("respawn", s).arg = s
      BY DEF DoFor
    <3>4. CASE todo' = <<DoFor("respawn", s)>>
      BY <3>1, <3>2, <3>3, <3>4 DEF RespawnsInOrder
    <3>5. CASE todo' = <<Do("emit"), Do("pump"), DoFor("respawn", s)>>
      BY <1>3, <3>1, <3>2, <3>3, <3>5 DEF RespawnsInOrder
    <3> QED BY <2>4, <3>4, <3>5 DEF HandleCrash
  <2> QED BY <1>8, <2>1, <2>2, <2>3, <2>4 DEF TakeMessage
<1>9. ASSUME NEW s \in Slots, WorkerReceives(s) \/ RunnerWorks(s) \/ WorkerCrash(s)
      PROVE  RespawnsInOrder'
  BY <1>1, <1>9 DEF WorkerReceives, ReceiveCancel, ReceiveRun, RunnerWorks, DemoStep,
     ReportBatch, RunnerReturns, RunnerThrows, RunnerLeaves, WorkerCrash, TypeOK, ThreadTypes
<1>10. CASE UNCHANGED vars
  BY <1>1, <1>10 DEF vars
<1> QED BY <1>5, <1>6, <1>7, <1>8, <1>9, <1>10 DEF Next

-----------------------------------------------------------------------------
(* A cancel asked for while the job runs is not lost.                      *)

NoRunIn(s) == \A i \in 1..Len(inbox[s]) : inbox[s][i].type # "run"

\* A cancel waits behind the run message, if that one still waits.
CancelWaits(s) ==
  \E i \in 1..Len(inbox[s]) :
    /\ inbox[s][i].type = "cancel"
    /\ \A k \in 1..Len(inbox[s]) : inbox[s][k].type = "run" => k < i

EndIsSent(s) == \E i \in 1..Len(outbox[s]) : IsEnd(outbox[s][i])

\* CancelIsOnItsWay of one slot, in the middle of a handler too
CancelReaches(s) ==
  alive[s] /\ slotJob[s] # NoJob /\ cancelRequested[slotJob[s]] =>
    (threadCancelled[s] /\ NoRunIn(s)) \/ EndIsSent(s) \/ CancelWaits(s)

CancelInvariant == RespawnsInOrder /\ \A s \in Slots : CancelReaches(s)

\* A slot that nothing touched, and whose job nobody asked to cancel just now.
LEMMA CancelFrame ==
  ASSUME NEW t \in Slots, CancelReaches(t),
         alive'[t] = alive[t], slotJob'[t] = slotJob[t], inbox'[t] = inbox[t],
         outbox'[t] = outbox[t], threadCancelled'[t] = threadCancelled[t],
         slotJob[t] # NoJob => cancelRequested'[slotJob[t]] = cancelRequested[slotJob[t]]
  PROVE  CancelReaches(t)'
BY DEF CancelReaches, NoRunIn, EndIsSent, CancelWaits

\* A slot that sends more, and reads nothing: an end that was sent is still sent.
LEMMA CancelSending ==
  ASSUME NEW s \in Slots, CancelReaches(s),
         alive'[s] = alive[s], slotJob'[s] = slotJob[s], inbox'[s] = inbox[s],
         threadCancelled'[s] = threadCancelled[s], cancelRequested' = cancelRequested,
         Len(outbox[s]) \in Nat, Len(outbox'[s]) \in Nat, Len(outbox[s]) <= Len(outbox'[s]),
         \A i \in 1..Len(outbox[s]) : outbox'[s][i] = outbox[s][i]
  PROVE  CancelReaches(s)'
<1>1. EndIsSent(s) => EndIsSent(s)'
  BY DEF EndIsSent, IsEnd
<1>2. (NoRunIn(s) => NoRunIn(s)') /\ (CancelWaits(s) => CancelWaits(s)')
  BY DEF NoRunIn, CancelWaits
<1> QED BY <1>1, <1>2 DEF CancelReaches

\* The thread of a slot keeps the cancel of its job on its way.
LEMMA CancelThreadStep ==
  ASSUME TypeOK, QueueInvariant, NEW s \in Slots, CancelReaches(s),
         WorkerReceives(s) \/ RunnerWorks(s) \/ WorkerCrash(s)
  PROVE  CancelReaches(s)'
<1> USE DEF rowVars, mainVars, threadVars
<1> DEFINE q == inbox[s]
<1>1. q # <<>> =>
        /\ Len(q) \in Nat /\ 1 \in 1..Len(q) /\ Head(q) = q[1] /\ Len(Tail(q)) = Len(q) - 1
        /\ \A i \in 1..Len(Tail(q)) : i + 1 \in 1..Len(q) /\ Tail(q)[i] = q[i + 1]
        /\ \A i \in 1..Len(q) : i # 1 => i - 1 \in 1..Len(Tail(q)) /\ Tail(q)[i - 1] = q[i]
  <2>1. q # <<>> =>
          /\ Len(q) \in Nat /\ 1 \in 1..Len(q) /\ Head(q) = q[1] /\ Len(Tail(q)) = Len(q) - 1
          /\ \A i \in 1..Len(Tail(q)) : Tail(q)[i] = q[i + 1]
    BY MessageTypes
  <2> HIDE DEF q
  <2>2. ASSUME q # <<>>, NEW i \in 1..Len(q), i # 1
        PROVE  i - 1 \in 1..Len(Tail(q)) /\ (i - 1) + 1 = i
    BY <2>1, <2>2
  <2>3. \A i \in 1..Len(Tail(q)) : q # <<>> => i + 1 \in 1..Len(q)
    BY <2>1
  <2> QED BY <2>1, <2>2, <2>3
<1>2. CASE ReceiveCancel(s)
  <2>1. /\ q # <<>> /\ Head(q).type = "cancel" /\ inbox'[s] = Tail(q) /\ threadCancelled'[s]
        /\ UNCHANGED <<alive, outbox, slotJob, cancelRequested>>
    BY <1>2 DEF ReceiveCancel, TypeOK, ThreadTypes
  <2>2. CASE NoRunIn(s)
    <3>1. \A i \in 1..Len(Tail(q)) : Tail(q)[i].type # "run"
      <4>1. \A i \in 1..Len(q) : q[i].type # "run"
        BY <2>2 DEF NoRunIn
      <4> HIDE DEF q
      <4> QED BY <1>1, <2>1, <4>1
    <3>2. NoRunIn(s)'
      BY <2>1, <3>1 DEF NoRunIn
    <3> QED BY <2>1, <3>2 DEF CancelReaches
  <2>3. CASE ~NoRunIn(s) /\ CancelWaits(s)
    <3>1. PICK k \in 1..Len(q) : q[k].type = "run"
      BY <2>3 DEF NoRunIn
    <3>2. PICK i \in 1..Len(q) : /\ q[i].type = "cancel"
                                 /\ \A h \in 1..Len(q) : q[h].type = "run" => h < i
      BY <2>3 DEF CancelWaits
    <3>3. i # 1 /\ i - 1 \in 1..Len(Tail(q)) /\ Tail(q)[i - 1] = q[i]
      BY <1>1, <2>1, <3>1, <3>2
    <3>4. \A h \in 1..Len(Tail(q)) : Tail(q)[h].type = "run" => h < i - 1
      <4>1. ASSUME NEW h \in 1..Len(Tail(q)), Tail(q)[h].type = "run" PROVE h + 1 < i
        BY <1>1, <2>1, <3>2, <4>1
      <4> QED BY <4>1
    <3>5. CancelWaits(s)'
      BY <2>1, <3>2, <3>3, <3>4 DEF CancelWaits
    <3> QED BY <3>5 DEF CancelReaches
  <2>4. CASE EndIsSent(s)
    BY <2>1, <2>4 DEF CancelReaches, EndIsSent
  <2> QED BY <2>1, <2>2, <2>3, <2>4 DEF CancelReaches
<1>3. CASE ReceiveRun(s)
  <2>1. /\ q # <<>> /\ Head(q).type = "run" /\ inbox'[s] = Tail(q)
        /\ UNCHANGED <<alive, slotJob, cancelRequested>>
    BY <1>3 DEF ReceiveRun, TypeOK, ThreadTypes
  <2>2. ~NoRunIn(s) /\ ~EndIsSent(s)
    BY <1>1, <2>1 DEF NoRunIn, EndIsSent, QueueInvariant, OneStage
  <2>3. CASE CancelWaits(s)
    <3>1. PICK i \in 1..Len(q) : /\ q[i].type = "cancel"
                                 /\ \A h \in 1..Len(q) : q[h].type = "run" => h < i
      BY <2>3 DEF CancelWaits
    <3>2. i # 1 /\ i - 1 \in 1..Len(Tail(q)) /\ Tail(q)[i - 1] = q[i]
      BY <1>1, <2>1, <3>1
    <3>3. \A h \in 1..Len(Tail(q)) : Tail(q)[h].type = "run" => h < i - 1
      <4>1. ASSUME NEW h \in 1..Len(Tail(q)), Tail(q)[h].type = "run" PROVE h + 1 < i
        BY <1>1, <2>1, <3>1, <4>1
      <4> QED BY <4>1
    <3>4. CancelWaits(s)'
      BY <2>1, <3>1, <3>2, <3>3 DEF CancelWaits
    <3> QED BY <3>4 DEF CancelReaches
  <2> QED BY <2>1, <2>2, <2>3 DEF CancelReaches
<1>4. CASE WorkerCrash(s)
  <2>1. ~alive'[s]
    BY <1>4 DEF WorkerCrash, TypeOK, ThreadTypes
  <2> QED BY <2>1 DEF CancelReaches
<1>5. CASE RunnerWorks(s)
  <2> USE DEF RunnerWorks, DemoStep, ReportBatch, RunnerReturns, RunnerThrows, RunnerLeaves
  <2>1. UNCHANGED <<alive, slotJob, inbox, threadCancelled, cancelRequested>>
    BY <1>5
  <2>2. \E a, b \in FromWorker :
          outbox'[s] = outbox[s] \o <<a>> \/ outbox'[s] = outbox[s] \o <<a, b>>
    <3>1. threadJob[s] # NoJob => threadJob[s] \in Jobs /\ threadStep[s] + 1 \in Nat
      BY DEF TypeOK, ThreadTypes
    <3>2. threadJob[s] # NoJob =>
            /\ Progress(threadJob[s], threadStep[s] + 1) \in FromWorker
            /\ Outcome(s, threadJob[s]) \in FromWorker
            /\ Ended("error", threadJob[s]) \in FromWorker
      BY <3>1, ValueTypes DEF Outcome, EndTypes
    <3>3. \A m : Send(s, m) => outbox'[s] = outbox[s] \o m
      BY DEF Send, TypeOK, ThreadTypes
    <3> HIDE DEF RunnerWorks
    <3>4. CASE DemoStep(s)
      <4>1. \/ outbox'[s] = outbox[s] \o <<Progress(threadJob[s], threadStep[s] + 1)>>
            \/ outbox'[s] = outbox[s] \o
                 <<Progress(threadJob[s], threadStep[s] + 1), Outcome(s, threadJob[s])>>
        BY <3>3, <3>4
      <4> QED BY <3>2, <3>4, <4>1
    <3>5. CASE ReportBatch(s)
      <4>1. threadJob[s] # NoJob /\ outbox'[s] = outbox[s] \o <<Progress(threadJob[s], threadStep[s] + 1)>>
        BY <3>3, <3>5
      <4> QED BY <3>2, <4>1
    <3>6. CASE RunnerReturns(s)
      <4>1. threadJob[s] # NoJob /\ outbox'[s] = outbox[s] \o <<Outcome(s, threadJob[s])>>
        BY <3>3, <3>6
      <4> QED BY <3>2, <4>1
    <3>7. CASE RunnerThrows(s)
      <4>1. threadJob[s] # NoJob /\ outbox'[s] = outbox[s] \o <<Ended("error", threadJob[s])>>
        BY <3>3, <3>7
      <4> QED BY <3>2, <4>1
    <3> QED BY <1>5, <3>4, <3>5, <3>6, <3>7 DEF RunnerWorks
  <2>3. /\ Len(outbox[s]) \in Nat /\ Len(outbox'[s]) \in Nat
        /\ Len(outbox[s]) <= Len(outbox'[s])
        /\ \A i \in 1..Len(outbox[s]) : outbox'[s][i] = outbox[s][i]
    <3>1. outbox[s] \in Seq(FromWorker) /\ Len(outbox[s]) \in Nat
      BY MessageTypes
    <3>2. CASE \E a \in FromWorker : outbox'[s] = outbox[s] \o <<a>>
      BY <3>1, <3>2, SendOne
    <3>3. CASE \E a, b \in FromWorker : outbox'[s] = outbox[s] \o <<a, b>>
      BY <3>1, <3>3, SendTwo
    <3> QED BY <2>2, <3>2, <3>3
  <2> QED BY <2>1, <2>3, CancelSending
<1> QED BY <1>2, <1>3, <1>4, <1>5 DEF WorkerReceives

\* A cancel from the user goes behind whatever its job's slot has yet to read.
LEMMA CancelPosted ==
  ASSUME TypeOK, QueueInvariant, NEW j \in Jobs, CancelRunning(j),
         NEW t \in Slots, CancelReaches(t)
  PROVE  CancelReaches(t)'
<1> DEFINE m == CancelMsg(j)
<1>1. PICK s \in Slots :
         /\ slotJob[s] = j
         /\ inbox' = IF alive[s] THEN [inbox EXCEPT ![s] = Append(@, m)] ELSE inbox
  BY DEF CancelRunning, PoolCancel, Post
<1>2. /\ cancelRequested' = [cancelRequested EXCEPT ![j] = TRUE]
      /\ UNCHANGED <<slotJob, alive, outbox, threadCancelled>>
  BY DEF CancelRunning
<1>3. CASE t # s
  <2>1. inbox'[t] = inbox[t]
    BY <1>1, <1>3 DEF TypeOK, ThreadTypes
  <2>2. slotJob[t] # NoJob => slotJob[t] \in Jobs \ {j}
    BY <1>1, <1>3 DEF QueueInvariant, Ownership, TypeOK, MainTypes, Jobs, NoJob
  <2>3. slotJob[t] # NoJob => cancelRequested'[slotJob[t]] = cancelRequested[slotJob[t]]
    BY <1>2, <2>2 DEF TypeOK, RowTypes
  <2> QED BY <1>2, <2>1, <2>3, CancelFrame
<1>4. CASE t = s /\ alive[t]
  <2>1. m \in ToWorker /\ m.type = "cancel"
    BY ValueTypes DEF CancelMsg
  <2>2. inbox'[t] = Append(inbox[t], m) /\ inbox[t] \in Seq(ToWorker)
    BY <1>1, <1>4 DEF TypeOK, ThreadTypes
  <2> HIDE DEF m
  <2>3. /\ Len(inbox[t]) \in Nat /\ Len(inbox'[t]) = Len(inbox[t]) + 1
        /\ inbox'[t][Len(inbox[t]) + 1] = m
    BY <2>1, <2>2
  <2>4. \A k \in 1..Len(inbox'[t]) : inbox'[t][k].type = "run" => k < Len(inbox[t]) + 1
    BY <2>1, <2>3
  <2>5. CancelWaits(t)'
    BY <2>1, <2>3, <2>4 DEF CancelWaits
  <2> QED BY <2>5 DEF CancelReaches
<1>5. CASE t = s /\ ~alive[t]
  BY <1>2, <1>5 DEF CancelReaches
<1> QED BY <1>3, <1>4, <1>5

\* Every step keeps the cancels within reach.
LEMMA CancelStep ==
  TypeOK /\ QueueInvariant /\ CancelInvariant /\ [Next]_vars => CancelInvariant'
<1> SUFFICES ASSUME TypeOK, QueueInvariant, CancelInvariant, [Next]_vars,
                    NEW t \in Slots
             PROVE  CancelReaches(t)'
  BY RespawnsStep DEF CancelInvariant
<1> USE DEF rowVars, mainVars, threadVars
<1>1. CancelReaches(t) /\ RespawnsInOrder
  BY DEF CancelInvariant
<1>2. ASSUME alive'[t] = alive[t], slotJob'[t] = slotJob[t], inbox'[t] = inbox[t],
             outbox'[t] = outbox[t], threadCancelled'[t] = threadCancelled[t],
             cancelRequested' = cancelRequested
      PROVE  CancelReaches(t)'
  BY <1>1, <1>2, CancelFrame
<1>3. ASSUME slotJob'[t] = NoJob PROVE CancelReaches(t)'
  BY <1>3 DEF CancelReaches
<1>4. CASE Boot \/ ProcessDies
  BY <1>2, <1>3, <1>4 DEF Boot, ProcessDies
<1>5. CASE UserCall
  <2>1. ASSUME NEW j \in Jobs, (\E u \in JobTypes : Enqueue(j, u)) \/ CancelEnded(j)
        PROVE  CancelReaches(t)'
    BY <1>2, <2>1 DEF Enqueue, EnqueueRow, CancelEnded
  <2>2. ASSUME NEW j \in Jobs, CancelQueued(j) PROVE CancelReaches(t)'
    <3>1. slotJob[t] # NoJob => slotJob[t] \in Jobs \ {j}
      BY <2>2 DEF CancelQueued, QueueInvariant, Ownership, TypeOK, MainTypes
    <3>2. slotJob[t] # NoJob => cancelRequested'[slotJob[t]] = cancelRequested[slotJob[t]]
      BY <2>2, <3>1 DEF CancelQueued, TypeOK, RowTypes
    <3> QED BY <1>1, <2>2, <3>2, CancelFrame DEF CancelQueued
  <2>3. ASSUME NEW j \in Jobs, CancelRunning(j) PROVE CancelReaches(t)'
    BY <1>1, <2>3, CancelPosted
  <2> QED BY <1>5, <2>1, <2>2, <2>3 DEF UserCall
<1>6. CASE RunHandler
  <2>1. ASSUME NEW j \in Jobs, PumpClaim(j) \/ EmitRescan(j) \/ BacklogEnqueue(j)
        PROVE  CancelReaches(t)'
    BY <1>2, <2>1 DEF PumpClaim, EmitRescan, BacklogEnqueue, EnqueueRow
  <2>2. CASE PumpDropCancelled \/ PumpStop \/ EmitUnheard \/ SweepMissing \/ BacklogEmpty
    BY <1>2, <2>2 DEF PumpDropCancelled, PumpStop, EmitUnheard, SweepMissing, BacklogEmpty
  <2>3. ASSUME NEW s \in Slots, PumpDispatch(s) PROVE CancelReaches(t)'
    <3>1. CASE t = s
      <4>1. slotJob'[t] = claimed /\ ~cancelRequested'[claimed]
        BY <2>3, <3>1 DEF PumpDispatch, TypeOK, MainTypes
      <4> QED BY <4>1 DEF CancelReaches
    <3>2. CASE t # s
      BY <1>2, <2>3, <3>2 DEF PumpDispatch, Post, TypeOK, MainTypes, ThreadTypes
    <3> QED BY <3>1, <3>2
  <2>4. CASE Respawn
    <3> DEFINE s == Head(todo).arg
    <3>1. /\ 1 \in 1..Len(todo) /\ Head(todo) = todo[1] /\ todo[1].op = "respawn"
      BY <2>4 DEF Respawn, Doing, TypeOK, MainTypes
    <3>2. UNCHANGED <<slotJob, cancelRequested>>
      BY <2>4 DEF Respawn
    <3>3. CASE t = s
      <4>1. slotJob[t] # NoJob => ~cancelRequested[slotJob[t]]
        BY <1>1, <3>1, <3>3 DEF RespawnsInOrder
      <4> QED BY <3>2, <4>1 DEF CancelReaches
    <3>4. CASE t # s
      BY <1>2, <2>4, <3>4 DEF Respawn, TypeOK, ThreadTypes
    <3> QED BY <3>3, <3>4
  <2> QED BY <1>6, <2>1, <2>2, <2>3, <2>4 DEF RunHandler
<1>7. ASSUME NEW s \in Slots, TakeMessage(s) PROVE CancelReaches(t)'
  <2>1. /\ outbox[s] # <<>> /\ outbox' = [outbox EXCEPT ![s] = Tail(@)]
        /\ UNCHANGED <<alive, inbox, threadCancelled, cancelRequested>>
    BY <1>7 DEF TakeMessage, HandleProgress, HandleDone, HandleError, HandleCancelled,
       HandleCrash, Arrives
  <2>2. \/ slotJob' = slotJob /\ Head(outbox[s]).type = "progress"
        \/ slotJob' = [slotJob EXCEPT ![s] = NoJob]
    BY <1>7 DEF TakeMessage, HandleProgress, HandleDone, HandleError, HandleCancelled,
       HandleCrash, Arrives, FreeSlot
  <2>3. CASE t # s
    BY <1>2, <2>1, <2>2, <2>3 DEF TypeOK, MainTypes, ThreadTypes
  <2>4. CASE t = s /\ slotJob' = [slotJob EXCEPT ![s] = NoJob]
    BY <1>3, <2>4 DEF TypeOK, MainTypes
  <2>5. CASE t = s /\ slotJob' = slotJob /\ Head(outbox[s]).type = "progress"
    <3> DEFINE q == outbox[t]
    <3>1. /\ Len(q) \in Nat /\ Head(q) = q[1] /\ Len(Tail(q)) = Len(q) - 1
          /\ \A i \in 1..Len(Tail(q)) : Tail(q)[i] = q[i + 1]
      BY <2>1, <2>5, MessageTypes
    <3>2. outbox'[t] = Tail(q)
      BY <2>1, <2>5 DEF TypeOK, ThreadTypes
    <3>3. EndIsSent(t) => EndIsSent(t)'
      <4> SUFFICES ASSUME NEW i \in 1..Len(q), IsEnd(q[i]) PROVE EndIsSent(t)'
        BY DEF EndIsSent
      <4>1. i # 1
        BY <2>5, <3>1 DEF IsEnd, EndTypes
      <4> HIDE DEF q
      <4>2. i - 1 \in 1..Len(Tail(q)) /\ (i - 1) + 1 = i
        BY <3>1, <4>1
      <4>3. Tail(q)[i - 1] = q[i]
        BY <3>1, <4>2
      <4> QED BY <3>2, <4>2, <4>3 DEF EndIsSent, IsEnd
    <3> QED BY <1>1, <2>1, <2>5, <3>3 DEF CancelReaches, NoRunIn, CancelWaits
  <2> QED BY <2>2, <2>3, <2>4, <2>5
<1>8. ASSUME NEW s \in Slots, WorkerReceives(s) \/ RunnerWorks(s) \/ WorkerCrash(s)
      PROVE  CancelReaches(t)'
  <2>1. CASE t = s
    BY <1>1, <1>8, <2>1, CancelThreadStep
  <2>2. CASE t # s
    BY <1>2, <1>8, <2>2 DEF WorkerReceives, ReceiveCancel, ReceiveRun, ResetFlag, RunnerWorks,
       DemoStep, ReportBatch, RunnerReturns, RunnerThrows, RunnerLeaves, WorkerCrash, Send,
       TypeOK, ThreadTypes
  <2> QED BY <2>1, <2>2
<1>9. CASE UNCHANGED vars
  BY <1>2, <1>9 DEF vars
<1> QED BY <1>4, <1>5, <1>6, <1>7, <1>8, <1>9 DEF Next

\* A cancel asked for while its job runs reaches the live thread that runs it, or comes after
\* its end: no order of run message, respawn, cancel and end loses it (pool.cancel of pool.ts,
\* and the message handler of worker-entry.ts).
THEOREM CancelsAreNotLost == Spec => []CancelIsOnItsWay
<1>1. Init => CancelInvariant
  BY DEF Init, CancelInvariant, RespawnsInOrder, CancelReaches
<1>2. TypeOK /\ CancelInvariant => CancelIsOnItsWay
  <2> SUFFICES ASSUME TypeOK, CancelInvariant, NEW s \in Slots,
                      alive[s], slotJob[s] # NoJob, cancelRequested[slotJob[s]]
               PROVE  \/ threadCancelled[s] /\ RunsIn(s) = {}
                      \/ EndsIn(s) # {}
                      \/ \E i \in DOMAIN inbox[s] :
                           inbox[s][i].type = "cancel" /\ \A k \in RunsIn(s) : k < i
    BY DEF CancelIsOnItsWay
  <2>1. (threadCancelled[s] /\ NoRunIn(s)) \/ EndIsSent(s) \/ CancelWaits(s)
    BY DEF CancelInvariant, CancelReaches
  <2>2. DOMAIN inbox[s] = 1..Len(inbox[s]) /\ DOMAIN outbox[s] = 1..Len(outbox[s])
    BY MessageTypes
  <2> QED BY <2>1, <2>2 DEF NoRunIn, EndIsSent, CancelWaits, RunsIn, EndsIn, IsEnd
<1> QED BY <1>1, <1>2, CancelStep, TypeCorrect, QueueIsSafe, PTL DEF Spec

-----------------------------------------------------------------------------
(* A completed demo job has persisted its last step.                       *)

\* No report waits at the slot: the row has all that was reported.
NoReport(s) == \A i \in 1..Len(outbox[s]) : outbox[s][i].type # "progress"

\* Once every message of the slot is handled, its job's row will say n.
Reached(s, n) ==
  /\ NoReport(s) => progressCurrent[slotJob[s]] = n
  /\ \A i \in 1..Len(outbox[s]) :
       /\ outbox[s][i].type = "progress"
       /\ \A k \in 1..Len(outbox[s]) : i < k => outbox[s][k].type # "progress"
       => outbox[s][i].current = n

\* The reports that wait are of the slot's job, and come before its end.
ReportsOfItsJob(s) ==
  /\ \A i \in 1..Len(outbox[s]) :
       outbox[s][i].type = "progress" => outbox[s][i].job = slotJob[s]
  /\ \A i, k \in 1..Len(outbox[s]) :
       IsEnd(outbox[s][i]) /\ outbox[s][k].type = "progress" => k < i

\* A run that waits starts from what the row says.
StartsWhereItStopped(s) ==
  \A i \in 1..Len(inbox[s]) : inbox[s][i].type = "run" =>
    NoReport(s) /\ inbox[s][i].resumeFrom = progressCurrent[slotJob[s]]

\* The demo runner has reported its step, and the last one before it says it is done.
StepsInOrder(s) ==
  slotJob[s] # NoJob /\ jobType[slotJob[s]] = "demo" =>
    /\ threadJob[s] # NoJob => Reached(s, threadStep[s])
    /\ \A i \in 1..Len(outbox[s]) : outbox[s][i].type = "done" => Reached(s, Steps)

DemoReports(s) == ReportsOfItsJob(s) /\ StartsWhereItStopped(s) /\ StepsInOrder(s)

DemoInvariant == CompletedDemoRanEveryStep /\ \A s \in Slots : DemoReports(s)

\* The last report of a slot with none after it.
LEMMA ReachedNow ==
  ASSUME NEW s \in Slots, NEW n, NEW p \in 1..Len(outbox'[s]), Len(outbox'[s]) \in Nat,
         outbox'[s][p].type = "progress", outbox'[s][p].current = n,
         \A k \in 1..Len(outbox'[s]) : p < k => outbox'[s][k].type # "progress"
  PROVE  Reached(s, n)'
<1>1. ~NoReport(s)'
  BY DEF NoReport
<1>2. ASSUME NEW i \in 1..Len(outbox'[s]), outbox'[s][i].type = "progress",
             \A k \in 1..Len(outbox'[s]) : i < k => outbox'[s][k].type # "progress"
      PROVE  outbox'[s][i].current = n
  <2>1. ~(i < p) /\ ~(p < i)
    BY <1>2
  <2>2. i = p
    BY <2>1
  <2> QED BY <2>2
<1> QED BY <1>1, <1>2 DEF Reached

\* Sending anything but a report changes nothing of it.
LEMMA ReachedKept ==
  ASSUME NEW s \in Slots, NEW n, Reached(s, n),
         Len(outbox[s]) \in Nat, Len(outbox'[s]) \in Nat, Len(outbox[s]) <= Len(outbox'[s]),
         \A i \in 1..Len(outbox[s]) : outbox'[s][i] = outbox[s][i],
         \A i \in 1..Len(outbox'[s]) :
           i \in 1..Len(outbox[s]) \/ outbox'[s][i].type # "progress",
         slotJob'[s] = slotJob[s], progressCurrent' = progressCurrent
  PROVE  Reached(s, n)'
<1>1. NoReport(s)' => NoReport(s)
  BY DEF NoReport
<1>2. ASSUME NEW i \in 1..Len(outbox'[s]), outbox'[s][i].type = "progress",
             \A k \in 1..Len(outbox'[s]) : i < k => outbox'[s][k].type # "progress"
      PROVE  outbox'[s][i].current = n
  <2>1. i \in 1..Len(outbox[s]) /\ outbox[s][i] = outbox'[s][i]
    BY <1>2
  <2>2. \A k \in 1..Len(outbox[s]) : i < k => outbox[s][k].type # "progress"
    BY <1>2
  <2> QED BY <1>2, <2>1, <2>2 DEF Reached
<1> QED BY <1>1, <1>2 DEF Reached

\* Handling the first report leaves what the rest of them will come to.
LEMMA ReachedHandled ==
  ASSUME NEW s \in Slots, NEW n, Reached(s, n), outbox[s] \in Seq(FromWorker),
         outbox[s] # <<>>, Head(outbox[s]).type = "progress",
         outbox'[s] = Tail(outbox[s]), slotJob'[s] = slotJob[s],
         progressCurrent'[slotJob[s]] = Head(outbox[s]).current
  PROVE  Reached(s, n)'
<1> DEFINE q == outbox[s]
<1>1. /\ Len(q) \in Nat /\ 1 \in 1..Len(q) /\ Head(q) = q[1] /\ Len(Tail(q)) = Len(q) - 1
      /\ \A i \in 1..Len(Tail(q)) : Tail(q)[i] = q[i + 1]
  OBVIOUS
<1> HIDE DEF q
<1>2. \A k \in 1..Len(q) : 1 < k => k - 1 \in 1..Len(Tail(q)) /\ (k - 1) + 1 = k
  BY <1>1
<1>3. \A k \in 1..Len(q) : 1 < k => Tail(q)[k - 1] = q[k]
  BY <1>1, <1>2
<1>4. ASSUME NoReport(s)' PROVE progressCurrent'[slotJob'[s]] = n
  <2>1. \A k \in 1..Len(q) : 1 < k => q[k].type # "progress"
    BY <1>2, <1>3, <1>4 DEF NoReport, q
  <2>2. q[1].current = n
    BY <1>1, <2>1 DEF Reached, q
  <2> QED BY <1>1, <2>2 DEF q
<1>5. ASSUME NEW i \in 1..Len(outbox'[s]), outbox'[s][i].type = "progress",
             \A k \in 1..Len(outbox'[s]) : i < k => outbox'[s][k].type # "progress"
      PROVE  outbox'[s][i].current = n
  <2>1. i + 1 \in 1..Len(q) /\ q[i + 1] = outbox'[s][i]
    BY <1>1 DEF q
  <2>2. ASSUME NEW k \in 1..Len(q), i + 1 < k PROVE q[k].type # "progress"
    <3>1. 1 < k /\ i < k - 1 /\ i \in Nat
      BY <1>1, <2>2 DEF q
    <3> QED BY <1>2, <1>3, <1>5, <3>1 DEF q
  <2> QED BY <1>5, <2>1, <2>2 DEF Reached, q
<1> QED BY <1>4, <1>5 DEF Reached

\* A slot that sends and handles nothing, and reads no run message.
LEMMA DemoFrame ==
  ASSUME TypeOK, QueueInvariant, NEW t \in Slots, DemoReports(t),
         outbox'[t] = outbox[t], slotJob'[t] = slotJob[t],
         threadJob'[t] = threadJob[t], threadStep'[t] = threadStep[t],
         \A i \in 1..Len(inbox'[t]) : inbox'[t][i].type = "run" =>
           \E k \in 1..Len(inbox[t]) : inbox'[t][i] = inbox[t][k],
         slotJob[t] # NoJob =>
           /\ jobType'[slotJob[t]] = jobType[slotJob[t]]
           /\ progressCurrent'[slotJob[t]] = progressCurrent[slotJob[t]]
  PROVE  DemoReports(t)'
<1>1. ReportsOfItsJob(t)'
  BY DEF DemoReports, ReportsOfItsJob, IsEnd
<1>2. NoReport(t)' <=> NoReport(t)
  BY DEF NoReport
<1>3. \A n : slotJob[t] # NoJob /\ Reached(t, n) => Reached(t, n)'
  BY <1>2 DEF Reached
<1>4. StartsWhereItStopped(t)'
  <2> SUFFICES ASSUME NEW i \in 1..Len(inbox'[t]), inbox'[t][i].type = "run"
               PROVE  NoReport(t)' /\ inbox'[t][i].resumeFrom = progressCurrent'[slotJob'[t]]
    BY DEF StartsWhereItStopped
  <2>1. PICK k \in 1..Len(inbox[t]) : inbox'[t][i] = inbox[t][k]
    OBVIOUS
  <2>2. inbox[t][k].job = slotJob[t] /\ inbox[t][k].job \in Jobs
    BY <2>1, MessageTypes DEF QueueInvariant, OneStage
  <2>3. slotJob[t] # NoJob
    BY <2>2 DEF Jobs, NoJob
  <2> QED BY <1>2, <2>1, <2>3 DEF DemoReports, StartsWhereItStopped
<1>5. StepsInOrder(t)'
  <2> SUFFICES ASSUME slotJob[t] # NoJob, jobType[slotJob[t]] = "demo"
               PROVE  /\ threadJob[t] # NoJob => Reached(t, threadStep[t])'
                      /\ \A i \in 1..Len(outbox[t]) :
                           outbox[t][i].type = "done" => Reached(t, Steps)'
    BY DEF StepsInOrder
  <2>1. PICK n : n = threadStep[t]
    OBVIOUS
  <2>2. threadJob[t] # NoJob => Reached(t, n)
    BY <2>1 DEF DemoReports, StepsInOrder
  <2>3. threadJob[t] # NoJob => Reached(t, n)'
    BY <1>3, <2>2
  <2>4. threadStep'[t] = n
    BY <2>1
  <2>5. threadJob[t] # NoJob => Reached(t, threadStep[t])'
    BY <2>3, <2>4 DEF Reached
  <2>6. \A i \in 1..Len(outbox[t]) : outbox[t][i].type = "done" => Reached(t, Steps)
    BY DEF DemoReports, StepsInOrder
  <2> QED BY <1>3, <2>5, <2>6
<1> QED BY <1>1, <1>4, <1>5 DEF DemoReports

\* A slot with nothing to say: no report, no end, no run and no runner.
LEMMA DemoQuiet ==
  ASSUME NEW s \in Slots,
         \A i \in 1..Len(outbox'[s]) : outbox'[s][i].type \notin {"progress"} \cup EndTypes,
         \A i \in 1..Len(inbox'[s]) : inbox'[s][i].type # "run",
         threadJob'[s] = NoJob
  PROVE  DemoReports(s)'
BY DEF DemoReports, ReportsOfItsJob, StartsWhereItStopped, StepsInOrder, EndTypes

\* The thread of a slot reports its steps in order, and is done after the last one.
LEMMA DemoThreadStep ==
  ASSUME TypeOK, QueueInvariant, NEW s \in Slots, DemoReports(s),
         WorkerReceives(s) \/ RunnerWorks(s) \/ WorkerCrash(s)
  PROVE  DemoReports(s)'
<1> USE DEF rowVars, mainVars, threadVars
<1> DEFINE q == outbox[s]
           r == outbox'[s]
           j == threadJob[s]
<1>1. q \in Seq(FromWorker) /\ Len(q) \in Nat /\ SlotInv(s)
  BY MessageTypes DEF QueueInvariant, SlotInv
<1>2. UNCHANGED <<jobType, progressCurrent, slotJob>>
  BY DEF WorkerReceives, ReceiveCancel, ReceiveRun, RunnerWorks, DemoStep, ReportBatch,
     RunnerReturns, RunnerThrows, RunnerLeaves, WorkerCrash
<1>3. CASE ReceiveCancel(s)
  <2>1. UNCHANGED <<outbox, threadJob, threadStep>> /\ inbox'[s] = Tail(inbox[s])
        /\ inbox[s] # <<>>
    BY <1>3 DEF ReceiveCancel, TypeOK, ThreadTypes
  <2>2. \A i \in 1..Len(inbox'[s]) : \E k \in 1..Len(inbox[s]) : inbox'[s][i] = inbox[s][k]
    <3>1. \A i \in 1..Len(inbox'[s]) :
            i + 1 \in 1..Len(inbox[s]) /\ inbox'[s][i] = inbox[s][i + 1]
      BY <2>1, MessageTypes
    <3> QED BY <3>1
  <2> QED BY <1>2, <2>1, <2>2, DemoFrame
<1>4. CASE ReceiveRun(s)
  <2> DEFINE m == Head(inbox[s])
  <2>1. /\ inbox[s] # <<>> /\ m.type = "run" /\ inbox'[s] = Tail(inbox[s])
        /\ m = inbox[s][1] /\ 1 \in 1..Len(inbox[s]) /\ m.job \in Jobs
        /\ \A i \in 1..Len(inbox'[s]) :
             i + 1 \in 1..Len(inbox[s]) /\ i + 1 # 1 /\ inbox'[s][i] = inbox[s][i + 1]
    BY <1>4, MessageTypes DEF ReceiveRun, TypeOK, ThreadTypes
  <2>2. /\ m.job = slotJob[s] /\ threadJob[s] = NoJob
        /\ \A k \in 1..Len(inbox[s]) : k # 1 => inbox[s][k].type # "run"
        /\ \A k \in 1..Len(q) : ~IsEnd(q[k])
        /\ NoReport(s) /\ m.resumeFrom = progressCurrent[slotJob[s]]
    BY <2>1 DEF QueueInvariant, OneStage, DemoReports, StartsWhereItStopped
  <2>3. \A i \in 1..Len(inbox'[s]) : inbox'[s][i].type # "run"
    BY <2>1, <2>2
  <2>4. StartsWhereItStopped(s)'
    BY <2>3 DEF StartsWhereItStopped
  <2>5. CASE /\ jobType[m.job] = "demo" /\ m.resumeFrom = Steps
             /\ r = q \o <<Ended("done", m.job)>> /\ threadJob'[s] = NoJob
    <3> DEFINE v == Ended("done", m.job)
    <3>1. v \in FromWorker /\ v.type = "done"
      BY <2>1, ValueTypes DEF Ended, EndTypes
    <3> HIDE DEF v, m
    <3>2. Len(r) = Len(q) + 1 /\ (\A i \in 1..Len(q) : r[i] = q[i]) /\ r[Len(q) + 1] = v
      BY <1>1, <2>5, <3>1, SendOne DEF v
    <3>3. \A i \in 1..Len(r) : i \in 1..Len(q) \/ i = Len(q) + 1
      BY <1>1, <3>2
    <3>4. NoReport(s)'
      BY <2>2, <3>1, <3>2, <3>3 DEF NoReport
    <3>5. ReportsOfItsJob(s)'
      BY <3>4 DEF ReportsOfItsJob, NoReport
    <3>6. progressCurrent'[slotJob'[s]] = Steps
      BY <1>2, <2>2, <2>5
    <3>7. Reached(s, Steps)'
      BY <3>4, <3>6 DEF Reached, NoReport
    <3> QED BY <2>4, <2>5, <3>5, <3>7 DEF DemoReports, StepsInOrder
  <2>6. CASE /\ threadJob'[s] = m.job /\ outbox'[s] = outbox[s]
             /\ jobType[m.job] = "demo" => threadStep'[s] = m.resumeFrom
    <3>1. ReportsOfItsJob(s)'
      BY <1>2, <2>6 DEF DemoReports, ReportsOfItsJob, IsEnd
    <3>2. jobType'[slotJob'[s]] = "demo" => progressCurrent'[slotJob'[s]] = threadStep'[s]
      BY <1>2, <2>2, <2>6
    <3>3. NoReport(s)'
      BY <2>2, <2>6 DEF NoReport
    <3>4. jobType'[slotJob'[s]] = "demo" => Reached(s, threadStep[s])'
      BY <3>2, <3>3 DEF Reached, NoReport
    <3>5. \A i \in 1..Len(outbox'[s]) : outbox'[s][i].type # "done"
      BY <2>2, <2>6 DEF IsEnd, EndTypes
    <3> QED BY <2>4, <3>1, <3>4, <3>5 DEF DemoReports, StepsInOrder
  <2>7. \/ /\ jobType[m.job] = "demo" /\ m.resumeFrom = Steps
           /\ r = q \o <<Ended("done", m.job)>> /\ threadJob'[s] = NoJob
        \/ /\ threadJob'[s] = m.job /\ outbox'[s] = outbox[s]
           /\ jobType[m.job] = "demo" => threadStep'[s] = m.resumeFrom
    BY <1>4, <2>2 DEF ReceiveRun, Send, TypeOK, ThreadTypes
  <2> QED BY <2>5, <2>6, <2>7
<1>5. CASE DemoStep(s)
  <2>1. /\ j # NoJob /\ j \in Jobs /\ j = slotJob[s] /\ jobType[j] = "demo"
        /\ NoRunIn(s) /\ threadStep[s] + 1 \in Nat
        /\ \A i \in 1..Len(q) : q[i].type \notin {"done", "error", "cancelled", "crash"}
    BY <1>1, <1>5, Working DEF DemoStep, NoRunIn, TypeOK, ThreadTypes
  <2>2. PICK n \in Nat : n = threadStep[s] + 1
    BY <2>1
  <2> DEFINE m == Progress(j, n)
             v == Outcome(s, j)
  <2>3. /\ m \in FromWorker /\ m.type = "progress" /\ m.job = j /\ m.current = n
        /\ v \in FromWorker /\ v.type \in {"done", "cancelled"}
        /\ v.type = "done" => ~threadCancelled[s]
    BY <2>1, ValueTypes DEF Progress, Outcome, Ended, EndTypes
  <2> HIDE DEF m, v
  <2>4. inbox' = inbox /\ NoRunIn(s)'
    BY <1>5, <2>1 DEF DemoStep, NoRunIn
  <2>5. StartsWhereItStopped(s)'
    BY <2>4 DEF NoRunIn, StartsWhereItStopped
  <2>6. CASE r = q \o <<m>> /\ threadJob'[s] = j /\ threadStep'[s] = n
    <3>1. Len(r) = Len(q) + 1 /\ (\A i \in 1..Len(q) : r[i] = q[i]) /\ r[Len(q) + 1] = m
      BY <1>1, <2>3, <2>6, SendOne
    <3>2. \A i \in 1..Len(r) : i \in 1..Len(q) \/ i = Len(q) + 1
      BY <1>1, <3>1
    <3>3. \A i \in 1..Len(r) : r[i].type \notin {"done", "error", "cancelled", "crash"}
      BY <2>1, <2>3, <3>1, <3>2
    <3>4. Reached(s, n)'
      <4>1. Len(r) \in Nat /\ Len(q) + 1 \in 1..Len(r)
        BY <1>1, <3>1
      <4>2. \A k \in 1..Len(r) : ~(Len(q) + 1 < k)
        BY <1>1, <3>1
      <4> QED BY <2>3, <3>1, <4>1, <4>2, ReachedNow
    <3>5. Reached(s, threadStep[s])'
      BY <2>6, <3>4 DEF Reached
    <3>6. ReportsOfItsJob(s)'
      <4>1. \A i \in 1..Len(r) : r[i].type = "progress" => r[i].job = slotJob'[s]
        BY <1>2, <2>1, <2>3, <3>1, <3>2 DEF DemoReports, ReportsOfItsJob
      <4> QED BY <3>3, <4>1 DEF ReportsOfItsJob, IsEnd, EndTypes
    <3> QED BY <2>5, <3>3, <3>5, <3>6 DEF DemoReports, StepsInOrder
  <2>7. CASE r = q \o <<m, v>> /\ threadJob'[s] = NoJob /\ LastStep(s, n)
    <3>1. /\ Len(r) = Len(q) + 2 /\ \A i \in 1..Len(q) : r[i] = q[i]
          /\ r[Len(q) + 1] = m /\ r[Len(q) + 2] = v
      BY <1>1, <2>3, <2>7, SendTwo
    <3>2. \A i \in 1..Len(r) : i \in 1..Len(q) \/ i = Len(q) + 1 \/ i = Len(q) + 2
      BY <1>1, <3>1
    <3>3. \A i \in 1..Len(r) : r[i].type \in {"done", "error", "cancelled"} => i = Len(q) + 2
      BY <2>1, <2>3, <3>1, <3>2
    <3>4. Reached(s, n)'
      <4>1. Len(r) \in Nat /\ Len(q) + 1 \in 1..Len(r)
        BY <1>1, <3>1
      <4>2. \A k \in 1..Len(r) : Len(q) + 1 < k => k = Len(q) + 2
        BY <1>1, <3>1
      <4>3. \A k \in 1..Len(r) : Len(q) + 1 < k => r[k].type # "progress"
        BY <2>3, <3>1, <4>2
      <4> QED BY <2>3, <3>1, <4>1, <4>3, ReachedNow
    <3>5. ASSUME NEW i \in 1..Len(r), r[i].type = "done" PROVE Reached(s, Steps)'
      <4>1. v.type = "done"
        BY <3>1, <3>3, <3>5
      <4>2. n = Steps
        BY <2>3, <2>7, <4>1 DEF LastStep
      <4> QED BY <3>4, <4>2
    <3>6. ReportsOfItsJob(s)'
      <4>1. \A i \in 1..Len(r) : r[i].type = "progress" => r[i].job = slotJob'[s]
        BY <1>2, <2>1, <2>3, <3>1, <3>2 DEF DemoReports, ReportsOfItsJob
      <4>2. \A k \in 1..Len(r) : r[k].type = "progress" => k < Len(q) + 2
        BY <1>1, <2>3, <3>1, <3>2
      <4> QED BY <3>3, <4>1, <4>2 DEF ReportsOfItsJob, IsEnd, EndTypes
    <3> QED BY <2>5, <2>7, <3>5, <3>6 DEF DemoReports, StepsInOrder
  <2>8. \/ r = q \o <<m>> /\ threadJob'[s] = j /\ threadStep'[s] = n
        \/ r = q \o <<m, v>> /\ threadJob'[s] = NoJob /\ LastStep(s, n)
    BY <1>5, <2>2 DEF DemoStep, Send, TypeOK, ThreadTypes, m, v
  <2> QED BY <2>6, <2>7, <2>8
<1>6. CASE ReportBatch(s)
  <2>1. /\ j # NoJob /\ j \in Jobs /\ j = slotJob[s] /\ jobType[j] # "demo"
        /\ NoRunIn(s) /\ threadStep[s] + 1 \in Nat
        /\ \A i \in 1..Len(q) : q[i].type \notin {"done", "error", "cancelled", "crash"}
    BY <1>1, <1>6, Working DEF ReportBatch, NoRunIn, TypeOK, ThreadTypes
  <2> DEFINE m == Progress(j, threadStep[s] + 1)
  <2>2. m \in FromWorker /\ m.type = "progress" /\ m.job = j
    BY <2>1, ValueTypes DEF Progress
  <2>3. r = q \o <<m>> /\ inbox' = inbox
    BY <1>6 DEF ReportBatch, Send, TypeOK, ThreadTypes
  <2> HIDE DEF m
  <2>4. Len(r) = Len(q) + 1 /\ (\A i \in 1..Len(q) : r[i] = q[i]) /\ r[Len(q) + 1] = m
    BY <1>1, <2>2, <2>3, SendOne
  <2>5. \A i \in 1..Len(r) : i \in 1..Len(q) \/ i = Len(q) + 1
    BY <1>1, <2>4
  <2>6. \A i \in 1..Len(r) : r[i].type \notin {"done", "error", "cancelled", "crash"}
    BY <2>1, <2>2, <2>4, <2>5
  <2>7. \A i \in 1..Len(r) : r[i].type = "progress" => r[i].job = slotJob'[s]
    BY <1>2, <2>1, <2>2, <2>4, <2>5 DEF DemoReports, ReportsOfItsJob
  <2>8. ReportsOfItsJob(s)'
    BY <2>6, <2>7 DEF ReportsOfItsJob, IsEnd, EndTypes
  <2>9. StartsWhereItStopped(s)' /\ StepsInOrder(s)'
    BY <1>2, <2>1, <2>3 DEF NoRunIn, StartsWhereItStopped, StepsInOrder
  <2> QED BY <2>8, <2>9 DEF DemoReports
<1>7. CASE RunnerReturns(s) \/ RunnerThrows(s)
  <2>1. /\ j # NoJob /\ j \in Jobs /\ j = slotJob[s] /\ jobType[j] # "demo" /\ NoRunIn(s)
        /\ \A i \in 1..Len(q) : q[i].type \notin {"done", "error", "cancelled", "crash"}
    BY <1>1, <1>7, Working DEF RunnerReturns, RunnerThrows, NoRunIn
  <2>2. PICK v \in FromWorker : r = q \o <<v>> /\ v.type # "progress"
    <3>1. /\ Outcome(s, j) \in FromWorker /\ Outcome(s, j).type # "progress"
          /\ Ended("error", j) \in FromWorker /\ Ended("error", j).type # "progress"
      BY <2>1, ValueTypes DEF Outcome, Ended, EndTypes
    <3>2. r = q \o <<Outcome(s, j)>> \/ r = q \o <<Ended("error", j)>>
      BY <1>7 DEF RunnerReturns, RunnerThrows, RunnerLeaves, Send, TypeOK, ThreadTypes
    <3> QED BY <3>1, <3>2
  <2>3. inbox' = inbox
    BY <1>7 DEF RunnerReturns, RunnerThrows, RunnerLeaves
  <2>4. Len(r) = Len(q) + 1 /\ (\A i \in 1..Len(q) : r[i] = q[i]) /\ r[Len(q) + 1] = v
    BY <1>1, <2>2, SendOne
  <2>5. \A i \in 1..Len(r) : i \in 1..Len(q) \/ i = Len(q) + 1
    BY <1>1, <2>4
  <2>6. \A i \in 1..Len(r) : r[i].type = "progress" => i < Len(q) + 1 /\ r[i].job = slotJob'[s]
    BY <1>1, <1>2, <2>1, <2>2, <2>4, <2>5 DEF DemoReports, ReportsOfItsJob
  <2>7. \A i \in 1..Len(r) : r[i].type \in {"done", "error", "cancelled"} => i = Len(q) + 1
    BY <2>1, <2>4, <2>5
  <2>8. ReportsOfItsJob(s)'
    BY <2>6, <2>7 DEF ReportsOfItsJob, IsEnd, EndTypes
  <2>9. StartsWhereItStopped(s)' /\ StepsInOrder(s)'
    BY <1>2, <2>1, <2>3 DEF NoRunIn, StartsWhereItStopped, StepsInOrder
  <2> QED BY <2>8, <2>9 DEF DemoReports
<1>8. CASE WorkerCrash(s)
  <2> DEFINE v == Ended("crash", NoJob)
  <2>1. v \in FromWorker /\ v.type = "crash"
    BY ValueTypes DEF Ended
  <2>2. r = q \o <<v>> /\ inbox'[s] = <<>> /\ threadJob'[s] = NoJob
    BY <1>8 DEF WorkerCrash, Send, TypeOK, ThreadTypes
  <2> HIDE DEF v
  <2>3. Len(r) = Len(q) + 1 /\ (\A i \in 1..Len(q) : r[i] = q[i]) /\ r[Len(q) + 1] = v
    BY <1>1, <2>1, <2>2, SendOne
  <2>4. \A i \in 1..Len(r) : i \in 1..Len(q) \/ i = Len(q) + 1
    BY <1>1, <2>3
  <2>5. \A i \in 1..Len(r) : r[i].type # "crash" => i \in 1..Len(q) /\ r[i] = q[i]
    BY <2>1, <2>3, <2>4
  <2>6. ReportsOfItsJob(s)'
    BY <1>2, <2>5 DEF DemoReports, ReportsOfItsJob, IsEnd, EndTypes
  <2>7. StartsWhereItStopped(s)'
    BY <2>2 DEF StartsWhereItStopped
  <2>8. Reached(s, Steps) => Reached(s, Steps)'
    <3>1. Len(r) \in Nat /\ Len(q) <= Len(r)
      BY <1>1, <2>3
    <3>2. \A i \in 1..Len(r) : i \in 1..Len(q) \/ r[i].type # "progress"
      BY <2>5
    <3> QED BY <1>1, <1>2, <2>3, <3>1, <3>2, ReachedKept
  <2>9. StepsInOrder(s)'
    BY <1>2, <2>2, <2>5, <2>8 DEF DemoReports, StepsInOrder
  <2> QED BY <2>6, <2>7, <2>9 DEF DemoReports
<1> QED BY <1>3, <1>4, <1>5, <1>6, <1>7, <1>8 DEF WorkerReceives, RunnerWorks

\* A job that is given to a slot starts from its row: the slot has no report left to handle.
LEMMA DemoDispatch ==
  ASSUME TypeOK, QueueInvariant, NEW s \in Slots, DemoReports(s), PumpDispatch(s)
  PROVE  DemoReports(s)'
<1> DEFINE m == Run(claimed)
           q == inbox[s]
<1>1. /\ slotJob[s] = NoJob /\ slotJob'[s] = claimed /\ claimed \in Jobs
      /\ outbox' = outbox /\ threadJob' = threadJob /\ progressCurrent' = progressCurrent
      /\ inbox'[s] \in {q, Append(q, m)}
  BY DEF PumpDispatch, FirstIdle, Idle, Post, TypeOK, MainTypes, ThreadTypes, NoJob,
     rowVars
<1>2. NoJob \notin Jobs
  BY DEF Jobs, NoJob
<1>3. /\ threadJob[s] = NoJob
      /\ \A i \in 1..Len(q) : q[i].type # "run"
      /\ \A i \in 1..Len(outbox[s]) : outbox[s][i].type \notin EndTypes
  BY <1>1, <1>2, MessageTypes DEF QueueInvariant, OneStage, IsEnd
<1>4. \A i \in 1..Len(outbox[s]) : outbox[s][i].type # "progress"
  BY <1>1, <1>2, MessageTypes DEF DemoReports, ReportsOfItsJob
<1>5. NoReport(s)'
  BY <1>1, <1>4 DEF NoReport
<1>6. m \in ToWorker /\ m.resumeFrom = progressCurrent[claimed]
  BY <1>1, ValueTypes DEF Run
<1> HIDE DEF m
<1>7. \A i \in 1..Len(inbox'[s]) : inbox'[s][i].type = "run" => inbox'[s][i] = m
  <2>1. CASE inbox'[s] = q
    BY <1>3, <2>1
  <2>2. CASE inbox'[s] = Append(q, m)
    <3>1. /\ Len(q) \in Nat /\ Len(inbox'[s]) = Len(q) + 1
          /\ \A i \in 1..Len(q) : inbox'[s][i] = q[i]
          /\ inbox'[s][Len(q) + 1] = m
      BY <1>6, <2>2, MessageTypes
    <3>2. \A i \in 1..Len(inbox'[s]) : i \in 1..Len(q) \/ i = Len(q) + 1
      BY <3>1
    <3> QED BY <1>3, <3>1, <3>2
  <2> QED BY <1>1, <2>1, <2>2
<1>8. StartsWhereItStopped(s)'
  BY <1>1, <1>5, <1>6, <1>7 DEF StartsWhereItStopped
<1>9. ReportsOfItsJob(s)' /\ StepsInOrder(s)'
  BY <1>1, <1>3, <1>4, <1>5 DEF ReportsOfItsJob, StepsInOrder, NoReport, EndTypes
<1> QED BY <1>8, <1>9 DEF DemoReports

\* Handling a message of the slot itself: its first report reaches the row of its job, its end
\* or its crash is the last message.
LEMMA DemoTake ==
  ASSUME TypeOK, QueueInvariant, NEW s \in Slots, DemoReports(s), TakeMessage(s)
  PROVE  DemoReports(s)'
<1> USE DEF rowVars, mainVars, threadVars
<1> DEFINE q == outbox[s]
<1>1. /\ q # <<>> /\ outbox'[s] = Tail(q)
      /\ UNCHANGED <<inbox, threadJob, threadStep, jobType>>
  BY DEF TakeMessage, HandleProgress, HandleDone, HandleError, HandleCancelled,
     HandleCrash, Arrives, TypeOK, ThreadTypes
<1>2. /\ q \in Seq(FromWorker) /\ Len(q) \in Nat /\ 1 \in 1..Len(q) /\ Head(q) = q[1]
      /\ Len(Tail(q)) = Len(q) - 1
      /\ \A i \in 1..Len(Tail(q)) :
           Tail(q)[i] = q[i + 1] /\ i + 1 \in 1..Len(q) /\ i + 1 # 1 /\ ~(i + 1 < 1)
  BY <1>1, MessageTypes
<1>3. CASE HandleProgress(s)
  <2>1. /\ q[1].type = "progress" /\ q[1].job = slotJob[s] /\ q[1].job \in Jobs
        /\ slotJob' = slotJob
    BY <1>2, <1>3, MessageTypes DEF HandleProgress, Arrives, DemoReports, ReportsOfItsJob
  <2>2. progressCurrent'[slotJob[s]] = q[1].current
    BY <1>2, <1>3, <2>1 DEF HandleProgress, TypeOK, RowTypes
  <2>3. ~NoReport(s)
    BY <1>2, <2>1 DEF NoReport
  <2>4. \A n : Reached(s, n) => Reached(s, n)'
    BY <1>1, <1>2, <2>1, <2>2, ReachedHandled
  <2>5. StartsWhereItStopped(s)'
    BY <1>1, <2>3 DEF DemoReports, StartsWhereItStopped
  <2>6. ReportsOfItsJob(s)'
    <3>1. \A i \in 1..Len(Tail(q)) : Tail(q)[i].type = "progress" => Tail(q)[i].job = slotJob[s]
      BY <1>2 DEF DemoReports, ReportsOfItsJob
    <3>2. ASSUME NEW i \in 1..Len(Tail(q)), NEW k \in 1..Len(Tail(q)),
                 IsEnd(Tail(q)[i]), Tail(q)[k].type = "progress"
          PROVE  k < i
      <4>1. IsEnd(q[i + 1]) /\ q[k + 1].type = "progress"
        BY <1>2, <3>2
      <4>2. k + 1 < i + 1
        BY <1>2, <4>1 DEF DemoReports, ReportsOfItsJob
      <4> QED BY <4>2
    <3> HIDE DEF q
    <3> QED BY <1>1, <2>1, <3>1, <3>2 DEF ReportsOfItsJob, IsEnd
  <2>7. StepsInOrder(s)'
    <3>1. PICK n : n = threadStep[s]
      OBVIOUS
    <3>2. ASSUME slotJob[s] # NoJob, jobType[slotJob[s]] = "demo", threadJob[s] # NoJob
          PROVE  Reached(s, threadStep[s])'
      <4>1. Reached(s, n)
        BY <3>1, <3>2 DEF DemoReports, StepsInOrder
      <4>2. Reached(s, n)'
        BY <2>4, <4>1
      <4>3. threadStep'[s] = n
        BY <1>1, <3>1
      <4> QED BY <4>2, <4>3 DEF Reached
    <3>3. ASSUME slotJob[s] # NoJob, jobType[slotJob[s]] = "demo",
                 NEW i \in 1..Len(Tail(q)), Tail(q)[i].type = "done"
          PROVE  Reached(s, Steps)'
      <4>1. Reached(s, Steps)
        BY <1>2, <3>3 DEF DemoReports, StepsInOrder
      <4> QED BY <2>4, <4>1
    <3> QED BY <1>1, <2>1, <3>2, <3>3 DEF StepsInOrder
  <2> QED BY <2>5, <2>6, <2>7 DEF DemoReports
<1>4. CASE HandleDone(s) \/ HandleError(s) \/ HandleCancelled(s)
  <2>1. IsEnd(q[1])
    BY <1>2, <1>4 DEF HandleDone, HandleError, HandleCancelled, Arrives, IsEnd, EndTypes
  <2>2. /\ threadJob[s] = NoJob
        /\ \A i \in 1..Len(inbox[s]) : inbox[s][i].type # "run"
        /\ \A i \in 1..Len(q) : i # 1 => ~IsEnd(q[i]) /\ q[i].type # "progress"
    <3>1. \A i \in 1..Len(q) : i # 1 => q[i].type # "progress"
      BY <1>2, <2>1 DEF DemoReports, ReportsOfItsJob
    <3> QED BY <1>2, <2>1, <3>1 DEF QueueInvariant, OneStage
  <2>3. \A i \in 1..Len(outbox'[s]) : outbox'[s][i].type \notin {"progress"} \cup EndTypes
    BY <1>1, <1>2, <2>2 DEF IsEnd
  <2> QED BY <1>1, <2>2, <2>3, DemoQuiet
<1>5. CASE HandleCrash(s)
  <2>1. q[1].type = "crash"
    BY <1>2, <1>5 DEF HandleCrash, Arrives
  <2>2. Len(q) = 1 /\ ~alive[s] /\ inbox[s] = <<>>
    BY <1>2, <2>1 DEF QueueInvariant, CrashIsLast
  <2>3. threadJob[s] = NoJob
    BY <2>2 DEF QueueInvariant, OneStage
  <2>4. Len(outbox'[s]) = 0
    BY <1>1, <1>2, <2>2
  <2>5. inbox'[s] = <<>> /\ threadJob'[s] = NoJob
    BY <1>1, <2>2, <2>3
  <2> QED BY <2>4, <2>5, DemoQuiet
<1> QED BY <1>3, <1>4, <1>5 DEF TakeMessage

\* Nothing else touches the reports of a slot.
LEMMA DemoSlotStep ==
  ASSUME TypeOK, QueueInvariant, RespawnsInOrder, [Next]_vars,
         \A s \in Slots : DemoReports(s), NEW t \in Slots
  PROVE  DemoReports(t)'
<1> USE DEF rowVars, mainVars, threadVars
<1>1. slotJob[t] # NoJob => slotJob[t] \in Jobs /\ status[slotJob[t]] = "running"
  BY DEF QueueInvariant, Ownership, TypeOK, MainTypes
<1>2. slotJob[t] # NoJob => jobType'[slotJob[t]] = jobType[slotJob[t]]
  BY <1>1, StepImplements, EndedStays
<1>3. ASSUME slotJob'[t] = slotJob[t], inbox'[t] = inbox[t], outbox'[t] = outbox[t],
             threadJob'[t] = threadJob[t], threadStep'[t] = threadStep[t],
             slotJob[t] # NoJob => progressCurrent'[slotJob[t]] = progressCurrent[slotJob[t]]
      PROVE  DemoReports(t)'
  BY <1>2, <1>3, DemoFrame
<1>4. ASSUME inbox'[t] = <<>>, outbox'[t] = <<>>, threadJob'[t] = NoJob
      PROVE  DemoReports(t)'
  BY <1>4, DemoQuiet
<1>5. CASE Boot \/ ProcessDies
  BY <1>3, <1>4, <1>5 DEF Boot, ProcessDies
<1>6. CASE UserCall
  <2>1. ASSUME NEW j \in Jobs,
               (\E u \in JobTypes : Enqueue(j, u)) \/ CancelQueued(j) \/ CancelEnded(j)
        PROVE  DemoReports(t)'
    BY <1>3, <2>1 DEF Enqueue, EnqueueRow, CancelQueued, CancelEnded
  <2>2. ASSUME NEW j \in Jobs, CancelRunning(j) PROVE DemoReports(t)'
    <3> DEFINE m == CancelMsg(j)
               q == inbox[t]
    <3>1. inbox'[t] \in {q, Append(q, m)}
      BY <2>2 DEF CancelRunning, PoolCancel, Post, TypeOK, ThreadTypes
    <3>2. m \in ToWorker /\ m.type = "cancel" /\ q \in Seq(ToWorker)
      BY ValueTypes, MessageTypes DEF CancelMsg
    <3> HIDE DEF m, q
    <3>3. \A i \in 1..Len(inbox'[t]) : inbox'[t][i].type = "run" =>
            i \in 1..Len(q) /\ inbox'[t][i] = q[i]
      <4>1. CASE inbox'[t] = q
        BY <4>1
      <4>2. CASE inbox'[t] = Append(q, m)
        <5>1. /\ Len(q) \in Nat /\ Len(inbox'[t]) = Len(q) + 1
              /\ \A i \in 1..Len(q) : inbox'[t][i] = q[i]
              /\ inbox'[t][Len(q) + 1] = m
          BY <3>2, <4>2
        <5>2. \A i \in 1..Len(inbox'[t]) : i \in 1..Len(q) \/ i = Len(q) + 1
          BY <5>1
        <5> QED BY <3>2, <5>1, <5>2
      <4> QED BY <3>1, <4>1, <4>2
    <3> QED BY <1>2, <2>2, <3>3, DemoFrame DEF CancelRunning, q
  <2> QED BY <1>6, <2>1, <2>2 DEF UserCall
<1>7. CASE RunHandler
  <2>1. ASSUME NEW j \in Jobs, PumpClaim(j) \/ EmitRescan(j) \/ BacklogEnqueue(j)
        PROVE  DemoReports(t)'
    BY <1>3, <2>1 DEF PumpClaim, EmitRescan, BacklogEnqueue, EnqueueRow
  <2>2. CASE PumpDropCancelled \/ PumpStop \/ EmitUnheard \/ SweepMissing \/ BacklogEmpty
    BY <1>3, <2>2 DEF PumpDropCancelled, PumpStop, EmitUnheard, SweepMissing, BacklogEmpty
  <2>3. ASSUME NEW s \in Slots, PumpDispatch(s) PROVE DemoReports(t)'
    <3>1. CASE t = s
      BY <2>3, <3>1, DemoDispatch
    <3>2. CASE t # s
      BY <1>3, <2>3, <3>2 DEF PumpDispatch, Post, TypeOK, MainTypes, ThreadTypes
    <3> QED BY <3>1, <3>2
  <2>4. CASE Respawn
    <3> DEFINE s == Head(todo).arg
    <3>1. 1 \in 1..Len(todo) /\ Head(todo) = todo[1] /\ todo[1].op = "respawn"
      BY <2>4 DEF Respawn, Doing, TypeOK, MainTypes
    <3>2. CASE t = s
      <4>1. ~alive[t]
        BY <3>1, <3>2 DEF RespawnsInOrder
      <4>2. threadJob[t] = NoJob
        BY <4>1 DEF QueueInvariant, OneStage
      <4> QED BY <1>4, <2>4, <3>2, <4>2 DEF Respawn, TypeOK, ThreadTypes
    <3>3. CASE t # s
      BY <1>3, <2>4, <3>3 DEF Respawn, TypeOK, ThreadTypes
    <3> QED BY <3>2, <3>3
  <2> QED BY <1>7, <2>1, <2>2, <2>3, <2>4 DEF RunHandler
<1>8. ASSUME NEW s \in Slots, TakeMessage(s), DemoReports(s) PROVE DemoReports(t)'
  <2>1. CASE t = s
    BY <1>8, <2>1, DemoTake
  <2>2. CASE t # s
    <3>1. UNCHANGED <<inbox, threadJob, threadStep>> /\ outbox'[t] = outbox[t]
          /\ slotJob'[t] = slotJob[t]
      BY <1>8, <2>2 DEF TakeMessage, HandleProgress, HandleDone, HandleError, HandleCancelled,
         HandleCrash, Arrives, FreeSlot, TypeOK, MainTypes, ThreadTypes
    <3>2. CASE HandleProgress(s)
      <4>1. outbox[s] # <<>> /\ Head(outbox[s]).type = "progress"
        BY <3>2 DEF HandleProgress, Arrives
      <4>2. 1 \in 1..Len(outbox[s]) /\ Head(outbox[s]) = outbox[s][1]
        BY <4>1, MessageTypes
      <4>3. Head(outbox[s]).job = slotJob[s] /\ slotJob[s] \in Jobs
        BY <1>8, <4>1, <4>2, MessageTypes DEF DemoReports, ReportsOfItsJob
      <4>4. slotJob[t] # slotJob[s]
        BY <2>2, <4>3 DEF QueueInvariant, Ownership, Jobs, NoJob
      <4>5. slotJob[t] # NoJob =>
              progressCurrent'[slotJob[t]] = progressCurrent[slotJob[t]]
        BY <1>1, <3>2, <4>3, <4>4 DEF HandleProgress, TypeOK, RowTypes
      <4> QED BY <1>3, <3>1, <4>5
    <3>3. CASE ~HandleProgress(s)
      <4>1. progressCurrent' = progressCurrent
        BY <1>8, <3>3 DEF TakeMessage, HandleDone, HandleError, HandleCancelled, HandleCrash
      <4> QED BY <1>3, <3>1, <4>1
    <3> QED BY <3>2, <3>3
  <2> QED BY <2>1, <2>2
<1>9. ASSUME NEW s \in Slots, WorkerReceives(s) \/ RunnerWorks(s) \/ WorkerCrash(s)
      PROVE  DemoReports(t)'
  <2>1. CASE t = s
    BY <1>9, <2>1, DemoThreadStep
  <2>2. CASE t # s
    BY <1>3, <1>9, <2>2 DEF WorkerReceives, ReceiveCancel, ReceiveRun, ResetFlag, RunnerWorks,
       DemoStep, ReportBatch, RunnerReturns, RunnerThrows, RunnerLeaves, WorkerCrash, Send,
       TypeOK, ThreadTypes
  <2> QED BY <2>1, <2>2
<1>10. CASE UNCHANGED vars
  BY <1>3, <1>10 DEF vars
<1> QED BY <1>5, <1>6, <1>7, <1>8, <1>9, <1>10 DEF Next

\* Every step keeps the reports unbroken.
LEMMA DemoStepKept ==
  TypeOK /\ QueueInvariant /\ RespawnsInOrder /\ DemoInvariant /\ [Next]_vars => DemoInvariant'
<1> SUFFICES ASSUME TypeOK, QueueInvariant, RespawnsInOrder, DemoInvariant, [Next]_vars
             PROVE  DemoInvariant'
  OBVIOUS
<1> USE DEF rowVars, mainVars, threadVars
<1>1. \A t \in Slots : DemoReports(t)'
  BY DemoSlotStep DEF DemoInvariant
<1>2. \A j \in Jobs : status[j] = "completed" =>
        status'[j] = "completed" /\ jobType'[j] = jobType[j]
  <2>1. \A j \in Jobs : status[j] \in Terminal => status'[j] = status[j]
    BY StepImplements, EndedStays
  <2>2. \A j \in Jobs : status[j] # "absent" => jobType'[j] = jobType[j]
    BY StepImplements, EndedStays
  <2> QED BY <2>1, <2>2 DEF Terminal
<1>3. ASSUME NEW j \in Jobs, status'[j] = "completed", jobType'[j] = "demo"
      PROVE  progressCurrent'[j] = Steps
  <2>1. CASE status[j] = "completed" /\ progressCurrent'[j] = progressCurrent[j]
    BY <1>2, <1>3, <2>1 DEF DemoInvariant, CompletedDemoRanEveryStep
  <2>2. CASE progressCurrent' = progressCurrent /\ status[j] # "completed"
    <3>1. PICK s \in Slots : HandleDone(s)
      <4>1. ASSUME NEW s \in Slots, TakeMessage(s), ~HandleDone(s) PROVE FALSE
        BY <1>3, <2>2, <4>1 DEF TakeMessage, HandleProgress, HandleError, HandleCancelled,
           HandleCrash, EndRow, TypeOK, RowTypes
      <4>2. CASE Boot \/ ProcessDies
        BY <1>3, <2>2, <4>2 DEF Boot, RequeueOrphaned, ProcessDies
      <4>3. CASE UserCall
        BY <1>3, <2>2, <4>3 DEF UserCall, Enqueue, EnqueueRow, CancelQueued, CancelRunning,
           CancelEnded, TypeOK, RowTypes
      <4>4. CASE RunHandler
        BY <1>3, <2>2, <4>4 DEF RunHandler, PumpClaim, PumpDropCancelled, EndRow, PumpDispatch,
           PumpStop, EmitUnheard, EmitRescan, EnqueueRow, SweepMissing, BacklogEmpty,
           BacklogEnqueue, Respawn, TypeOK, RowTypes
      <4>5. ASSUME NEW s \in Slots, WorkerReceives(s) \/ RunnerWorks(s) \/ WorkerCrash(s)
            PROVE  FALSE
        BY <1>3, <2>2, <4>5 DEF WorkerReceives, ReceiveCancel, ReceiveRun, RunnerWorks,
           DemoStep, ReportBatch, RunnerReturns, RunnerThrows, RunnerLeaves, WorkerCrash
      <4>6. CASE UNCHANGED vars
        BY <1>3, <2>2, <4>6 DEF vars
      <4> QED BY <4>1, <4>2, <4>3, <4>4, <4>5, <4>6 DEF Next
    <3> DEFINE q == outbox[s]
    <3>2. /\ Head(q).job = slotJob[s] /\ slotJob[s] \in Jobs /\ slotJob[s] # NoJob
          /\ q # <<>> /\ Head(q).type = "done" /\ jobType' = jobType
          /\ j = slotJob[s]
      <4>1. Head(q).job = slotJob[s] /\ slotJob[s] \in Jobs /\ slotJob[s] # NoJob
        BY <3>1, EndsItsSlotsJob DEF HandleDone, EndTypes
      <4>2. j = Head(q).job
        BY <1>3, <2>2, <3>1, <4>1 DEF HandleDone, EndRow, TypeOK, RowTypes
      <4> QED BY <3>1, <4>1, <4>2 DEF HandleDone, Arrives
    <3>3. 1 \in 1..Len(q) /\ q[1].type = "done" /\ Len(q) \in Nat
      BY <3>2, MessageTypes
    <3>4. DemoReports(s)
      BY DEF DemoInvariant
    <3>5. Reached(s, Steps)
      BY <1>3, <3>2, <3>3, <3>4 DEF DemoReports, StepsInOrder
    <3>6. NoReport(s)
      <4>1. \A k \in 1..Len(q) : ~(k < 1)
        OBVIOUS
      <4> QED BY <3>3, <3>4, <4>1 DEF DemoReports, ReportsOfItsJob, NoReport, IsEnd, EndTypes
    <3> QED BY <2>2, <3>2, <3>5, <3>6 DEF Reached
  <2>3. ASSUME progressCurrent' # progressCurrent
        PROVE  status[j] = "completed" /\ progressCurrent'[j] = progressCurrent[j]
    <3>1. PICK s \in Slots : HandleProgress(s)
      <4>1. ASSUME NEW s \in Slots, TakeMessage(s), ~HandleProgress(s) PROVE FALSE
        BY <2>3, <4>1 DEF TakeMessage, HandleDone, HandleError, HandleCancelled, HandleCrash
      <4>2. CASE Boot \/ ProcessDies \/ UserCall
        BY <2>3, <4>2 DEF Boot, ProcessDies, UserCall, Enqueue, EnqueueRow, CancelQueued,
           CancelRunning, CancelEnded
      <4>3. CASE RunHandler
        BY <2>3, <4>3 DEF RunHandler, PumpClaim, PumpDropCancelled, PumpDispatch, PumpStop,
           EmitUnheard, EmitRescan, EnqueueRow, SweepMissing, BacklogEmpty, BacklogEnqueue,
           Respawn
      <4>4. ASSUME NEW s \in Slots, WorkerReceives(s) \/ RunnerWorks(s) \/ WorkerCrash(s)
            PROVE  FALSE
        BY <2>3, <4>4 DEF WorkerReceives, ReceiveCancel, ReceiveRun, RunnerWorks,
           DemoStep, ReportBatch, RunnerReturns, RunnerThrows, RunnerLeaves, WorkerCrash
      <4>5. CASE UNCHANGED vars
        BY <2>3, <4>5 DEF vars
      <4> QED BY <4>1, <4>2, <4>3, <4>4, <4>5 DEF Next
    <3>2. outbox[s] # <<>> /\ Head(outbox[s]).type = "progress" /\ UNCHANGED status
      BY <3>1 DEF HandleProgress, Arrives
    <3>3. 1 \in 1..Len(outbox[s]) /\ Head(outbox[s]) = outbox[s][1]
      BY <3>2, MessageTypes
    <3>4. Head(outbox[s]).job = slotJob[s] /\ slotJob[s] \in Jobs
      BY <3>2, <3>3, MessageTypes DEF DemoInvariant, DemoReports, ReportsOfItsJob
    <3>5. status[slotJob[s]] = "running"
      BY <3>4 DEF QueueInvariant, Ownership, Jobs, NoJob
    <3>6. j # slotJob[s]
      BY <1>3, <3>2, <3>5
    <3> QED BY <1>3, <3>1, <3>2, <3>4, <3>6 DEF HandleProgress, TypeOK, RowTypes
  <2> QED BY <1>2, <1>3, <2>1, <2>2, <2>3
<1> QED BY <1>1, <1>3 DEF DemoInvariant, CompletedDemoRanEveryStep

\* The persisted progress of a demo job that completed is its last step, whatever was
\* cancelled, crashed and restarted in between (runDemoJob, resumeFrom and updateProgress).
THEOREM DemosRunEveryStep == Spec => []CompletedDemoRanEveryStep
<1>1. Init => RespawnsInOrder
  BY DEF Init, RespawnsInOrder
<1>2. Init => DemoInvariant
  BY DEF Init, LifecycleInit, DemoInvariant, CompletedDemoRanEveryStep, DemoReports,
     ReportsOfItsJob, StartsWhereItStopped, StepsInOrder
<1>3. DemoInvariant => CompletedDemoRanEveryStep
  BY DEF DemoInvariant
<1> QED BY <1>1, <1>2, <1>3, RespawnsStep, DemoStepKept, TypeCorrect, QueueIsSafe, PTL DEF Spec

=============================================================================
