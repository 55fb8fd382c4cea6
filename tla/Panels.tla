------------------------------- MODULE Panels -------------------------------
(***************************************************************************)
(* What the window shows of the main process: the global progress          *)
(* indicator and the watch-folder rows, fed by calls, their replies and    *)
(* pushed events.  A page may be loaded again, and the developer tools     *)
(* that hold the rows opened and closed, with calls on their way.          *)
(*                                                                         *)
(* Of the main process there is what the window can see: the jobs, as      *)
(* JobLifecycle promises them, and the modes of the folders.  Electron     *)
(* keeps the messages of one page in order, replies among them, and drops  *)
(* those for a page that is gone.                                          *)
(***************************************************************************)
EXTENDS Naturals, Sequences, FiniteSets, FiniteSetsExt, SequencesExt

CONSTANTS
  Folders,                 \* watch folders
  PoolSize,                \* jobs that run at a time
  MaxJobs,                 \* bound: jobs enqueued before no more scans are asked for
  MaxLives,                \* bound: loads of the page and openings of the tools
  MaxCalls,                \* bound: calls on their way
  MaxWire                  \* bound: messages on their way, for what is pushed unasked

ASSUME PanelsAssumption ==
  IsFiniteSet(Folders) /\ {PoolSize, MaxJobs, MaxLives, MaxCalls, MaxWire} \subseteq Nat

VARIABLES
  jobs,                    \* main: the jobs in the order they were enqueued
  kept,                    \* main: the folders that have a row
  flag,                    \* main: folder -> liveWatchEnabled
  mode,                    \* main: folder -> mode in the watch manager
  ready,                   \* main: folder -> has its watcher reported ready
  waiting,                 \* main: folder -> the lives whose setLiveWatch awaits ready()
  calls,                   \* renderer to main, in order
  wire,                    \* main to renderer, in order
  life,                    \* loads and openings so far: a call is of the life that made it
  page,                    \* the life that loaded the page, 0 before the first
  header,                  \* activeJob of GlobalScanProgress, or NoEvent
  ended,                   \* history: has a job ended since the page was loaded
  tools,                   \* are the developer tools open
  listed,                  \* query cache: folder -> its flag, "absent" if it has no row
  folderByJob,             \* WatchFolders: job -> folder, for the scans it started
  scanEvents,              \* WatchFolders: folder -> latest event, or NoEvent
  watchStatus,             \* WatchFolders: folder -> mode of the latest event, or "none"
  toggling,                \* WatchFolders: the folder setLiveWatchMutation is pending for
  removing                 \* WatchFolders: is removeMutation pending

main == <<jobs, kept, flag, mode, ready, waiting>>
panel == <<folderByJob, scanEvents, watchStatus, toggling, removing>>
window == <<life, page, header, tools, listed, panel>>
vars == <<main, calls, wire, window, ended>>

NoEvent == [job |-> 0, status |-> "none"]
NoFolder == "none"
Active == {"queued", "running"}

ActiveJobs == {i \in 1..Len(jobs) : jobs[i].status \in Active}

\* broadcastIpcEvent and the replies: nobody listens before the first page
Send(messages) == wire' = IF page = 0 THEN wire ELSE wire \o messages

Progress(i, status) == [msg |-> "progress", job |-> i, status |-> status]
Status(f, m) == [msg |-> "status", folder |-> f, mode |-> m]
Call(name, f) == [call |-> name, folder |-> f, life |-> life]

\* watchFolders.list, of a mount or of a mutation that is pending until it is answered
ListCall(n, asker) ==
  [call |-> "watchFolders.list", folder |-> NoFolder, life |-> n, asker |-> asker]

ResetPanel ==
  /\ folderByJob' = <<>>
  /\ scanEvents' = [f \in Folders |-> NoEvent]
  /\ watchStatus' = [f \in Folders |-> "none"]
  /\ toggling' = NoFolder
  /\ removing' = FALSE

\* The process has started: a folder that opts in is watched
Init ==
  /\ jobs = <<>>
  /\ kept = Folders
  /\ flag \in [Folders -> BOOLEAN]
  /\ mode = [f \in Folders |-> IF flag[f] THEN "watching" ELSE "off"]
  /\ ready = [f \in Folders |-> FALSE]
  /\ waiting = [f \in Folders |-> {}]
  /\ calls = <<>> /\ wire = <<>>
  /\ life = 0 /\ page = 0
  /\ header = NoEvent
  /\ ended = FALSE
  /\ tools = FALSE
  /\ listed = [f \in Folders |-> "absent"]
  /\ folderByJob = <<>>
  /\ scanEvents = [f \in Folders |-> NoEvent]
  /\ watchStatus = [f \in Folders |-> "none"]
  /\ toggling = NoFolder
  /\ removing = FALSE

-----------------------------------------------------------------------------
(* The main process: jobs.                                                  *)

Running == {i \in 1..Len(jobs) : jobs[i].status = "running"}

\* enqueueScan and the pump: the events of the new job, among what its caller sends
EnqueueScan(f, before, after) ==
  LET i == Len(jobs) + 1
      starts == Cardinality(Running) < PoolSize
  IN /\ jobs' = Append(jobs, [folder |-> f, status |-> IF starts THEN "running" ELSE "queued"])
     /\ Send(before \o <<Progress(i, "queued")>>
             \o (IF starts THEN <<Progress(i, "running")>> ELSE <<>>) \o after)

\* A scan no call asked for: a debounce, a fallback tick
ScanUnasked(f) ==
  /\ mode[f] \in {"watching", "fallback"}
  /\ Len(jobs) < MaxJobs /\ Len(wire) < MaxWire
  /\ EnqueueScan(f, <<>>, <<>>)
  /\ UNCHANGED <<kept, flag, mode, ready, waiting, calls, window, ended>>

\* onProgress
Tick(i) ==
  /\ i \in Running /\ Len(wire) < MaxWire
  /\ Send(<<Progress(i, "running")>>)
  /\ UNCHANGED <<main, calls, window, ended>>

\* onDone, onError or onCancelled, and the pump
End(i) ==
  LET queued == {k \in 1..Len(jobs) : jobs[k].status = "queued"}
      next == IF queued = {} THEN 0 ELSE Min(queued)
  IN /\ i \in Running /\ Len(wire) < MaxWire
     /\ jobs' = [k \in 1..Len(jobs) |->
                   CASE k = i -> [jobs[k] EXCEPT !.status = "over"]
                     [] k = next -> [jobs[k] EXCEPT !.status = "running"]
                     [] OTHER -> jobs[k]]
     /\ Send(<<Progress(i, "over")>>
             \o (IF next = 0 THEN <<>> ELSE <<Progress(next, "running")>>))
     /\ ended' = (page # 0)
     /\ UNCHANGED <<kept, flag, mode, ready, waiting, calls, window>>

-----------------------------------------------------------------------------
(* The main process: the handlers of the calls.                             *)

\* The reply of a handler: ok, or the error it threw; the job it started, if any
Reply(call, ok, job) ==
  [msg |-> call.call, folder |-> call.folder, life |-> call.life, ok |-> ok, job |-> job]

Take(name) == calls # <<>> /\ Head(calls).call = name /\ calls' = Tail(calls)

\* Mutant: the seed is the head of the list, in flight or not.
ListFirstJob ==
  /\ Take("jobs.list")
  /\ LET seed == IF 1 \in ActiveJobs THEN [job |-> 1, status |-> jobs[1].status] ELSE NoEvent
     IN Send(<<[msg |-> "jobs.list", life |-> Head(calls).life, seed |-> seed]>>)
  /\ UNCHANGED <<main, window, ended>>

\* jobs.list: of the whole list the renderer uses the first job in flight
ListJobs ==
  /\ Take("jobs.list")
  /\ LET i == Min(ActiveJobs)
         seed == IF ActiveJobs = {} THEN NoEvent ELSE [job |-> i, status |-> jobs[i].status]
     IN Send(<<[msg |-> "jobs.list", life |-> Head(calls).life, seed |-> seed]>>)
  /\ UNCHANGED <<main, window, ended>>

ListFolders ==
  /\ Take("watchFolders.list")
  /\ Send(<<[msg |-> "watchFolders.list", life |-> Head(calls).life, asker |-> Head(calls).asker,
             rows |-> [f \in Folders |-> IF f \notin kept THEN "absent"
                                         ELSE IF flag[f] THEN "on" ELSE "off"]]>>)
  /\ UNCHANGED <<main, window, ended>>

\* jobs.enqueueScan: the events of the job leave before its id does
StartScan ==
  LET call == Head(calls)
  IN /\ Take("jobs.enqueueScan")
     /\ \/ call.folder \in kept /\ EnqueueScan(call.folder, <<>>, <<Reply(call, TRUE, Len(jobs) + 1)>>)
        \/ call.folder \notin kept /\ Send(<<Reply(call, FALSE, 0)>>) /\ UNCHANGED jobs
     /\ UNCHANGED <<kept, flag, mode, ready, waiting, window, ended>>

\* stop(id), which closes the watcher and reports nothing, then the delete, which the
\* foreign key refuses once the folder has been scanned.  ready() of a watcher that is
\* closed before it was ready never resolves.
RemoveFolder ==
  LET call == Head(calls)
      f == call.folder
      scanned == \E i \in 1..Len(jobs) : jobs[i].folder = f
  IN /\ Take("watchFolders.remove")
     /\ mode' = [mode EXCEPT ![f] = "forgotten"]
     /\ ready' = [ready EXCEPT ![f] = FALSE]
     /\ waiting' = [waiting EXCEPT ![f] = {}]
     /\ kept' = IF scanned THEN kept ELSE kept \ {f}
     /\ Send(<<Reply(call, ~scanned, 0)>>)
     /\ UNCHANGED <<jobs, flag, window, ended>>

\* setLiveWatch(id, true): the flag, then attachWatcher with its catch-up scan, deferred
\* when another is in flight; the reply waits for ready()
Attach(call) ==
  LET f == call.folder
      status == <<Status(f, "watching")>>
  IN /\ mode[f] \in {"off", "fallback"}
     /\ mode' = [mode EXCEPT ![f] = "watching"]
     /\ ready' = [ready EXCEPT ![f] = FALSE]
     /\ waiting' = [waiting EXCEPT ![f] = {call.life}]
     /\ \/ Len(jobs) < MaxJobs /\ EnqueueScan(f, status, <<>>)
        \/ Send(status) /\ UNCHANGED jobs

AttachAgain(call) ==
  LET f == call.folder
  IN /\ mode[f] \in {"watching", "forgotten"}
     /\ \/ /\ mode[f] = "watching" /\ ~ready[f]
           /\ waiting' = [waiting EXCEPT ![f] = @ \cup {call.life}]
           /\ UNCHANGED wire
        \/ /\ mode[f] = "forgotten" \/ ready[f]
           /\ Send(<<Reply(call, TRUE, 0)>>)
           /\ UNCHANGED waiting
     /\ UNCHANGED <<jobs, mode, ready>>

Enable ==
  LET call == Head(calls)
  IN /\ Take("enable")
     /\ call.folder \in kept
     /\ flag' = [flag EXCEPT ![call.folder] = TRUE]
     /\ Attach(call) \/ AttachAgain(call)
     /\ UNCHANGED <<kept, window, ended>>

\* setLiveWatch(id, false): deactivate closes the watcher
Disable ==
  LET call == Head(calls)
      f == call.folder
      off == IF mode[f] \in {"watching", "fallback"} THEN <<Status(f, "off")>> ELSE <<>>
  IN /\ Take("disable")
     /\ f \in kept
     /\ flag' = [flag EXCEPT ![f] = FALSE]
     /\ mode' = [mode EXCEPT ![f] = IF @ = "forgotten" THEN @ ELSE "off"]
     /\ ready' = [ready EXCEPT ![f] = FALSE]
     /\ waiting' = [waiting EXCEPT ![f] = {}]
     /\ Send(off \o <<Reply(call, TRUE, 0)>>)
     /\ UNCHANGED <<jobs, kept, window, ended>>

RefuseToggle ==
  /\ Take("enable") \/ Take("disable")
  /\ Head(calls).folder \notin kept
  /\ Send(<<Reply(Head(calls), FALSE, 0)>>)
  /\ UNCHANGED <<main, window, ended>>

Answer(f) ==
  SetToSeq({Reply([call |-> "enable", folder |-> f, life |-> l], TRUE, 0) : l \in waiting[f]})

\* chokidar's ready, or an error that is no limit before it
WatcherReady(f) ==
  /\ mode[f] = "watching" /\ ~ready[f]
  /\ ready' = [ready EXCEPT ![f] = TRUE]
  /\ waiting' = [waiting EXCEPT ![f] = {}]
  /\ Send(Answer(f))
  /\ UNCHANGED <<jobs, kept, flag, mode, calls, window, ended>>

\* Mutant: the fallback is not reported.
FallBackInSilence(f) ==
  /\ mode[f] = "watching" /\ Len(wire) < MaxWire
  /\ mode' = [mode EXCEPT ![f] = "fallback"]
  /\ waiting' = [waiting EXCEPT ![f] = {}]
  /\ ready' = [ready EXCEPT ![f] = FALSE]
  /\ Send(Answer(f))
  /\ UNCHANGED <<jobs, kept, flag, calls, window, ended>>

\* Mutant: an error does not settle ready().
LimitLeavesWaiting(f) ==
  /\ mode[f] = "watching" /\ Len(wire) < MaxWire
  /\ mode' = [mode EXCEPT ![f] = "fallback"]
  /\ ready' = [ready EXCEPT ![f] = FALSE]
  /\ waiting' = [waiting EXCEPT ![f] = {}]
  /\ Send(<<Status(f, "fallback")>>)
  /\ UNCHANGED <<jobs, kept, flag, calls, window, ended>>

\* ENOSPC, EMFILE or ENFILE: enterFallback; the error settles ready() too
WatcherLimit(f) ==
  /\ mode[f] = "watching" /\ Len(wire) < MaxWire
  /\ mode' = [mode EXCEPT ![f] = "fallback"]
  /\ ready' = [ready EXCEPT ![f] = FALSE]
  /\ waiting' = [waiting EXCEPT ![f] = {}]
  /\ Send(<<Status(f, "fallback")>> \o Answer(f))
  /\ UNCHANGED <<jobs, kept, flag, calls, window, ended>>

Handle ==
  \/ ListJobs \/ ListFolders \/ StartScan \/ RemoveFolder \/ Enable \/ Disable \/ RefuseToggle

-----------------------------------------------------------------------------
(* The window: what the user does.                                          *)

\* The effects of the mount: the seed is asked for, and the events are listened to
Load ==
  /\ life < MaxLives
  /\ life' = life + 1 /\ page' = life + 1
  /\ tools' = FALSE
  /\ header' = NoEvent
  /\ ended' = FALSE
  /\ listed' = [f \in Folders |-> "absent"]
  /\ ResetPanel
  /\ wire' = <<>>
  /\ calls' = Append(calls, [call |-> "jobs.list", folder |-> NoFolder, life |-> life + 1])
  /\ UNCHANGED main

OpenTools ==
  /\ page # 0 /\ ~tools /\ life < MaxLives
  /\ life' = life + 1
  /\ tools' = TRUE
  /\ ResetPanel
  /\ calls' = Append(calls, ListCall(life + 1, "mount"))
  /\ UNCHANGED <<main, wire, page, header, listed, ended>>

CloseTools ==
  /\ tools
  /\ tools' = FALSE
  /\ ResetPanel
  /\ UNCHANGED <<main, calls, wire, life, page, header, listed, ended>>

\* Bound: the user waits while much is on its way
Asks(name, f) ==
  /\ tools /\ listed[f] # "absent"
  /\ Len(calls) < MaxCalls /\ Len(wire) < MaxWire
  /\ calls' = Append(calls, Call(name, f))

\* Bound: a scan is asked for while one more can be enqueued
ClickScan(f) ==
  /\ Asks("jobs.enqueueScan", f)
  /\ Len(jobs) + Len(SelectSeq(calls, LAMBDA c : c.call # "jobs.list")) < MaxJobs
  /\ UNCHANGED <<main, wire, window, ended>>

\* The buttons of all rows are disabled while the mutation behind them is pending.
ClickRemove(f) ==
  /\ ~removing
  /\ Asks("watchFolders.remove", f)
  /\ removing' = TRUE
  /\ UNCHANGED <<main, wire, life, page, header, tools, listed, folderByJob, scanEvents,
                 watchStatus, toggling, ended>>

ClickToggle(f) ==
  /\ toggling = NoFolder
  /\ Asks(IF listed[f] = "on" THEN "disable" ELSE "enable", f)
  /\ toggling' = f
  /\ UNCHANGED <<main, wire, life, page, header, tools, listed, folderByJob, scanEvents,
                 watchStatus, removing, ended>>

-----------------------------------------------------------------------------
(* The window: what it hears.  A reply to a life that is over changes nothing. *)

Hear(message) == wire # <<>> /\ Head(wire).msg = message /\ wire' = Tail(wire)

\* Mutant: an end leaves the indicator as it is.
HeaderIfActive(event) == IF event.status \in Active THEN event ELSE header

\* GlobalScanProgress: a job that is over clears it, whichever it was
HeaderAfter(event) == IF event.status \in Active THEN event ELSE NoEvent

\* Mutant: the rows take the header's filter.
RowsIfActive(event) ==
  IF tools /\ event.job \in DOMAIN folderByJob /\ event.status \in Active
  THEN [scanEvents EXCEPT ![folderByJob[event.job]] = event] ELSE scanEvents

\* WatchFolders: an event of a scan it does not know is dropped
RowsAfter(event) ==
  IF tools /\ event.job \in DOMAIN folderByJob
  THEN [scanEvents EXCEPT ![folderByJob[event.job]] = event] ELSE scanEvents

HearProgress ==
  LET event == [job |-> Head(wire).job, status |-> Head(wire).status]
  IN /\ Hear("progress")
     /\ header' = HeaderAfter(event)
     /\ scanEvents' = RowsAfter(event)
     /\ UNCHANGED <<main, calls, life, page, tools, listed, folderByJob, watchStatus, toggling,
                    removing, ended>>

HearStatus ==
  /\ Hear("status")
  /\ watchStatus' = IF tools THEN [watchStatus EXCEPT ![Head(wire).folder] = Head(wire).mode]
                    ELSE watchStatus
  /\ UNCHANGED <<main, calls, life, page, header, tools, listed, folderByJob, scanEvents,
                 toggling, removing, ended>>

HearJobs ==
  /\ Hear("jobs.list")
  /\ header' = IF Head(wire).life = page /\ Head(wire).seed # NoEvent THEN Head(wire).seed ELSE header
  /\ UNCHANGED <<main, calls, life, page, tools, listed, panel, ended>>

Mine == tools /\ Head(wire).life = life

\* handleScan: from here on the job's events are the row's
HearScan ==
  LET m == Head(wire)
  IN /\ Hear("jobs.enqueueScan")
     /\ \/ /\ Mine /\ m.ok
           /\ folderByJob' = [i \in DOMAIN folderByJob \cup {m.job} |->
                               IF i = m.job THEN m.folder ELSE folderByJob[i]]
           /\ scanEvents' = [scanEvents EXCEPT ![m.folder] = NoEvent]
        \/ ~(Mine /\ m.ok) /\ UNCHANGED <<folderByJob, scanEvents>>
     /\ UNCHANGED <<main, calls, life, page, header, tools, listed, watchStatus, toggling,
                    removing, ended>>

\* The cache belongs to the page, not to the panel; a mutation that waited for it is done.
HearFolders ==
  LET m == Head(wire)
  IN /\ Hear("watchFolders.list")
     /\ listed' = IF m.life >= page THEN m.rows ELSE listed
     /\ toggling' = IF Mine /\ m.asker = "toggle" THEN NoFolder ELSE toggling
     /\ removing' = (removing /\ ~(Mine /\ m.asker = "remove"))
     /\ UNCHANGED <<main, calls, life, page, header, tools, folderByJob, scanEvents, watchStatus,
                    ended>>

\* onSuccess: the list is asked for again while the panel is there to show it, by the
\* mutation or by one of a panel that is closed
Refetch(asker) ==
  calls' = IF tools /\ Head(wire).ok
           THEN Append(calls, ListCall(life, IF Mine THEN asker ELSE "closed")) ELSE calls

\* The handler threw: the mutation is over at once
Fails == Mine /\ ~Head(wire).ok

HearRemoved ==
  /\ Hear("watchFolders.remove")
  /\ removing' = (removing /\ ~Fails)
  /\ Refetch("remove")
  /\ UNCHANGED <<main, life, page, header, tools, listed, folderByJob, scanEvents, watchStatus,
                 toggling, ended>>

HearToggled ==
  /\ Hear("enable") \/ Hear("disable")
  /\ toggling' = IF Fails THEN NoFolder ELSE toggling
  /\ Refetch("toggle")
  /\ UNCHANGED <<main, life, page, header, tools, listed, folderByJob, scanEvents, watchStatus,
                 removing, ended>>

HearAny ==
  \/ HearProgress \/ HearStatus \/ HearJobs \/ HearFolders
  \/ HearScan \/ HearRemoved \/ HearToggled

Next ==
  \/ Handle \/ HearAny
  \/ Load \/ OpenTools \/ CloseTools
  \/ \E f \in Folders :
       \/ ScanUnasked(f) \/ WatcherReady(f) \/ WatcherLimit(f)
       \/ ClickScan(f) \/ ClickRemove(f) \/ ClickToggle(f)
  \/ \E i \in 1..Len(jobs) : Tick(i) \/ End(i)

Spec == Init /\ [][Next]_vars

\* The two event loops run what they are given, and a watcher gets ready in the end.
FairSpec ==
  /\ Spec
  /\ WF_vars(Handle) /\ WF_vars(HearAny)
  /\ \A f \in Folders : WF_vars(WatcherReady(f))

-----------------------------------------------------------------------------
(* Properties.                                                              *)

Heard == page # 0 /\ wire = <<>>

(* Once the window has heard everything, the indicator shows no job but one that is in that
   state: a seed overtaken by events, or an end that was missed on a load, would leave it
   spinning.  (GlobalScanProgress.tsx: "Renders nothing when no job is queued/running.")  *)
HeaderIsTrue ==
  Heard /\ header # NoEvent => jobs[header.job].status = header.status

(* A page loaded while work goes on shows that work, until a job ends: what the jobs.list
   snapshot misses, the events bring.  (GlobalScanProgress.tsx: "seeds from jobs.list so a
   reload mid-scan still shows progress immediately, then subscribes")                    *)
HeaderShowsWork ==
  /\ Heard /\ ~ended
  /\ \A n \in 1..Len(calls) : calls[n].call # "jobs.list" \/ calls[n].life # page
  /\ ActiveJobs # {}
  => header # NoEvent

(* The row of a scan started from it shows that it is over when it is, although the events
   sent before the reply are dropped and several scans of one folder may be under way.
   (WatchFolders.tsx: "trigger a scan whose live progress is shown per row")              *)
RowShowsTheEnd ==
  \A f \in Folders :
    LET scans == {i \in DOMAIN folderByJob : folderByJob[i] = f}
    IN Heard /\ tools /\ scans # {} /\ scans \cap ActiveJobs = {} => scanEvents[f].status = "over"

(* Once every call is handled and all is heard, a row says "off" exactly for a folder that
   is not watched, and names the mode if it heard of one, except after a refused removal.
   (WatchFolders.tsx: "that event's mode always wins once received, since it reflects the
   actual runtime state")                                                                 *)
RowTellsTheMode ==
  Heard /\ tools /\ calls = <<>> =>
    \A f \in Folders :
      listed[f] # "absent" /\ mode[f] # "forgotten" =>
        LET seeded == IF listed[f] = "on" THEN "watching" ELSE "off"
            label == IF watchStatus[f] = "none" THEN seeded ELSE watchStatus[f]
        IN /\ label = "off" <=> mode[f] = "off"
           /\ watchStatus[f] # "none" => watchStatus[f] = mode[f]

(* The live-watch buttons come back, whatever the watcher does, unless the folder is removed
   meanwhile.  (types.ts, on ready(): "so a caller awaiting this can never hang forever on
   a setup failure")                                                                      *)
TogglesComeBack ==
  \A f \in Folders : toggling = f ~> toggling # f \/ mode[f] = "forgotten"
=============================================================================
