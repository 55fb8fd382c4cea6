---------------------------- MODULE WatchManager ----------------------------
(***************************************************************************)
(* The live-watch state machine: one watcher, one debounce timer, one      *)
(* fallback interval and one in-flight scan per folder, with the calls     *)
(* main/index.ts binds to it and the watch_folders rows they keep.         *)
(*                                                                         *)
(* The job queue is seen from outside, as JobLifecycle promises it: a scan *)
(* is queued, claimed (its walk begins), and ended with one terminal event *)
(* that reaches this manager in the handler that ended it.  The identity   *)
(* of a scan that nothing refers to any more is used again.                *)
(***************************************************************************)
EXTENDS Naturals, FiniteSets

CONSTANTS
  Folders,               \* watch-folder ids
  Scans,                 \* identities of scan jobs; bound: how many exist at a time
  MaxRestarts            \* bound: deaths of the process

NoScan == "none"         \* the null of inFlightJobId
TheUser == 0             \* who asked for a scan the manager knows nothing of

ASSUME WatchAssumption ==
  IsFiniteSet(Folders) /\ IsFiniteSet(Scans) /\ NoScan \notin Scans /\ MaxRestarts \in Nat

VARIABLES
  row,                   \* folder -> "none" or "kept" in watch_folders
  liveWatchEnabled,      \* folder -> the row's opt-in flag
  referenced,            \* folders that some scan_jobs row refers to, for ever
  scan,                  \* scan -> "unused", "queued" or "running"
  scanFolder,            \* scan -> its folder
  requestedBy,           \* history: scan -> the process whose manager asked for it, or TheUser
  cancelRequested,       \* running scans the user cancelled; the flag of the row stays when
                         \* the scan is requeued
  up,                    \* is the main process running
  toAttach,              \* main thread, at boot: folders start() has still to attach
  event,                 \* main thread: the scan whose terminal event is being delivered
  mode,                  \* folder -> FolderState.mode, "forgotten" when not in the map
  debounce,              \* folder -> is debounceTimer armed
  fallbackTimer,         \* folder -> is the fallback interval running
  inFlightJobId,         \* folder -> scan or NoScan
  pendingRescan,         \* folder -> was a firing suppressed
  owed,                  \* history: folder -> a change was reported and no walk began since
  withdrawn,             \* history: folder -> the user cancelled the last that stood for it
  restarts

queueVars == <<referenced, scan, scanFolder, requestedBy, cancelRequested>>
rowVars == <<row, liveWatchEnabled>>
folderVars == <<mode, debounce, fallbackTimer, inFlightJobId, pendingRescan>>
threadVars == <<up, toAttach, event>>
changeVars == <<owed, withdrawn>>
vars == <<rowVars, queueVars, threadVars, folderVars, changeVars, restarts>>

Live == {"watching", "fallback"}

AtRest == up /\ toAttach = {} /\ event = NoScan

\* The number of the process that runs, or of the next one
Process == restarts + 1

-----------------------------------------------------------------------------
(* The queue as the manager sees it.                                       *)

\* An identity nothing refers to; the one whose end is being delivered may come back
Free(j) == scan[j] = "unused" /\ (j = event \/ \A g \in Folders : inFlightJobId[g] # j)

\* Which of them makes no difference
Fresh(j) == Free(j) /\ j = CHOOSE k \in Scans : Free(k)

EnqueueScan(f, j) ==
  /\ Fresh(j)
  /\ scan' = [scan EXCEPT ![j] = "queued"]
  /\ scanFolder' = [scanFolder EXCEPT ![j] = f]
  /\ referenced' = referenced \cup {f}
  /\ UNCHANGED cancelRequested

\* A scan the manager asks for, and that the folder waits for
EnqueueOwn(f, j) ==
  /\ EnqueueScan(f, j)
  /\ requestedBy' = [requestedBy EXCEPT ![j] = Process]
  /\ inFlightJobId' = [inFlightJobId EXCEPT ![f] = j]

\* The row of a scan leaves the queue
Gone(j) ==
  /\ scan' = [scan EXCEPT ![j] = "unused"]
  /\ requestedBy' = [requestedBy EXCEPT ![j] = TheUser]
  /\ cancelRequested' = cancelRequested \ {j}

\* A queued scan that will walk; one that was cancelled before a restart will not
WillWalk(j) == scan[j] = "queued" /\ j \notin cancelRequested

\* What stands for a change of the folder besides the scan j
StandsBeside(f, j) ==
  \/ debounce[f]
  \/ fallbackTimer[f]
  \/ pendingRescan[f]
  \/ \E k \in Scans \ {j} : WillWalk(k) /\ scanFolder[k] = f

\* Bound: n identities are left for each folder's own scans
Spare(n) == Cardinality({j \in Scans : scan[j] = "unused"}) >= n * Cardinality(Folders)

-----------------------------------------------------------------------------
(* requestScan, the one entry of every trigger.                            *)

\* A bug: no guard on the scan in flight
RequestAlways(f) ==
  \E j \in Scans :
    /\ EnqueueOwn(f, j)
    /\ pendingRescan' = [pendingRescan EXCEPT ![f] = FALSE]

\* A bug: the firing is dropped instead of deferred
DropWhileInFlight(f) ==
  \/ inFlightJobId[f] # NoScan /\ UNCHANGED <<queueVars, inFlightJobId, pendingRescan>>
  \/ inFlightJobId[f] = NoScan /\ RequestAlways(f)

RequestScan(f) ==
  \/ /\ inFlightJobId[f] # NoScan
     /\ pendingRescan' = [pendingRescan EXCEPT ![f] = TRUE]
     /\ UNCHANGED <<queueVars, inFlightJobId>>
  \/ /\ inFlightJobId[f] = NoScan
     /\ \E j \in Scans : EnqueueOwn(f, j)
     /\ pendingRescan' = [pendingRescan EXCEPT ![f] = FALSE]

\* A bug: the timers survive
KeepTimers(f) == UNCHANGED <<debounce, fallbackTimer>>

ClearFolderTimers(f) ==
  /\ debounce' = [debounce EXCEPT ![f] = FALSE]
  /\ fallbackTimer' = [fallbackTimer EXCEPT ![f] = FALSE]

\* A change is reported: whatever was withdrawn before will be walked with it
Reported(f) ==
  /\ owed' = [owed EXCEPT ![f] = TRUE]
  /\ withdrawn' = [withdrawn EXCEPT ![f] = FALSE]

\* attachWatcher of a folder that is not watched yet: its contents are owed a walk
Attach(f) ==
  /\ ClearFolderTimers(f)
  /\ mode' = [mode EXCEPT ![f] = "watching"]
  /\ Reported(f)
  /\ RequestScan(f)

-----------------------------------------------------------------------------
Init ==
  /\ row = [f \in Folders |-> "none"]
  /\ liveWatchEnabled = [f \in Folders |-> FALSE]
  /\ referenced = {}
  /\ scan = [j \in Scans |-> "unused"]
  /\ scanFolder \in {[j \in Scans |-> f] : f \in Folders}
  /\ requestedBy = [j \in Scans |-> TheUser]
  /\ cancelRequested = {}
  /\ up = FALSE
  /\ toAttach = {}
  /\ event = NoScan
  /\ mode = [f \in Folders |-> "forgotten"]
  /\ debounce = [f \in Folders |-> FALSE]
  /\ fallbackTimer = [f \in Folders |-> FALSE]
  /\ inFlightJobId = [f \in Folders |-> NoScan]
  /\ pendingRescan = [f \in Folders |-> FALSE]
  /\ owed = [f \in Folders |-> FALSE]
  /\ withdrawn = [f \in Folders |-> FALSE]
  /\ restarts = 0

\* orchestrator.start(), which requeues the orphans, whoever asked for them, then watchManager.start(bootFolders)
Boot ==
  /\ ~up
  /\ up' = TRUE
  /\ scan' = [j \in Scans |-> IF scan[j] = "running" THEN "queued" ELSE scan[j]]
  /\ mode' = [f \in Folders |-> IF row[f] = "kept" THEN "off" ELSE "forgotten"]
  /\ toAttach' = {f \in Folders : row[f] = "kept" /\ liveWatchEnabled[f]}
  /\ UNCHANGED <<rowVars, referenced, scanFolder, requestedBy, cancelRequested, event, debounce,
                 fallbackTimer, inFlightJobId, pendingRescan, changeVars, restarts>>

AttachAtBoot(f) ==
  /\ f \in toAttach
  /\ Attach(f)
  /\ toAttach' = toAttach \ {f}
  /\ UNCHANGED <<rowVars, up, event, restarts>>

\* A crash, or before-quit with its stopAll: the rows stay, those of the scans too, and the
\* next manager does not know which of them its predecessor asked for
ProcessDies ==
  /\ up
  /\ restarts < MaxRestarts
  /\ Spare(1)
  /\ restarts' = restarts + 1
  /\ up' = FALSE
  /\ toAttach' = {}
  /\ event' = NoScan
  /\ mode' = [f \in Folders |-> "forgotten"]
  /\ debounce' = [f \in Folders |-> FALSE]
  /\ fallbackTimer' = [f \in Folders |-> FALSE]
  /\ inFlightJobId' = [f \in Folders |-> NoScan]
  /\ pendingRescan' = [f \in Folders |-> FALSE]
  /\ UNCHANGED <<rowVars, queueVars, changeVars>>

-----------------------------------------------------------------------------
(* The IPC handlers of main/index.ts.                                      *)

\* The new row, then registerFolder.  The identity of a deleted row, which nothing refers
\* to, is used again.
AddFolder(f) ==
  /\ AtRest
  /\ row[f] = "none"
  /\ row' = [row EXCEPT ![f] = "kept"]
  /\ liveWatchEnabled' = [liveWatchEnabled EXCEPT ![f] = FALSE]
  /\ mode' = [mode EXCEPT ![f] = "off"]
  /\ UNCHANGED <<queueVars, threadVars, debounce, fallbackTimer, inFlightJobId,
                 pendingRescan, changeVars, restarts>>

\* stop(id), then the delete of the row, which the foreign key of scan_jobs refuses once the
\* folder has been scanned: the handler throws with the watcher already gone.
RemoveFolder(f) ==
  /\ AtRest
  /\ row[f] = "kept"
  /\ mode' = [mode EXCEPT ![f] = "forgotten"]
  /\ ClearFolderTimers(f)
  /\ inFlightJobId' = [inFlightJobId EXCEPT ![f] = NoScan]
  /\ pendingRescan' = [pendingRescan EXCEPT ![f] = FALSE]
  /\ row' = IF f \in referenced THEN row ELSE [row EXCEPT ![f] = "none"]
  /\ UNCHANGED <<liveWatchEnabled, queueVars, threadVars, changeVars, restarts>>

\* setLiveWatch(id, true): nothing to attach when watched already, or when stop() forgot it
EnableLiveWatch(f) ==
  /\ AtRest
  /\ row[f] = "kept"
  /\ liveWatchEnabled' = [liveWatchEnabled EXCEPT ![f] = TRUE]
  /\ \/ /\ mode[f] \in {"off", "fallback"}
        /\ Attach(f)
     \/ /\ mode[f] \in {"watching", "forgotten"}
        /\ UNCHANGED <<folderVars, queueVars, changeVars>>
  /\ UNCHANGED <<row, threadVars, restarts>>

\* A bug: the flag is saved, the watcher stays
KeepWatching(f) ==
  /\ AtRest
  /\ row[f] = "kept"
  /\ liveWatchEnabled' = [liveWatchEnabled EXCEPT ![f] = FALSE]
  /\ UNCHANGED <<row, queueVars, threadVars, folderVars, changeVars, restarts>>

DisableLiveWatch(f) ==
  /\ AtRest
  /\ row[f] = "kept"
  /\ liveWatchEnabled' = [liveWatchEnabled EXCEPT ![f] = FALSE]
  /\ IF mode[f] = "forgotten" THEN UNCHANGED <<mode, debounce, fallbackTimer>>
       ELSE mode' = [mode EXCEPT ![f] = "off"] /\ ClearFolderTimers(f)
  /\ UNCHANGED <<row, queueVars, threadVars, inFlightJobId, pendingRescan, changeVars, restarts>>

\* jobs.enqueueScan: a scan the manager knows nothing of
ManualScan(f) ==
  /\ AtRest
  /\ row[f] = "kept"
  /\ Spare(2)
  /\ \E j \in Scans : EnqueueScan(f, j)
  /\ UNCHANGED <<rowVars, requestedBy, threadVars, folderVars, changeVars, restarts>>

-----------------------------------------------------------------------------
(* The watcher and the timers.                                             *)

\* add, change or unlink: scheduleDebounce
FsEvent(f) ==
  /\ AtRest
  /\ mode[f] = "watching"
  /\ debounce' = [debounce EXCEPT ![f] = TRUE]
  /\ Reported(f)
  /\ UNCHANGED <<rowVars, queueVars, threadVars, mode, fallbackTimer, inFlightJobId,
                 pendingRescan, restarts>>

\* A bug: fallback without its interval
FallbackNoInterval(f) == ClearFolderTimers(f)

FallbackTimers(f) ==
  /\ debounce' = [debounce EXCEPT ![f] = FALSE]
  /\ fallbackTimer' = [fallbackTimer EXCEPT ![f] = TRUE]

\* handleWatcherError with ENOSPC, EMFILE or ENFILE (any other error changes nothing):
\* enterFallback closes the watcher and drops an armed debounce
WatcherLimit(f) ==
  /\ AtRest
  /\ mode[f] = "watching"
  /\ mode' = [mode EXCEPT ![f] = "fallback"]
  /\ FallbackTimers(f)
  /\ UNCHANGED <<rowVars, queueVars, threadVars, inFlightJobId, pendingRescan, changeVars, restarts>>

DebounceFires(f) ==
  /\ AtRest
  /\ debounce[f]
  /\ debounce' = [debounce EXCEPT ![f] = FALSE]
  /\ RequestScan(f)
  /\ UNCHANGED <<rowVars, threadVars, mode, fallbackTimer, changeVars, restarts>>

FallbackTick(f) ==
  /\ AtRest
  /\ fallbackTimer[f]
  /\ RequestScan(f)
  /\ UNCHANGED <<rowVars, threadVars, mode, debounce, fallbackTimer, changeVars, restarts>>

-----------------------------------------------------------------------------
(* The queue: claim, cancel and end of a scan, and its terminal event.     *)

\* The walk begins: whatever changed before is in it
ScanClaimed(j) ==
  /\ up
  /\ WillWalk(j)
  /\ scan' = [scan EXCEPT ![j] = "running"]
  /\ owed' = [owed EXCEPT ![scanFolder[j]] = FALSE]
  /\ withdrawn' = [withdrawn EXCEPT ![scanFolder[j]] = FALSE]
  /\ UNCHANGED <<rowVars, referenced, scanFolder, requestedBy, cancelRequested, threadVars,
                 folderVars, restarts>>

\* pump() claims a scan that was cancelled before the restart: it ends without a walk.  Its
\* event finds no folder: no manager waits for a scan of a former process.
DropCancelled(j) ==
  /\ up
  /\ scan[j] = "queued"
  /\ j \in cancelRequested
  /\ Gone(j)
  /\ UNCHANGED <<rowVars, referenced, scanFolder, threadVars, folderVars, changeVars, restarts>>

\* Completed, failed or cancelled
ScanEnds(j) ==
  /\ AtRest
  /\ scan[j] = "running"
  /\ Gone(j)
  /\ event' = j
  /\ UNCHANGED <<rowVars, referenced, scanFolder, up, toAttach, folderVars, changeVars, restarts>>

\* cancel() of a running scan: the flag is set, and the worker ends the scan if it lives
CancelRunningScan(j) ==
  /\ AtRest
  /\ scan[j] = "running"
  /\ cancelRequested' = cancelRequested \cup {j}
  /\ UNCHANGED <<rowVars, referenced, scan, scanFolder, requestedBy, threadVars, folderVars,
                 changeVars, restarts>>

\* cancel() of a queued scan: it ends at once and the manager only learns that it did.  A
\* change that nothing else stands for is not walked any more.
CancelQueuedScan(j) ==
  /\ AtRest
  /\ scan[j] = "queued"
  /\ Gone(j)
  /\ event' = j
  /\ LET f == scanFolder[j] IN
       withdrawn' = [withdrawn EXCEPT ![f] = @ \/ (owed[f] /\ ~StandsBeside(f, j))]
  /\ UNCHANGED <<rowVars, referenced, scanFolder, up, toAttach, folderVars, owed, restarts>>

\* Two bugs: undefined for null; a folder takes any scan's end for its own
ClearedToUndefined ==
  \E f \in Folders :
    /\ inFlightJobId[f] = event
    /\ inFlightJobId' = [inFlightJobId EXCEPT ![f] = "undefined"]
    /\ UNCHANGED <<queueVars, pendingRescan>>
AnyEndIsMine ==
  \E f \in Folders :
    /\ inFlightJobId[f] # NoScan
    /\ inFlightJobId' = [inFlightJobId EXCEPT ![f] = NoScan]
    /\ UNCHANGED <<queueVars, pendingRescan>>

\* The folder whose scan it was: the deferred rescan goes out, whatever its mode is by now
FinishInFlight ==
  \E f \in Folders :
    /\ inFlightJobId[f] = event
    /\ \/ /\ pendingRescan[f]
          /\ \E j \in Scans : EnqueueOwn(f, j)
          /\ pendingRescan' = [pendingRescan EXCEPT ![f] = FALSE]
       \/ /\ ~pendingRescan[f]
          /\ inFlightJobId' = [inFlightJobId EXCEPT ![f] = NoScan]
          /\ UNCHANGED <<queueVars, pendingRescan>>

OnJobEvent ==
  /\ up
  /\ event # NoScan
  /\ event' = NoScan
  /\ IF \E f \in Folders : inFlightJobId[f] = event
       THEN FinishInFlight
       ELSE UNCHANGED <<queueVars, inFlightJobId, pendingRescan>>
  /\ UNCHANGED <<rowVars, up, toAttach, mode, debounce, fallbackTimer, changeVars, restarts>>

-----------------------------------------------------------------------------
UserCall(f) ==
  \/ AddFolder(f)
  \/ RemoveFolder(f)
  \/ EnableLiveWatch(f)
  \/ DisableLiveWatch(f)
  \/ ManualScan(f)

Queue(j) ==
  \/ ScanClaimed(j)
  \/ DropCancelled(j)
  \/ ScanEnds(j)
  \/ CancelRunningScan(j)
  \/ CancelQueuedScan(j)

Next ==
  \/ Boot
  \/ ProcessDies
  \/ OnJobEvent
  \/ \E j \in Scans : Queue(j)
  \/ \E f \in Folders :
       \/ AttachAtBoot(f)
       \/ UserCall(f)
       \/ FsEvent(f)
       \/ WatcherLimit(f)
       \/ DebounceFires(f)
       \/ FallbackTick(f)

Spec == Init /\ [][Next]_vars

(***************************************************************************)
(* The event loop runs what is due (SF: the timers wait for the handlers   *)
(* before them), the queue claims a scan sooner or later unless the user   *)
(* cancels every one before it does (SF: there may always be another), and *)
(* ends it (EveryJobEnds of JobQueue), and changes pause for longer than   *)
(* the debounce window now and then.                                       *)
(***************************************************************************)
Fairness ==
  /\ WF_vars(Boot)
  /\ WF_vars(OnJobEvent)
  /\ \A f \in Folders :
       WF_vars(AttachAtBoot(f)) /\ SF_vars(DebounceFires(f)) /\ SF_vars(FallbackTick(f))
  /\ \A j \in Scans :
       SF_vars(ScanClaimed(j)) /\ WF_vars(DropCancelled(j)) /\ SF_vars(ScanEnds(j))

FairSpec == Spec /\ Fairness

-----------------------------------------------------------------------------
(* Properties.                                                             *)

(* The variables keep their types.                                                     *)
TypeOK ==
  /\ row \in [Folders -> {"none", "kept"}]
  /\ liveWatchEnabled \in [Folders -> BOOLEAN]
  /\ referenced \in SUBSET Folders
  /\ scan \in [Scans -> {"unused", "queued", "running"}]
  /\ scanFolder \in [Scans -> Folders]
  /\ requestedBy \in [Scans -> TheUser..Process]
  /\ cancelRequested \in SUBSET Scans
  /\ up \in BOOLEAN
  /\ toAttach \in SUBSET Folders
  /\ event \in Scans \cup {NoScan}
  /\ mode \in [Folders -> Live \cup {"off", "forgotten"}]
  /\ debounce \in [Folders -> BOOLEAN]
  /\ fallbackTimer \in [Folders -> BOOLEAN]
  /\ inFlightJobId \in [Folders -> Scans \cup {NoScan}]
  /\ pendingRescan \in [Folders -> BOOLEAN]
  /\ owed \in [Folders -> BOOLEAN]
  /\ withdrawn \in [Folders -> BOOLEAN]
  /\ restarts \in 0..MaxRestarts

(* The guard of requestScan (watch-manager.ts:139-144: "at most one watch-triggered
   `enqueueScan` in flight per folder at a time") holds for each process by itself: two
   watch-triggered scans of one folder that exist together were asked for by different
   processes, and the one this process asked for is the one the folder waits for.  Across
   a restart it does not hold: the requeued scan of the former process stands beside the
   one of the attach, which is not deferred by it.  (A folder the user removed leaves its
   scan behind.)                                                                        *)
OneScanPerFolder ==
  /\ \A j, k \in Scans :
       j # k /\ scanFolder[j] = scanFolder[k] /\ requestedBy[j] = requestedBy[k] =>
         requestedBy[j] = TheUser
  /\ \A j \in Scans :
       requestedBy[j] = Process /\ mode[scanFolder[j]] # "forgotten" =>
         inFlightJobId[scanFolder[j]] = j

(* What a folder waits for will come: its scan is still in the queue, or its end is being
   delivered, and a deferred rescan always waits for such a scan.  A folder that waits for
   a scan that is gone would never be scanned again.                                     *)
InFlightWillEnd ==
  \A f \in Folders :
    /\ inFlightJobId[f] # NoScan =>
         \/ inFlightJobId[f] = event
         \/ /\ requestedBy[inFlightJobId[f]] = Process
            /\ scan[inFlightJobId[f]] # "unused"
    /\ pendingRescan[f] => inFlightJobId[f] # NoScan

(* Timers follow the mode: the debounce is armed only for a watched folder, the interval
   runs exactly in fallback, and nothing is left behind for a folder that is off or gone. *)
TimersFollowMode ==
  \A f \in Folders :
    /\ debounce[f] => mode[f] = "watching"
    /\ fallbackTimer[f] <=> mode[f] = "fallback"

(* A folder is watched only while its row exists and opts in.  (index.ts: "no watcher left
   running against a folder whose row no longer exists".)                                *)
WatchedHasItsRow ==
  \A f \in Folders : mode[f] \in Live => row[f] = "kept" /\ liveWatchEnabled[f]

(* A reported change is dropped in one case only.  While the folder is watched and no walk
   began since, a timer, a deferred rescan or a queued scan of the folder that was not
   cancelled is there to walk it, unless the user cancelled a queued scan of the folder,
   triggered by whomever, when nothing else stood for the change: the manager clears
   inFlightJobId at the scan's end (watch-manager.ts:298-313) and does not ask for another.
   Nor does it count on a scan that was cancelled before a restart and is dropped when
   claimed.                                                                             *)
ChangeIsNotDropped ==
  \A f \in Folders :
    AtRest /\ owed[f] /\ mode[f] \in Live /\ ~withdrawn[f] =>
      \/ debounce[f]
      \/ fallbackTimer[f]
      \/ pendingRescan[f]
      \/ \E j \in Scans : WillWalk(j) /\ scanFolder[j] = f

(* A change reported for a folder is followed by a walk of it, through restarts, fallback
   and any number of scans in flight, unless the user switches the watch off, removes the
   folder, or cancels the last queued scan that stood for the change.                   *)
ChangeIsWalked ==
  \A f \in Folders :
    owed[f] /\ mode[f] \in Live ~>
      ~owed[f] \/ withdrawn[f] \/ ~liveWatchEnabled[f] \/ (up /\ mode[f] = "forgotten")
=============================================================================
