------------------------- MODULE WatchManagerProofs -------------------------
(***************************************************************************)
(* Theorems about the live-watch manager, for any number of folders, scans *)
(* and restarts: its types and its safety properties, from one inductive   *)
(* invariant.                                                              *)
(***************************************************************************)
EXTENDS WatchManager, TLAPS

-----------------------------------------------------------------------------
(* The inductive invariant: what the properties need besides themselves.    *)

\* A scan that exists has a folder whose row is kept; what the manager asked for and what
\* the user cancelled exists, and what waits to be dropped is of a former process.
ScansHaveRows ==
  /\ \A j \in Scans : scan[j] # "unused" => scanFolder[j] \in referenced
  /\ \A f \in referenced : row[f] = "kept"
  /\ \A j \in Scans : scan[j] = "unused" => requestedBy[j] = TheUser
  /\ \A j \in cancelRequested : scan[j] # "unused"
  /\ \A j \in cancelRequested : scan[j] = "queued" => requestedBy[j] # Process

\* A folder the manager knows waits for a scan of its own, so no two folders wait for one.
FlightIsOwn ==
  \A f \in Folders :
    inFlightJobId[f] # NoScan =>
      f \in referenced /\ mode[f] # "forgotten" /\ scanFolder[inFlightJobId[f]] = f

\* The main thread delivers an event of a scan that is gone, or attaches folders that opt
\* in, never both.
ThreadIsSane ==
  /\ \A f \in toAttach : row[f] = "kept" /\ liveWatchEnabled[f] /\ mode[f] = "off"
  /\ toAttach # {} => up /\ event = NoScan
  /\ event # NoScan => up /\ scan[event] = "unused"

\* The manager remembers nothing while the process is down.
DownIsEmpty ==
  ~up => /\ \A j \in Scans : requestedBy[j] # Process
         /\ \A f \in Folders : mode[f] = "forgotten" /\ inFlightJobId[f] = NoScan

\* ChangeIsNotDropped inside the handlers too
SomethingWillWalk(f) ==
  \/ debounce[f]
  \/ fallbackTimer[f]
  \/ pendingRescan[f]
  \/ \E j \in Scans : WillWalk(j) /\ scanFolder[j] = f
ChangesWait ==
  \A f \in Folders :
    up /\ owed[f] /\ mode[f] \in Live /\ ~withdrawn[f] => SomethingWillWalk(f)

\* The parts that speak of scans, the rest, and all of it
QueuePart == ScansHaveRows /\ FlightIsOwn /\ InFlightWillEnd /\ OneScanPerFolder
FolderPart == TimersFollowMode /\ WatchedHasItsRow
WatchInvariant ==
  TypeOK /\ QueuePart /\ ThreadIsSane /\ DownIsEmpty /\ FolderPart /\ ChangesWait

-----------------------------------------------------------------------------
(* Types.                                                                   *)

\* FinishInFlight for the folder whose scan it was
FinishOf(f) ==
  /\ inFlightJobId[f] = event
  /\ \/ /\ pendingRescan[f]
        /\ \E j \in Scans : EnqueueOwn(f, j)
        /\ pendingRescan' = [pendingRescan EXCEPT ![f] = FALSE]
     \/ /\ ~pendingRescan[f]
        /\ inFlightJobId' = [inFlightJobId EXCEPT ![f] = NoScan]
        /\ UNCHANGED <<queueVars, pendingRescan>>

\* requestScan and the timers keep the types of what they write.
LEMMA RequestTypes ==
  ASSUME TypeOK, NEW f \in Folders, RequestScan(f)
  PROVE  /\ referenced' \in SUBSET Folders
         /\ scan' \in [Scans -> {"unused", "queued", "running"}]
         /\ scanFolder' \in [Scans -> Folders]
         /\ requestedBy' \in [Scans -> TheUser..Process]
         /\ cancelRequested' \in SUBSET Scans
         /\ inFlightJobId' \in [Folders -> Scans \cup {NoScan}]
         /\ pendingRescan' \in [Folders -> BOOLEAN]
<1> USE DEF TypeOK
<1>0. Process \in TheUser..Process
  BY DEF Process, TheUser
<1>1. CASE UNCHANGED <<queueVars, inFlightJobId>> /\ pendingRescan' = [pendingRescan EXCEPT ![f] = TRUE]
  BY <1>1 DEF queueVars
<1>2. CASE /\ \E j \in Scans : EnqueueOwn(f, j)
           /\ pendingRescan' = [pendingRescan EXCEPT ![f] = FALSE]
  BY <1>0, <1>2 DEF EnqueueOwn, EnqueueScan
<1> QED BY <1>1, <1>2 DEF RequestScan

LEMMA AttachTypes ==
  ASSUME TypeOK, NEW f \in Folders, Attach(f)
  PROVE  /\ mode' \in [Folders -> Live \cup {"off", "forgotten"}]
         /\ debounce' \in [Folders -> BOOLEAN]
         /\ fallbackTimer' \in [Folders -> BOOLEAN]
         /\ owed' \in [Folders -> BOOLEAN] /\ withdrawn' \in [Folders -> BOOLEAN]
BY DEF TypeOK, Attach, ClearFolderTimers, Reported, Live

\* Every step keeps the types.
LEMMA TypeStep == TypeOK /\ [Next]_vars => TypeOK'
<1> SUFFICES ASSUME TypeOK, [Next]_vars PROVE TypeOK'
  OBVIOUS
<1> USE WatchAssumption DEF rowVars, queueVars, threadVars, folderVars, changeVars
<1>0. /\ Process \in TheUser..Process /\ TheUser \in TheUser..Process
      /\ restarts' = restarts => Process' = Process
  BY DEF Process, TheUser, TypeOK
<1>1. CASE Boot
  BY <1>0, <1>1 DEF Boot, TypeOK, Live
<1>2. CASE ProcessDies
  <2>1. restarts' \in 0..MaxRestarts
    BY <1>2 DEF ProcessDies, TypeOK
  <2>2. UNCHANGED <<row, liveWatchEnabled, referenced, scan, scanFolder, cancelRequested, owed,
                    withdrawn>>
    BY <1>2 DEF ProcessDies
  <2>5. requestedBy' \in [Scans -> TheUser..Process']
    <3>1. requestedBy' = requestedBy /\ restarts' = restarts + 1 /\ restarts \in Nat
      BY <1>2 DEF ProcessDies, TypeOK
    <3> QED BY <3>1 DEF TypeOK, Process, TheUser
  <2>3. /\ mode' \in [Folders -> Live \cup {"off", "forgotten"}]
        /\ debounce' \in [Folders -> BOOLEAN]
        /\ fallbackTimer' \in [Folders -> BOOLEAN]
        /\ inFlightJobId' \in [Folders -> Scans \cup {NoScan}]
        /\ pendingRescan' \in [Folders -> BOOLEAN]
    BY <1>2 DEF ProcessDies, Live
  <2>4. up' \in BOOLEAN /\ toAttach' = {} /\ event' = NoScan
    BY <1>2 DEF ProcessDies
  <2> QED BY <2>1, <2>2, <2>3, <2>4, <2>5 DEF TypeOK
<1>3. CASE OnJobEvent
  <2>1. CASE FinishInFlight
    <3>1. PICK f \in Folders : FinishOf(f)
      BY <2>1 DEF FinishInFlight, FinishOf
    <3>2. CASE UNCHANGED <<queueVars, pendingRescan>>
      BY <1>0, <1>3, <3>1, <3>2 DEF OnJobEvent, FinishOf, TypeOK
    <3>3. ASSUME NEW j \in Scans, EnqueueOwn(f, j),
                 pendingRescan' = [pendingRescan EXCEPT ![f] = FALSE]
          PROVE  TypeOK'
      BY <1>0, <1>3, <3>3 DEF OnJobEvent, EnqueueOwn, EnqueueScan, TypeOK
    <3> QED BY <3>1, <3>2, <3>3 DEF FinishOf
  <2>2. CASE UNCHANGED <<queueVars, inFlightJobId, pendingRescan>>
    BY <1>0, <1>3, <2>2 DEF OnJobEvent, TypeOK
  <2> QED BY <1>3, <2>1, <2>2 DEF OnJobEvent
<1>4. ASSUME NEW j \in Scans, Queue(j) PROVE TypeOK'
  <2>1. CASE ScanClaimed(j)
    BY <1>0, <2>1 DEF ScanClaimed, TypeOK
  <2>2. CASE ScanEnds(j)
    BY <1>0, <2>2 DEF ScanEnds, Gone, TypeOK
  <2>3. CASE CancelQueuedScan(j)
    <3>1. withdrawn' \in [Folders -> BOOLEAN]
      BY <2>3 DEF CancelQueuedScan, StandsBeside, TypeOK
    <3> QED BY <1>0, <2>3, <3>1 DEF CancelQueuedScan, Gone, TypeOK
  <2>4. CASE DropCancelled(j)
    BY <1>0, <2>4 DEF DropCancelled, Gone, TypeOK
  <2>5. CASE CancelRunningScan(j)
    BY <1>0, <2>5 DEF CancelRunningScan, TypeOK
  <2> QED BY <1>4, <2>1, <2>2, <2>3, <2>4, <2>5 DEF Queue
<1>5. ASSUME NEW f \in Folders, AttachAtBoot(f) PROVE TypeOK'
  <2>1. Attach(f) /\ RequestScan(f)
    BY <1>5 DEF AttachAtBoot, Attach
  <2> QED BY <1>0, <1>5, <2>1, RequestTypes, AttachTypes DEF AttachAtBoot, TypeOK
<1>6. ASSUME NEW f \in Folders, UserCall(f) PROVE TypeOK'
  <2>1. CASE AddFolder(f)
    BY <1>0, <2>1 DEF AddFolder, TypeOK
  <2>2. CASE RemoveFolder(f)
    BY <1>0, <2>2 DEF RemoveFolder, ClearFolderTimers, TypeOK
  <2>3. CASE EnableLiveWatch(f)
    <3>1. CASE Attach(f)
      <4>1. RequestScan(f)
        BY <3>1 DEF Attach
      <4> QED BY <1>0, <2>3, <3>1, <4>1, RequestTypes, AttachTypes DEF EnableLiveWatch, TypeOK
    <3>2. CASE UNCHANGED <<folderVars, queueVars, changeVars>>
      BY <1>0, <2>3, <3>2 DEF EnableLiveWatch, TypeOK
    <3> QED BY <2>3, <3>1, <3>2 DEF EnableLiveWatch
  <2>4. CASE DisableLiveWatch(f)
    BY <1>0, <2>4 DEF DisableLiveWatch, ClearFolderTimers, TypeOK
  <2>5. CASE ManualScan(f)
    BY <1>0, <2>5 DEF ManualScan, EnqueueScan, TypeOK
  <2> QED BY <1>6, <2>1, <2>2, <2>3, <2>4, <2>5 DEF UserCall
<1>7. ASSUME NEW f \in Folders, FsEvent(f) PROVE TypeOK'
  BY <1>0, <1>7 DEF FsEvent, Reported, TypeOK
<1>8. ASSUME NEW f \in Folders, WatcherLimit(f) PROVE TypeOK'
  BY <1>0, <1>8 DEF WatcherLimit, FallbackTimers, TypeOK, Live
<1>9. ASSUME NEW f \in Folders, DebounceFires(f) PROVE TypeOK'
  BY <1>0, <1>9, RequestTypes DEF DebounceFires, TypeOK
<1>10. ASSUME NEW f \in Folders, FallbackTick(f) PROVE TypeOK'
  BY <1>0, <1>10, RequestTypes DEF FallbackTick, TypeOK
<1>11. CASE UNCHANGED vars
  BY <1>0, <1>11 DEF vars, TypeOK
<1> HIDE WatchAssumption DEF rowVars, queueVars, threadVars, folderVars, changeVars
<1> QED BY <1>1, <1>2, <1>3, <1>4, <1>5, <1>6, <1>7, <1>8, <1>9, <1>10, <1>11 DEF Next

-----------------------------------------------------------------------------
(* A folder gets a scan of its own.                                         *)

\* requestScan's second branch and the deferred rescan: a folder that waits for nothing, or
\* for the scan whose end is being delivered, gets a new scan and waits for that one.
LEMMA OwnScanStep ==
  ASSUME TypeOK, QueuePart, ThreadIsSane,
         NEW f \in Folders, NEW j \in Scans,
         inFlightJobId[f] = event, row[f] = "kept", EnqueueOwn(f, j),
         pendingRescan' = [pendingRescan EXCEPT ![f] = FALSE],
         event' = NoScan, row' = row, restarts' = restarts, mode[f] # "forgotten",
         mode' \in [Folders -> Live \cup {"off", "forgotten"}],
         \A g \in Folders : mode[g] = "forgotten" <=> mode'[g] = "forgotten"
  PROVE  /\ QueuePart'
         /\ WillWalk(j)' /\ scanFolder'[j] = f
         /\ \A k \in Scans : WillWalk(k) => WillWalk(k)' /\ scanFolder'[k] = scanFolder[k]
<1>1. /\ scan[j] = "unused" /\ requestedBy[j] = TheUser /\ j \notin cancelRequested
      /\ scan' = [scan EXCEPT ![j] = "queued"]
      /\ scanFolder' = [scanFolder EXCEPT ![j] = f]
      /\ requestedBy' = [requestedBy EXCEPT ![j] = Process]
      /\ inFlightJobId' = [inFlightJobId EXCEPT ![f] = j]
      /\ referenced' = referenced \cup {f}
      /\ cancelRequested' = cancelRequested
  BY DEF EnqueueOwn, EnqueueScan, Fresh, Free, QueuePart, ScansHaveRows
<1>2. \A g \in Folders : g # f => inFlightJobId[g] # j
  <2>1. j \in Scans /\ j # NoScan /\ (j = event \/ \A g \in Folders : inFlightJobId[g] # j)
    BY WatchAssumption DEF EnqueueOwn, EnqueueScan, Fresh, Free
  <2> QED BY <2>1 DEF QueuePart, FlightIsOwn
<1>3. \A g \in Folders : g # f /\ inFlightJobId[g] # NoScan => inFlightJobId[g] # event
  BY DEF QueuePart, FlightIsOwn
<1>4. Process' = Process /\ Process # TheUser
  BY DEF Process, TheUser, TypeOK
<1>5. ScansHaveRows'
  BY <1>1, <1>4 DEF QueuePart, ScansHaveRows, TypeOK
<1>6. FlightIsOwn'
  BY <1>1, <1>2 DEF QueuePart, FlightIsOwn, TypeOK
<1>7. InFlightWillEnd'
  BY <1>1, <1>2, <1>3, <1>4 DEF QueuePart, InFlightWillEnd, TypeOK
<1>8. OneScanPerFolder'
  <2>1. ASSUME NEW k \in Scans, scanFolder[k] = f
        PROVE  requestedBy[k] # Process
    <3>1. SUFFICES ASSUME requestedBy[k] = Process PROVE FALSE
      OBVIOUS
    <3>2. event = k
      BY <3>1, <2>1 DEF QueuePart, OneScanPerFolder
    <3>3. scan[k] = "unused"
      BY <3>2, WatchAssumption DEF ThreadIsSane
    <3> QED BY <3>1, <3>3, <1>4 DEF QueuePart, ScansHaveRows
  <2>2. ASSUME NEW k \in Scans, NEW l \in Scans, k # l, scanFolder'[k] = scanFolder'[l],
               requestedBy'[k] = requestedBy'[l]
        PROVE  requestedBy'[k] = TheUser
    <3>1. CASE k = j
      BY <1>1, <2>1, <2>2, <3>1 DEF TypeOK
    <3>2. CASE l = j
      BY <1>1, <2>1, <2>2, <3>2 DEF TypeOK
    <3>3. CASE k # j /\ l # j
      BY <1>1, <2>2, <3>3 DEF QueuePart, OneScanPerFolder, TypeOK
    <3> QED BY <3>1, <3>2, <3>3
  <2>3. ASSUME NEW k \in Scans, requestedBy'[k] = Process, mode'[scanFolder'[k]] # "forgotten"
        PROVE  inFlightJobId'[scanFolder'[k]] = k
    BY <1>1, <2>1, <2>3 DEF QueuePart, OneScanPerFolder, TypeOK
  <2> QED BY <1>4, <2>2, <2>3 DEF OneScanPerFolder
<1>9. \A k \in Scans : WillWalk(k) => WillWalk(k)' /\ scanFolder'[k] = scanFolder[k]
  BY <1>1 DEF TypeOK, WillWalk
<1> QED BY <1>1, <1>5, <1>6, <1>7, <1>8, <1>9 DEF QueuePart, TypeOK, WillWalk

\* requestScan, from any trigger: the scans stay sane and the folder will be walked.
LEMMA RequestStep ==
  ASSUME TypeOK, QueuePart, ThreadIsSane,
         NEW f \in Folders, RequestScan(f), row[f] = "kept",
         event = NoScan, event' = NoScan, row' = row, restarts' = restarts,
         mode[f] # "forgotten",
         mode' \in [Folders -> Live \cup {"off", "forgotten"}],
         \A g \in Folders : mode[g] = "forgotten" <=> mode'[g] = "forgotten"
  PROVE  /\ QueuePart'
         /\ pendingRescan'[f] \/ \E j \in Scans : WillWalk(j)' /\ scanFolder'[j] = f
         /\ \A g \in Folders : g # f => pendingRescan'[g] = pendingRescan[g]
         /\ \A k \in Scans : WillWalk(k) => WillWalk(k)' /\ scanFolder'[k] = scanFolder[k]
<1>1. CASE /\ inFlightJobId[f] # NoScan
           /\ pendingRescan' = [pendingRescan EXCEPT ![f] = TRUE]
           /\ UNCHANGED <<queueVars, inFlightJobId>>
  <2>1. UNCHANGED <<referenced, scan, scanFolder, requestedBy, cancelRequested>> /\ Process' = Process
    BY <1>1 DEF queueVars, Process
  <2>2. ScansHaveRows' /\ FlightIsOwn' /\ OneScanPerFolder'
    BY <1>1, <2>1 DEF QueuePart, ScansHaveRows, FlightIsOwn, OneScanPerFolder, TypeOK
  <2>3. InFlightWillEnd'
    BY <1>1, <2>1 DEF QueuePart, InFlightWillEnd, TypeOK
  <2> QED BY <1>1, <2>1, <2>2, <2>3 DEF QueuePart, TypeOK, WillWalk
<1>2. ASSUME inFlightJobId[f] = NoScan, NEW j \in Scans, EnqueueOwn(f, j),
             pendingRescan' = [pendingRescan EXCEPT ![f] = FALSE]
      PROVE  /\ QueuePart'
             /\ WillWalk(j)' /\ scanFolder'[j] = f
             /\ \A g \in Folders : g # f => pendingRescan'[g] = pendingRescan[g]
             /\ \A k \in Scans : WillWalk(k) => WillWalk(k)' /\ scanFolder'[k] = scanFolder[k]
  <2>1. inFlightJobId[f] = event
    BY <1>2
  <2>2. \A g \in Folders : g # f => pendingRescan'[g] = pendingRescan[g]
    BY <1>2 DEF TypeOK
  <2> QED BY <1>2, <2>1, <2>2, OwnScanStep
<1> QED BY <1>1, <1>2 DEF RequestScan

-----------------------------------------------------------------------------
(* One lemma for each kind of action; TypeStep gives the types after it.     *)

LEMMA BootStep ==
  ASSUME WatchInvariant, Boot, TypeOK'
  PROVE  WatchInvariant'
<1> USE DEF rowVars, changeVars
<1>1. /\ event = NoScan /\ Process' = Process
      /\ \A j \in Scans : requestedBy[j] # Process
      /\ \A f \in Folders : inFlightJobId[f] = NoScan /\ mode[f] = "forgotten"
  BY DEF WatchInvariant, ThreadIsSane, DownIsEmpty, Boot, Process
<1>2. QueuePart'
  <2>1. ScansHaveRows' /\ FlightIsOwn' /\ InFlightWillEnd'
    BY <1>1 DEF WatchInvariant, QueuePart, ScansHaveRows, FlightIsOwn, InFlightWillEnd, Boot, TypeOK
  <2>2. OneScanPerFolder'
    BY <1>1 DEF WatchInvariant, QueuePart, OneScanPerFolder, Boot
  <2> QED BY <2>1, <2>2 DEF QueuePart
<1>3. ThreadIsSane' /\ DownIsEmpty'
  BY <1>1 DEF WatchInvariant, ThreadIsSane, DownIsEmpty, Boot, TypeOK
<1>4. \A f \in Folders : mode'[f] \in {"off", "forgotten"}
  BY DEF Boot
<1>5. FolderPart' /\ ChangesWait'
  BY <1>1, <1>4 DEF WatchInvariant, FolderPart, TimersFollowMode, WatchedHasItsRow, ChangesWait, Live, Boot
<1> QED BY <1>2, <1>3, <1>5 DEF WatchInvariant

LEMMA DeathStep ==
  ASSUME WatchInvariant, ProcessDies, TypeOK'
  PROVE  WatchInvariant'
<1>1. /\ \A f \in Folders : mode'[f] = "forgotten" /\ ~debounce'[f] /\ ~fallbackTimer'[f]
      /\ \A f \in Folders : inFlightJobId'[f] = NoScan /\ ~pendingRescan'[f]
      /\ ~up' /\ toAttach' = {} /\ event' = NoScan
      /\ UNCHANGED <<row, liveWatchEnabled, referenced, scan, scanFolder, requestedBy,
                     cancelRequested>>
  BY DEF ProcessDies, rowVars, queueVars
<1>0. \A j \in Scans : requestedBy'[j] # Process'
  <2>1. restarts' = restarts + 1 /\ restarts \in Nat /\ requestedBy' = requestedBy
    BY DEF ProcessDies, queueVars, WatchInvariant, TypeOK
  <2> QED BY <2>1 DEF Process, TheUser, WatchInvariant, TypeOK
<1>2. QueuePart'
  <2>1. ScansHaveRows' /\ FlightIsOwn' /\ InFlightWillEnd'
    <3>1. \A j \in cancelRequested : requestedBy'[j] # Process'
      BY <1>0 DEF WatchInvariant, TypeOK
    <3>2. ScansHaveRows'
      BY <1>1, <3>1 DEF WatchInvariant, QueuePart, ScansHaveRows
    <3> QED BY <1>1, <3>2 DEF FlightIsOwn, InFlightWillEnd
  <2>2. OneScanPerFolder'
    BY <1>0, <1>1 DEF WatchInvariant, QueuePart, OneScanPerFolder
  <2> QED BY <2>1, <2>2 DEF QueuePart
<1>3. ThreadIsSane' /\ DownIsEmpty'
  BY <1>0, <1>1 DEF ThreadIsSane, DownIsEmpty
<1>4. FolderPart' /\ ChangesWait'
  BY <1>1 DEF FolderPart, TimersFollowMode, WatchedHasItsRow, ChangesWait, Live
<1> QED BY <1>2, <1>3, <1>4 DEF WatchInvariant

\* The handler of a terminal event: the folder that waited for the scan gets the deferred
\* one, which is its change's walk, or waits for nothing.
LEMMA EventStep ==
  ASSUME WatchInvariant, OnJobEvent, TypeOK'
  PROVE  WatchInvariant'
<1> USE DEF rowVars, changeVars
<1>1. /\ up /\ event # NoScan /\ event' = NoScan /\ toAttach = {} /\ Process' = Process
      /\ UNCHANGED <<row, liveWatchEnabled, up, toAttach, mode, debounce, fallbackTimer, owed,
                     withdrawn, restarts>>
  BY DEF OnJobEvent, WatchInvariant, ThreadIsSane, Process
<1>2. ThreadIsSane' /\ DownIsEmpty'
  BY <1>1 DEF ThreadIsSane, DownIsEmpty
<1>3. FolderPart'
  BY <1>1 DEF WatchInvariant, FolderPart, TimersFollowMode, WatchedHasItsRow
<1>4. CASE ~ \E f \in Folders : inFlightJobId[f] = event
  <2>1. UNCHANGED <<queueVars, inFlightJobId, pendingRescan>>
    BY <1>4 DEF OnJobEvent
  <2>2. QueuePart'
    BY <1>1, <1>4, <2>1 DEF WatchInvariant, QueuePart, ScansHaveRows, FlightIsOwn, InFlightWillEnd,
                            OneScanPerFolder, queueVars
  <2>3. ChangesWait'
    BY <1>1, <2>1 DEF WatchInvariant, ChangesWait, SomethingWillWalk, WillWalk, queueVars
  <2> QED BY <1>2, <1>3, <2>2, <2>3 DEF WatchInvariant
<1>5. ASSUME NEW f \in Folders, FinishOf(f)
      PROVE  QueuePart' /\ ChangesWait'
  <2>1. row[f] = "kept" /\ inFlightJobId[f] = event /\ mode[f] # "forgotten"
    BY <1>1, <1>5 DEF FinishOf, WatchInvariant, QueuePart, ScansHaveRows, FlightIsOwn
  <2>2. ASSUME NEW j \in Scans, EnqueueOwn(f, j),
               pendingRescan' = [pendingRescan EXCEPT ![f] = FALSE]
        PROVE  QueuePart' /\ ChangesWait'
    <3>1. /\ QueuePart' /\ WillWalk(j)' /\ scanFolder'[j] = f
          /\ \A k \in Scans : WillWalk(k) => WillWalk(k)' /\ scanFolder'[k] = scanFolder[k]
      BY <1>1, <2>1, <2>2, OwnScanStep DEF WatchInvariant, TypeOK
    <3>2. \A g \in Folders : g # f => pendingRescan'[g] = pendingRescan[g]
      BY <2>2 DEF WatchInvariant, TypeOK
    <3> QED BY <1>1, <3>1, <3>2 DEF WatchInvariant, ChangesWait, SomethingWillWalk
  <2>3. CASE /\ ~pendingRescan[f]
             /\ inFlightJobId' = [inFlightJobId EXCEPT ![f] = NoScan]
             /\ UNCHANGED <<queueVars, pendingRescan>>
    <3>1. ScansHaveRows' /\ FlightIsOwn' /\ InFlightWillEnd'
      BY <1>1, <2>1, <2>3 DEF WatchInvariant, QueuePart, ScansHaveRows, FlightIsOwn,
                              InFlightWillEnd, queueVars, TypeOK
    <3>2. OneScanPerFolder'
      <4>1. \A j \in Scans : requestedBy[j] = Process => j # event
        BY <1>1 DEF WatchInvariant, QueuePart, ScansHaveRows, ThreadIsSane, Process, TheUser, TypeOK
      <4> QED BY <1>1, <2>1, <2>3, <4>1 DEF WatchInvariant, QueuePart, OneScanPerFolder, queueVars, TypeOK
    <3>3. ChangesWait'
      BY <1>1, <2>3 DEF WatchInvariant, ChangesWait, SomethingWillWalk, WillWalk, queueVars
    <3> QED BY <3>1, <3>2, <3>3 DEF QueuePart
  <2> QED BY <1>5, <2>2, <2>3 DEF FinishOf
<1>6. CASE \E f \in Folders : inFlightJobId[f] = event
  <2>1. PICK f \in Folders : FinishOf(f)
    BY <1>6 DEF OnJobEvent, FinishInFlight, FinishOf
  <2> QED BY <1>2, <1>3, <1>5, <2>1 DEF WatchInvariant
<1> QED BY <1>4, <1>6

\* A walk begins; a running scan is cancelled: no scan comes or goes.
LEMMA ClaimStep ==
  ASSUME WatchInvariant, NEW j \in Scans, ScanClaimed(j) \/ CancelRunningScan(j), TypeOK'
  PROVE  WatchInvariant'
<1>1. /\ UNCHANGED <<row, liveWatchEnabled, referenced, scanFolder, requestedBy, up, toAttach,
                     event, mode, debounce, fallbackTimer, inFlightJobId, pendingRescan>>
      /\ scan[j] # "unused" /\ Process' = Process
      /\ scan' \in {scan, [scan EXCEPT ![j] = "running"]}
      /\ cancelRequested' \in {cancelRequested, cancelRequested \cup {j}}
  BY DEF ScanClaimed, CancelRunningScan, WillWalk, Process, rowVars, threadVars, folderVars
<1>2. QueuePart'
  <2>1. ASSUME NEW k \in cancelRequested', scan'[k] = "queued"
        PROVE  requestedBy'[k] # Process'
    BY <1>1, <2>1 DEF ScanClaimed, CancelRunningScan, WatchInvariant, QueuePart, ScansHaveRows, TypeOK
  <2>2. ScansHaveRows' /\ FlightIsOwn'
    BY <1>1, <2>1 DEF WatchInvariant, QueuePart, ScansHaveRows, FlightIsOwn, TypeOK
  <2>3. InFlightWillEnd'
    BY <1>1 DEF WatchInvariant, QueuePart, InFlightWillEnd, TypeOK
  <2>4. OneScanPerFolder'
    BY <1>1 DEF WatchInvariant, QueuePart, OneScanPerFolder
  <2> QED BY <2>2, <2>3, <2>4 DEF QueuePart
<1>3. ThreadIsSane' /\ DownIsEmpty' /\ FolderPart'
  BY <1>1 DEF WatchInvariant, ThreadIsSane, DownIsEmpty, FolderPart, TimersFollowMode,
              WatchedHasItsRow, TypeOK
<1>4. ChangesWait'
  <2>1. CASE ScanClaimed(j)
    <3>1. /\ \A f \in Folders : f # scanFolder[j] => owed'[f] = owed[f] /\ withdrawn'[f] = withdrawn[f]
          /\ ~owed'[scanFolder[j]]
          /\ \A k \in Scans : k # j /\ WillWalk(k) => WillWalk(k)'
      BY <2>1 DEF ScanClaimed, WillWalk, WatchInvariant, TypeOK
    <3> QED BY <1>1, <3>1 DEF WatchInvariant, ChangesWait, SomethingWillWalk
  <2>2. CASE CancelRunningScan(j)
    <3>1. /\ UNCHANGED <<owed, withdrawn>>
          /\ \A k \in Scans : WillWalk(k) => WillWalk(k)'
      BY <2>2 DEF CancelRunningScan, changeVars, WillWalk
    <3> QED BY <1>1, <3>1 DEF WatchInvariant, ChangesWait, SomethingWillWalk
  <2> QED BY <2>1, <2>2
<1> QED BY <1>2, <1>3, <1>4 DEF WatchInvariant

\* A scan leaves the queue: what it was asked for by and waited for by goes with it.
LEMMA GoneStep ==
  ASSUME WatchInvariant, NEW j \in Scans, Gone(j), scan[j] # "unused", up,
         event' = j \/ (event' = event /\ \A f \in Folders : inFlightJobId[f] # j),
         event = NoScan \/ event' = event,
         UNCHANGED <<row, referenced, scanFolder, mode, inFlightJobId, pendingRescan, restarts>>,
         TypeOK'
  PROVE  QueuePart'
<1>1. Process' = Process /\ Process # TheUser
  BY DEF Process, TheUser, WatchInvariant, TypeOK
<1>2. /\ scan' = [scan EXCEPT ![j] = "unused"]
      /\ requestedBy' = [requestedBy EXCEPT ![j] = TheUser]
      /\ cancelRequested' = cancelRequested \ {j}
  BY DEF Gone
<1>3. ScansHaveRows' /\ FlightIsOwn' /\ OneScanPerFolder'
  BY <1>1, <1>2 DEF WatchInvariant, QueuePart, ScansHaveRows, FlightIsOwn, OneScanPerFolder, TypeOK
<1>4. InFlightWillEnd'
  BY <1>1, <1>2 DEF WatchInvariant, QueuePart, InFlightWillEnd, TypeOK
<1> QED BY <1>3, <1>4 DEF QueuePart

\* A scan ends, having walked, or is cancelled while queued: then what was to be walked by
\* it alone is withdrawn.
LEMMA EndStep ==
  ASSUME WatchInvariant, NEW j \in Scans, ScanEnds(j) \/ CancelQueuedScan(j), TypeOK'
  PROVE  WatchInvariant'
<1> USE DEF rowVars, folderVars
<1>1. /\ AtRest /\ scan[j] # "unused" /\ Gone(j) /\ event' = j
      /\ UNCHANGED <<row, liveWatchEnabled, referenced, scanFolder, up, toAttach, mode, debounce,
                     fallbackTimer, inFlightJobId, pendingRescan, restarts, owed>>
  BY DEF ScanEnds, CancelQueuedScan, changeVars
<1>2. QueuePart'
  BY <1>1, GoneStep DEF AtRest
<1>3. scan' = [scan EXCEPT ![j] = "unused"] /\ cancelRequested' = cancelRequested \ {j}
  BY <1>1 DEF Gone
<1>4. ThreadIsSane' /\ DownIsEmpty'
  BY <1>1, <1>3 DEF WatchInvariant, ThreadIsSane, DownIsEmpty, AtRest, TypeOK
<1>5. FolderPart'
  BY <1>1 DEF WatchInvariant, FolderPart, TimersFollowMode, WatchedHasItsRow
<1>6. ChangesWait'
  <2>1. \A k \in Scans : k # j /\ WillWalk(k) => WillWalk(k)'
    BY <1>3 DEF WillWalk, WatchInvariant, TypeOK
  <2>2. CASE ScanEnds(j)
    <3>1. withdrawn' = withdrawn /\ ~WillWalk(j)
      BY <2>2 DEF ScanEnds, changeVars, WillWalk
    <3> QED BY <1>1, <2>1, <3>1 DEF WatchInvariant, ChangesWait, SomethingWillWalk
  <2>3. CASE CancelQueuedScan(j)
    <3>1. ASSUME NEW f \in Folders, f # scanFolder[j], up, owed[f], mode[f] \in Live, ~withdrawn'[f]
          PROVE  SomethingWillWalk(f)'
      <4>1. ~withdrawn[f]
        BY <2>3, <3>1 DEF CancelQueuedScan, WatchInvariant, TypeOK
      <4> QED BY <1>1, <2>1, <3>1, <4>1 DEF WatchInvariant, ChangesWait, SomethingWillWalk
    <3>2. ASSUME NEW f \in Folders, f = scanFolder[j], up, owed[f], mode[f] \in Live, ~withdrawn'[f]
          PROVE  SomethingWillWalk(f)'
      <4>1. StandsBeside(f, j)
        <5>1. withdrawn' = [withdrawn EXCEPT ![f] = @ \/ (owed[f] /\ ~StandsBeside(f, j))]
          BY <2>3, <3>2 DEF CancelQueuedScan
        <5> HIDE DEF StandsBeside
        <5>2. withdrawn'[f] = (withdrawn[f] \/ (owed[f] /\ ~StandsBeside(f, j)))
          BY <5>1 DEF WatchInvariant, TypeOK
        <5> QED BY <3>2, <5>2
      <4> QED BY <1>1, <2>1, <4>1 DEF StandsBeside, SomethingWillWalk
    <3> QED BY <1>1, <3>1, <3>2 DEF ChangesWait
  <2> QED BY <2>2, <2>3 DEF ScanEnds, CancelQueuedScan, WatchInvariant
<1> QED BY <1>2, <1>4, <1>5, <1>6, <1>1 DEF WatchInvariant

\* The claim of a scan that was cancelled before the restart: it stood for nothing, and no
\* folder of this process waits for it.
LEMMA DropStep ==
  ASSUME WatchInvariant, NEW j \in Scans, DropCancelled(j), TypeOK'
  PROVE  WatchInvariant'
<1> USE DEF rowVars, folderVars, threadVars, changeVars
<1>1. /\ up /\ scan[j] = "queued" /\ j \in cancelRequested /\ Gone(j)
      /\ UNCHANGED <<row, liveWatchEnabled, referenced, scanFolder, up, toAttach, event, mode,
                     debounce, fallbackTimer, inFlightJobId, pendingRescan, restarts, owed, withdrawn>>
  BY DEF DropCancelled
<1>2. \A f \in Folders : inFlightJobId[f] # j
  BY <1>1, WatchAssumption DEF WatchInvariant, QueuePart, ScansHaveRows, InFlightWillEnd, ThreadIsSane
<1>3. QueuePart'
  BY <1>1, <1>2, GoneStep
<1>4. scan' = [scan EXCEPT ![j] = "unused"] /\ cancelRequested' = cancelRequested \ {j}
  BY <1>1 DEF Gone
<1>5. ThreadIsSane' /\ DownIsEmpty' /\ FolderPart'
  BY <1>1, <1>4 DEF WatchInvariant, ThreadIsSane, DownIsEmpty, FolderPart, TimersFollowMode,
                    WatchedHasItsRow, TypeOK
<1>6. ChangesWait'
  <2>1. \A k \in Scans : WillWalk(k) => WillWalk(k)'
    BY <1>1, <1>4 DEF WillWalk, WatchInvariant, TypeOK
  <2> QED BY <1>1, <2>1 DEF WatchInvariant, ChangesWait, SomethingWillWalk
<1> QED BY <1>3, <1>5, <1>6 DEF WatchInvariant

\* attachWatcher, at boot or for the user: row and flag as f ends up with them.
LEMMA AttachStep ==
  ASSUME WatchInvariant, TypeOK', NEW f \in Folders, Attach(f),
         up, up' = up, event = NoScan, event' = NoScan, row' = row, row[f] = "kept",
         restarts' = restarts,
         mode[f] # "forgotten",
         liveWatchEnabled' = [liveWatchEnabled EXCEPT ![f] = TRUE],
         toAttach' \subseteq toAttach \ {f}
  PROVE  WatchInvariant'
<1>1. /\ RequestScan(f)
      /\ debounce' = [debounce EXCEPT ![f] = FALSE]
      /\ fallbackTimer' = [fallbackTimer EXCEPT ![f] = FALSE]
      /\ mode' = [mode EXCEPT ![f] = "watching"]
      /\ Reported(f)
  BY DEF Attach, ClearFolderTimers
<1>2. /\ mode' \in [Folders -> Live \cup {"off", "forgotten"}]
      /\ \A g \in Folders : mode[g] = "forgotten" <=> mode'[g] = "forgotten"
  BY <1>1 DEF TypeOK, WatchInvariant
<1>3. /\ QueuePart'
      /\ pendingRescan'[f] \/ \E j \in Scans : WillWalk(j)' /\ scanFolder'[j] = f
      /\ \A g \in Folders : g # f => pendingRescan'[g] = pendingRescan[g]
      /\ \A k \in Scans : WillWalk(k) => WillWalk(k)' /\ scanFolder'[k] = scanFolder[k]
  BY <1>1, <1>2, RequestStep DEF WatchInvariant
<1>4. ThreadIsSane' /\ DownIsEmpty'
  BY <1>1 DEF WatchInvariant, ThreadIsSane, DownIsEmpty, TypeOK
<1>5. FolderPart'
  BY <1>1 DEF WatchInvariant, FolderPart, TimersFollowMode, WatchedHasItsRow, TypeOK
<1>6. ChangesWait'
  BY <1>1, <1>3 DEF WatchInvariant, ChangesWait, SomethingWillWalk, Reported, TypeOK
<1> QED BY <1>3, <1>4, <1>5, <1>6 DEF WatchInvariant

LEMMA AttachAtBootStep ==
  ASSUME WatchInvariant, NEW f \in Folders, AttachAtBoot(f), TypeOK'
  PROVE  WatchInvariant'
<1>1. /\ Attach(f) /\ up /\ up' = up /\ event = NoScan /\ event' = NoScan /\ row' = row
      /\ restarts' = restarts /\ row[f] = "kept" /\ mode[f] # "forgotten" /\ toAttach' = toAttach \ {f}
  BY DEF AttachAtBoot, WatchInvariant, ThreadIsSane, rowVars
<1>2. liveWatchEnabled' = [liveWatchEnabled EXCEPT ![f] = TRUE]
  BY DEF AttachAtBoot, WatchInvariant, ThreadIsSane, rowVars, TypeOK
<1> QED BY <1>1, <1>2, AttachStep

LEMMA EnableStep ==
  ASSUME WatchInvariant, NEW f \in Folders, EnableLiveWatch(f), TypeOK'
  PROVE  WatchInvariant'
<1>1. /\ up /\ toAttach = {} /\ event = NoScan /\ UNCHANGED <<up, toAttach, event, row, restarts>>
      /\ row[f] = "kept" /\ liveWatchEnabled' = [liveWatchEnabled EXCEPT ![f] = TRUE]
  BY DEF EnableLiveWatch, AtRest, threadVars
<1>2. CASE mode[f] \in {"off", "fallback"} /\ Attach(f)
  BY <1>1, <1>2, AttachStep
<1>3. CASE UNCHANGED <<folderVars, queueVars, changeVars>>
  <2>0. Process' = Process
    BY <1>1 DEF Process
  <2>1. QueuePart'
    BY <1>1, <1>3, <2>0 DEF WatchInvariant, QueuePart, ScansHaveRows, FlightIsOwn, InFlightWillEnd,
                      OneScanPerFolder, folderVars, queueVars
  <2>2. ThreadIsSane' /\ DownIsEmpty'
    BY <1>1, <1>3, <2>0 DEF WatchInvariant, ThreadIsSane, DownIsEmpty, folderVars, queueVars
  <2>3. FolderPart'
    BY <1>1, <1>3 DEF WatchInvariant, FolderPart, TimersFollowMode, WatchedHasItsRow, folderVars, TypeOK
  <2>4. ChangesWait'
    BY <1>1, <1>3 DEF WatchInvariant, ChangesWait, SomethingWillWalk, WillWalk, folderVars, queueVars,
                      changeVars
  <2> QED BY <2>1, <2>2, <2>3, <2>4 DEF WatchInvariant
<1> QED BY <1>2, <1>3 DEF EnableLiveWatch

LEMMA AddStep ==
  ASSUME WatchInvariant, NEW f \in Folders, AddFolder(f), TypeOK'
  PROVE  WatchInvariant'
<1> USE DEF queueVars, threadVars, changeVars, AtRest
<1>0. Process' = Process
  BY DEF AddFolder, Process
<1>1. f \notin referenced /\ inFlightJobId[f] = NoScan
  BY DEF AddFolder, WatchInvariant, QueuePart, ScansHaveRows, FlightIsOwn
<1>2. QueuePart'
  <2>1. ScansHaveRows' /\ FlightIsOwn' /\ InFlightWillEnd'
    BY <1>0, <1>1 DEF WatchInvariant, QueuePart, ScansHaveRows, FlightIsOwn, InFlightWillEnd,
                      AddFolder, TypeOK
  <2>2. \A j \in Scans : requestedBy[j] = Process => scanFolder[j] # f
    BY <1>1 DEF WatchInvariant, QueuePart, ScansHaveRows, TypeOK, Process, TheUser
  <2>3. OneScanPerFolder'
    BY <1>0, <1>1, <2>2 DEF WatchInvariant, QueuePart, OneScanPerFolder, AddFolder, TypeOK
  <2> QED BY <2>1, <2>3 DEF QueuePart
<1>3. ThreadIsSane' /\ DownIsEmpty'
  BY <1>0 DEF WatchInvariant, ThreadIsSane, DownIsEmpty, AddFolder
<1>4. mode[f] \notin Live /\ mode'[f] = "off"
  BY DEF WatchInvariant, FolderPart, WatchedHasItsRow, AddFolder, TypeOK
<1>5. FolderPart'
  BY <1>4 DEF WatchInvariant, FolderPart, TimersFollowMode, WatchedHasItsRow, AddFolder, Live, TypeOK
<1>6. ChangesWait'
  BY <1>4 DEF WatchInvariant, ChangesWait, SomethingWillWalk, WillWalk, AddFolder, Live, TypeOK
<1> QED BY <1>2, <1>3, <1>5, <1>6 DEF WatchInvariant

LEMMA RemoveStep ==
  ASSUME WatchInvariant, NEW f \in Folders, RemoveFolder(f), TypeOK'
  PROVE  WatchInvariant'
<1> USE DEF queueVars, threadVars, changeVars, AtRest, ClearFolderTimers
<1>0. Process' = Process
  BY DEF RemoveFolder, Process
<1>1. /\ \A g \in referenced : row'[g] = "kept"
      /\ \A g \in Folders : g # f => row'[g] = row[g]
  BY DEF RemoveFolder, WatchInvariant, QueuePart, ScansHaveRows, TypeOK
<1>2. ScansHaveRows' /\ FlightIsOwn' /\ InFlightWillEnd'
  BY <1>0, <1>1 DEF WatchInvariant, QueuePart, ScansHaveRows, FlightIsOwn, InFlightWillEnd, RemoveFolder, TypeOK
<1>3. OneScanPerFolder'
  BY <1>0 DEF WatchInvariant, QueuePart, OneScanPerFolder, RemoveFolder, TypeOK
<1>4. ThreadIsSane' /\ DownIsEmpty'
  BY <1>0 DEF WatchInvariant, ThreadIsSane, DownIsEmpty, RemoveFolder
<1>5. FolderPart'
  BY <1>1 DEF WatchInvariant, FolderPart, TimersFollowMode, WatchedHasItsRow, RemoveFolder, Live, TypeOK
<1>6. ChangesWait'
  BY DEF WatchInvariant, ChangesWait, SomethingWillWalk, WillWalk, RemoveFolder, Live, TypeOK
<1> QED BY <1>2, <1>3, <1>4, <1>5, <1>6 DEF WatchInvariant, QueuePart

LEMMA DisableStep ==
  ASSUME WatchInvariant, NEW f \in Folders, DisableLiveWatch(f), TypeOK'
  PROVE  WatchInvariant'
<1> USE DEF queueVars, threadVars, changeVars, AtRest, ClearFolderTimers
<1>0. Process' = Process
  BY DEF DisableLiveWatch, Process
<1>1. /\ mode'[f] \in {"off", "forgotten"}
      /\ mode[f] = "forgotten" => mode'[f] = "forgotten"
      /\ \A g \in Folders : g # f => /\ mode'[g] = mode[g] /\ debounce'[g] = debounce[g]
                                     /\ fallbackTimer'[g] = fallbackTimer[g]
                                     /\ liveWatchEnabled'[g] = liveWatchEnabled[g]
  BY DEF DisableLiveWatch, WatchInvariant, TypeOK
<1>2. ~debounce'[f] /\ ~fallbackTimer'[f]
  BY DEF DisableLiveWatch, WatchInvariant, FolderPart, TimersFollowMode, TypeOK
<1>3. QueuePart'
  BY <1>0, <1>1 DEF WatchInvariant, QueuePart, ScansHaveRows, FlightIsOwn, InFlightWillEnd,
              OneScanPerFolder, DisableLiveWatch, TypeOK
<1>4. ThreadIsSane' /\ DownIsEmpty'
  BY <1>0 DEF WatchInvariant, ThreadIsSane, DownIsEmpty, DisableLiveWatch
<1>5. FolderPart'
  BY <1>1, <1>2 DEF WatchInvariant, FolderPart, TimersFollowMode, WatchedHasItsRow, DisableLiveWatch, Live
<1>6. ChangesWait'
  BY <1>1 DEF WatchInvariant, ChangesWait, SomethingWillWalk, WillWalk, DisableLiveWatch, Live
<1> QED BY <1>3, <1>4, <1>5, <1>6 DEF WatchInvariant

LEMMA ManualStep ==
  ASSUME WatchInvariant, NEW f \in Folders, ManualScan(f), TypeOK'
  PROVE  WatchInvariant'
<1> USE DEF rowVars, threadVars, folderVars, changeVars, AtRest
<1>0. Process' = Process
  BY DEF ManualScan, Process
<1>1. PICK j \in Scans : EnqueueScan(f, j)
  BY DEF ManualScan
<1>2. /\ scan[j] = "unused" /\ requestedBy[j] = TheUser /\ j \notin cancelRequested
      /\ \A g \in Folders : inFlightJobId[g] # j
      /\ UNCHANGED <<requestedBy, cancelRequested>>
      /\ scan' = [scan EXCEPT ![j] = "queued"]
      /\ scanFolder' = [scanFolder EXCEPT ![j] = f]
      /\ referenced' = referenced \cup {f}
  BY <1>1, WatchAssumption DEF EnqueueScan, Fresh, Free, ManualScan, WatchInvariant, QueuePart, ScansHaveRows
<1>3. QueuePart'
  <2>1. ScansHaveRows' /\ FlightIsOwn' /\ InFlightWillEnd'
    BY <1>0, <1>2 DEF WatchInvariant, QueuePart, ScansHaveRows, FlightIsOwn, InFlightWillEnd,
                      ManualScan, TypeOK
  <2>2. Process # TheUser
    BY DEF WatchInvariant, TypeOK, Process, TheUser
  <2>3. OneScanPerFolder'
    BY <1>0, <1>2, <2>2 DEF WatchInvariant, QueuePart, OneScanPerFolder, ManualScan, TypeOK
  <2> QED BY <2>1, <2>3 DEF QueuePart
<1>4. ThreadIsSane' /\ DownIsEmpty' /\ FolderPart'
  BY <1>0 DEF WatchInvariant, ThreadIsSane, DownIsEmpty, FolderPart, TimersFollowMode,
         WatchedHasItsRow, ManualScan
<1>5. ChangesWait'
  BY <1>2 DEF WatchInvariant, ChangesWait, SomethingWillWalk, WillWalk, ManualScan, TypeOK
<1> QED BY <1>3, <1>4, <1>5 DEF WatchInvariant

\* A change, and the watch limit: the timers move, the queue does not.
LEMMA WatcherStep ==
  ASSUME WatchInvariant, NEW f \in Folders, FsEvent(f) \/ WatcherLimit(f), TypeOK'
  PROVE  WatchInvariant'
<1>1. /\ AtRest /\ mode[f] = "watching"
      /\ UNCHANGED <<row, liveWatchEnabled, referenced, scan, scanFolder, requestedBy, cancelRequested,
                     up, toAttach, event, inFlightJobId, pendingRescan>>
      /\ \A g \in Folders : mode'[g] = "forgotten" <=> mode[g] = "forgotten"
      /\ Process' = Process
  BY DEF FsEvent, WatcherLimit, rowVars, queueVars, threadVars, WatchInvariant, Process, TypeOK
<1>2. QueuePart'
  BY <1>1 DEF WatchInvariant, QueuePart, ScansHaveRows, FlightIsOwn, InFlightWillEnd, OneScanPerFolder,
              TypeOK
<1>3. ThreadIsSane' /\ DownIsEmpty'
  BY <1>1 DEF WatchInvariant, ThreadIsSane, DownIsEmpty, AtRest
<1>4. CASE FsEvent(f)
  BY <1>1, <1>2, <1>3, <1>4 DEF FsEvent, WatchInvariant, FolderPart, TimersFollowMode,
                                WatchedHasItsRow, ChangesWait, SomethingWillWalk, WillWalk,
                                Reported, TypeOK
<1>5. CASE WatcherLimit(f)
  <2>1. FolderPart'
    BY <1>1, <1>5 DEF WatcherLimit, FallbackTimers, WatchInvariant, FolderPart, TimersFollowMode,
                      WatchedHasItsRow, Live, TypeOK
  <2>2. ChangesWait'
    BY <1>1, <1>5 DEF WatcherLimit, FallbackTimers, WatchInvariant, ChangesWait,
                      SomethingWillWalk, WillWalk, changeVars, TypeOK
  <2> QED BY <1>2, <1>3, <2>1, <2>2 DEF WatchInvariant
<1> QED BY <1>4, <1>5

\* A timer fires: what it stood for is handed to the scan it requests or defers.
LEMMA TimerStep ==
  ASSUME WatchInvariant, NEW f \in Folders, DebounceFires(f) \/ FallbackTick(f), TypeOK'
  PROVE  WatchInvariant'
<1>1. /\ AtRest /\ RequestScan(f) /\ mode[f] \in Live
      /\ UNCHANGED <<row, liveWatchEnabled, up, toAttach, event, mode, fallbackTimer, owed, withdrawn,
                     restarts>>
      /\ debounce' \in {debounce, [debounce EXCEPT ![f] = FALSE]}
  BY DEF DebounceFires, FallbackTick, rowVars, threadVars, changeVars, WatchInvariant, FolderPart,
         TimersFollowMode, Live
<1>2. /\ row[f] = "kept" /\ event = NoScan /\ event' = NoScan
      /\ mode[f] # "forgotten" /\ Process' = Process
  BY <1>1 DEF WatchInvariant, FolderPart, WatchedHasItsRow, AtRest, Live, Process
<1>3. /\ QueuePart'
      /\ pendingRescan'[f] \/ \E j \in Scans : WillWalk(j)' /\ scanFolder'[j] = f
      /\ \A g \in Folders : g # f => pendingRescan'[g] = pendingRescan[g]
      /\ \A k \in Scans : WillWalk(k) => WillWalk(k)' /\ scanFolder'[k] = scanFolder[k]
  BY <1>1, <1>2, RequestStep DEF WatchInvariant, TypeOK
<1>4. ThreadIsSane' /\ DownIsEmpty'
  BY <1>1 DEF WatchInvariant, ThreadIsSane, DownIsEmpty, AtRest
<1>5. FolderPart'
  BY <1>1 DEF WatchInvariant, FolderPart, TimersFollowMode, WatchedHasItsRow, TypeOK
<1>6. ChangesWait'
  BY <1>1, <1>3 DEF WatchInvariant, ChangesWait, SomethingWillWalk, TypeOK
<1> QED BY <1>3, <1>4, <1>5, <1>6 DEF WatchInvariant

\* Every step keeps the invariant.
LEMMA InvariantStep == WatchInvariant /\ [Next]_vars => WatchInvariant'
<1> SUFFICES ASSUME WatchInvariant, [Next]_vars PROVE WatchInvariant'
  OBVIOUS
<1>1. TypeOK'
  BY TypeStep DEF WatchInvariant
<1>2. CASE UNCHANGED vars
  BY <1>2, <1>1 DEF vars, rowVars, queueVars, threadVars, folderVars, changeVars, Process, WatchInvariant, QueuePart,
                    ScansHaveRows, FlightIsOwn, InFlightWillEnd, OneScanPerFolder, ThreadIsSane,
                    DownIsEmpty, FolderPart, TimersFollowMode, WatchedHasItsRow, ChangesWait,
                    SomethingWillWalk, WillWalk
<1>3. ASSUME NEW j \in Scans, Queue(j) PROVE WatchInvariant'
  BY <1>1, <1>3, ClaimStep, EndStep, DropStep DEF Queue
<1>4. ASSUME NEW f \in Folders, UserCall(f) PROVE WatchInvariant'
  BY <1>1, <1>4, AddStep, RemoveStep, EnableStep, DisableStep, ManualStep DEF UserCall
<1>5. ASSUME NEW f \in Folders,
             AttachAtBoot(f) \/ FsEvent(f) \/ WatcherLimit(f) \/ DebounceFires(f) \/ FallbackTick(f)
      PROVE  WatchInvariant'
  BY <1>1, <1>5, AttachAtBootStep, WatcherStep, TimerStep
<1>6. CASE Boot \/ ProcessDies \/ OnJobEvent
  BY <1>1, <1>6, BootStep, DeathStep, EventStep
<1> QED BY <1>2, <1>3, <1>4, <1>5, <1>6 DEF Next

\* The process is down and no folder is watched.
LEMMA InvariantInit == Init => WatchInvariant
<1> SUFFICES ASSUME Init PROVE WatchInvariant
  OBVIOUS
<1>1. TypeOK
  <2>1. scanFolder \in [Scans -> Folders]
    BY DEF Init
  <2>2. mode \in [Folders -> Live \cup {"off", "forgotten"}]
    BY DEF Init, Live
  <2>3. restarts \in 0..MaxRestarts
    BY WatchAssumption DEF Init
  <2>4. requestedBy \in [Scans -> TheUser..Process]
    BY DEF Init, TheUser, Process
  <2> QED BY <2>1, <2>2, <2>3, <2>4 DEF Init, TypeOK
<1>2. /\ referenced = {} /\ cancelRequested = {} /\ toAttach = {} /\ event = NoScan
      /\ \A j \in Scans : scan[j] = "unused" /\ requestedBy[j] = TheUser /\ TheUser # Process
      /\ \A f \in Folders : mode[f] = "forgotten" /\ ~debounce[f] /\ ~fallbackTimer[f]
      /\ \A f \in Folders : inFlightJobId[f] = NoScan /\ ~pendingRescan[f]
  BY DEF Init, TheUser, Process
<1>3. QueuePart
  BY <1>2 DEF QueuePart, ScansHaveRows, FlightIsOwn, InFlightWillEnd, OneScanPerFolder
<1>4. ThreadIsSane /\ DownIsEmpty /\ FolderPart /\ ChangesWait
  BY <1>2 DEF ThreadIsSane, DownIsEmpty, FolderPart, TimersFollowMode, WatchedHasItsRow,
              ChangesWait, Live
<1> QED BY <1>1, <1>3, <1>4 DEF WatchInvariant

-----------------------------------------------------------------------------
(* The theorems.                                                            *)

\* Whatever the user, the file system, the queue and the restarts do, in any order, the
\* manager's state satisfies the inductive invariant.
THEOREM WatchInvariantHolds == Spec => []WatchInvariant
BY InvariantInit, InvariantStep, PTL DEF Spec

\* Every variable of the manager, its timers and its view of the queue keeps its type.
THEOREM TypeCorrect == Spec => []TypeOK
<1>1. WatchInvariant => TypeOK
  BY DEF WatchInvariant
<1> QED BY <1>1, WatchInvariantHolds, PTL

\* requestScan's guard keeps its word within each process, whichever trigger fires while a
\* scan is queued, running or ending: the watch-triggered scans of a folder that exist
\* together were asked for by as many processes.  Across restarts there may be several.
THEOREM OneScanEach == Spec => []OneScanPerFolder
<1>1. WatchInvariant => OneScanPerFolder
  BY DEF WatchInvariant, QueuePart
<1> QED BY <1>1, WatchInvariantHolds, PTL

\* A folder never waits for a scan that is gone: the terminal event that frees it is on its
\* way, and a deferred rescan always has such a scan to wait for.
THEOREM WaitsForALiveScan == Spec => []InFlightWillEnd
<1>1. WatchInvariant => InFlightWillEnd
  BY DEF WatchInvariant, QueuePart
<1> QED BY <1>1, WatchInvariantHolds, PTL

\* No timer outlives the mode it belongs to, and a folder in fallback always has its interval.
THEOREM TimersBelong == Spec => []TimersFollowMode
<1>1. WatchInvariant => TimersFollowMode
  BY DEF WatchInvariant, FolderPart
<1> QED BY <1>1, WatchInvariantHolds, PTL

\* No watcher runs against a folder whose row is gone or has opted out (index.ts).
THEOREM WatchedIsKept == Spec => []WatchedHasItsRow
<1>1. WatchInvariant => WatchedHasItsRow
  BY DEF WatchInvariant, FolderPart
<1> QED BY <1>1, WatchInvariantHolds, PTL

\* A change reported for a watched folder has a timer, a deferred rescan or a queued scan
\* that was not cancelled to walk it until a walk begins, or until the user cancels a queued
\* scan when nothing else stands for the change, which drops it.
THEOREM NoChangeIsDropped == Spec => []ChangeIsNotDropped
<1>1. WatchInvariant => ChangeIsNotDropped
  BY DEF WatchInvariant, ChangesWait, SomethingWillWalk, WillWalk, ChangeIsNotDropped, AtRest
<1> QED BY <1>1, WatchInvariantHolds, PTL
=============================================================================
