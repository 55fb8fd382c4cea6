------------------------------- MODULE Indexer -------------------------------
(* Scans and hash passes at work on the files rows: what a worker reads     *)
(* from a disk that changes under it, the batches it sends, and the         *)
(* handlers of the main process that write them to the table.               *)
(*                                                                          *)
(* The queue is taken as JobLifecycle promises it: at most PoolSize jobs    *)
(* run, requeued scans go first, hash passes last, and a job that the       *)
(* process leaves behind when it dies is requeued with its startedAt. A     *)
(* handler is one step, except that a transaction is one step per row it    *)
(* writes and that onDone of a scan leaves room for the calls its event     *)
(* makes before the sweep. Workers and disk wait meanwhile: a handler reads *)
(* nothing of theirs, so their steps might as well come before it. Death    *)
(* does not wait.                                                           *)
EXTENDS Catalog

CONSTANTS
  Unreadable,   \* contents that no read succeeds on
  Malformed,    \* contents whose header does not parse
  PoolSize, BatchSize, HashBatchSize, HashLimit,
  MaxScans,                          \* bound: scan jobs
  ChangeKinds,                       \* what may happen to the disk
  MaxChanges,                        \* bound: how often it does
  MaxBreaks,                         \* bound: jobs that stop early, and restarts
  MaxBacklog                         \* bound: hash jobs that wait

ASSUME IndexerAssumption ==
  /\ FolderOf \in [Places -> Folders] /\ Size \in [Contents -> Nat]
  /\ Digest \in [Contents -> Digests]
  /\ \A c, d \in Contents : Stat[c] = Stat[d] => Size[c] = Size[d]
  /\ None \notin Contents \cup Digests \cup Places
  /\ Unreadable \subseteq Contents /\ Malformed \subseteq Contents
  /\ {PoolSize, BatchSize, HashBatchSize, HashLimit} \subseteq Nat \ {0}
  /\ {MaxScans, MaxChanges, MaxBreaks, MaxBacklog} \subseteq Nat

VARIABLES
  disk,         \* place -> the content there, or None
  used,         \* how much of each bound is used up
  rows,         \* the table
  clock,        \* the latest startedAt given out
  scan,         \* scan -> its job row and, while it runs, its worker
  hash,         \* slot -> the hash pass in it
  backlog,      \* queued hash jobs
  outbox,       \* job -> what its worker has sent and nobody handled
  applying,     \* the items of the open transaction still to be written
  txScan,       \* the scan whose batch it is, NoJob for hash results
  savedRows,    \* the table when it began
  sweeping,     \* the scan whose completion is being emitted, or NoJob
  calm,         \* history: scans not disturbed since they started
  racy          \* history: places that changed while a job was at work, or
                \* unhashed, or by an edit that left size and mtime, and
                \* those that what was known of them moved to

txVars == <<applying, txScan, savedRows>>
history == <<calm, racy>>
vars == <<disk, used, rows, clock, scan, hash, backlog, outbox, applying,
          txScan, savedRows, sweeping, history>>

Scans == 1..MaxScans
NoJob == 0
Slots == 1..PoolSize
\* What outbox is indexed by: scans by number, hash passes by slot
Jobs == [type : {"scan"}, id : Scans] \cup [type : {"hash"}, id : Slots]
ScanJob(s) == [type |-> "scan", id |-> s]
HashJob(h) == [type |-> "hash", id |-> h]

-----------------------------------------------------------------------------
(* Messages and items.                                                      *)

Same(p, c) == [kind |-> "same", place |-> p, stat |-> c]
Parsed(p, c, d) == [kind |-> "parsed", place |-> p, stat |-> c, read |-> d]
Failed(p, c) == [kind |-> "failed", place |-> p, stat |-> c]
Moved(p, c, r, h) == [kind |-> "moved", place |-> p, stat |-> c, row |-> r, sha256 |-> h]
Hashed(r, h) == [kind |-> "hashed", row |-> r, sha256 |-> h]
HashError(r) == [kind |-> "hashError", row |-> r]

Items ==
  [kind : {"same", "failed"}, place : Places, stat : Contents]
    \cup [kind : {"parsed"}, place : Places, stat : Contents, read : Contents]
    \cup [kind : {"moved"}, place : Places, stat : Contents, row : Nat, sha256 : Digests]
    \cup [kind : {"hashed"}, row : Nat, sha256 : Digests]
    \cup [kind : {"hashError"}, row : Nat]

Batch(items) == [type |-> "batch", items |-> items]
Done == [type |-> "done"]
Stopped == [type |-> "stopped"]

\* A worker's next messages: its batch once it is full
Flushed(box, items, size) ==
  IF Len(items) >= size THEN Append(box, Batch(items)) ELSE box
Kept(items, size) == IF Len(items) >= size THEN <<>> ELSE items

\* Its last ones: what is left of the batch, then the final message
Finished(box, items, message) ==
  (IF items = <<>> THEN box ELSE Append(box, Batch(items))) \o <<message>>

-----------------------------------------------------------------------------
(* State.                                                                   *)

NoFiles == [p \in {} |-> None]

\* Job columns and, below, the variables of runScanJob
NoWork == [known |-> NoFiles, candidates |-> {}, left |-> {}, at |-> None,
           stat |-> None, batch |-> <<>>]
NewScan == [status |-> "new", folder |-> None, startedAt |-> 0, work |-> NoWork]
IdleHash == [status |-> "idle", todo |-> {}, batch |-> <<>>]
NoRows == <<>>

HoldsSlot(s) == scan[s].status \in {"running", "ended"}
Active(s) == HoldsSlot(s) \/ scan[s].status = "queued"
SlotIsFree ==
  Cardinality({s \in Scans : HoldsSlot(s)})
    + Cardinality({h \in Slots : hash[h].status # "idle"}) < PoolSize

\* What a crash leaves of the table
Committed == IF applying = <<>> THEN rows ELSE savedRows

\* The main thread is in no handler
AtRest == applying = <<>> /\ sweeping = NoJob

Walking(s) == AtRest /\ scan[s].status = "running"
Hashing(h) == AtRest /\ hash[h].status = "running"

Init ==
  /\ disk \in [Places -> Contents \cup {None}]
  /\ used = [changes |-> 0, breaks |-> 0]
  /\ rows = <<>>
  /\ clock = 0
  /\ scan = [s \in Scans |-> NewScan]
  /\ hash = [h \in Slots |-> IdleHash]
  /\ backlog = 0
  /\ outbox = [j \in Jobs |-> <<>>]
  /\ applying = <<>> /\ txScan = NoJob /\ savedRows = NoRows
  /\ sweeping = NoJob
  /\ calm = {} /\ racy = {}

-----------------------------------------------------------------------------
(* The disk: files are written, deleted and moved, drives come and go.      *)

\* The scans of a folder that a change now could mislead
Disturbed(ps) ==
  {s \in Scans : /\ Active(s) \/ s = sweeping
                 /\ \E p \in ps : FolderOf[p] = scan[s].folder}

SomeoneWorks ==
  sweeping # NoJob \/ (\E s \in Scans : Active(s)) \/ (\E h \in Slots : hash[h].status # "idle")

\* An edit that leaves the size and the modification time the row has: no scan
\* will notice it
Unnoticed(p) ==
  \E r \in DOMAIN rows : /\ IsAt(rows, r, p)
                         /\ disk'[p] \notin {None, rows[r].stat}
                         /\ Stat[rows[r].stat] = Stat[disk'[p]]

\* What is known of the place may not be of its bytes from now on
Races(p) == SomeoneWorks \/ (\E r \in Unhashed(rows) : IsAt(rows, r, p)) \/ Unnoticed(p)

Changed(kind, ps) ==
  /\ AtRest /\ kind \in ChangeKinds /\ used.changes < MaxChanges
  /\ used' = [used EXCEPT !.changes = @ + 1]
  /\ calm' = calm \ Disturbed(ps)
  /\ racy' = racy \cup {p \in ps : Races(p)}
  /\ UNCHANGED <<rows, clock, scan, hash, backlog, outbox, txVars, sweeping>>

WriteFile(p, c) ==
  /\ disk[p] # c
  /\ disk' = [disk EXCEPT ![p] = c]
  /\ Changed("write", {p})

DeleteFile(p) ==
  /\ disk[p] # None
  /\ disk' = [disk EXCEPT ![p] = None]
  /\ Changed("delete", {p})

MoveFile(p, q) ==
  /\ disk[p] # None /\ disk[q] = None
  /\ disk' = [disk EXCEPT ![p] = None, ![q] = disk[p]]
  /\ Changed("move", {p, q})

-----------------------------------------------------------------------------
(* Dispatch: what the worker is told of the table.                          *)

\* A requeued job keeps the startedAt of its first claim
StartedAt(s) == IF scan[s].status = "queued" THEN scan[s].startedAt ELSE clock + 1

Dispatch(s, f) ==
  scan' = [scan EXCEPT ![s] =
    [status |-> "running", folder |-> f, startedAt |-> StartedAt(s),
     work |-> [NoWork EXCEPT !.known = KnownFiles(rows, f),
                             !.candidates = MoveCandidates(rows),
                             !.left = {p \in Places : FolderOf[p] = f}]]]

\* A listener of the completion being emitted may enqueue and claim as well
ClaimScan(s, f) ==
  /\ applying = <<>> /\ SlotIsFree
  /\ scan[s].status = "new"
  /\ \A q \in Scans : q < s => scan[q].status \notin {"new", "queued"}
  /\ Dispatch(s, f)
  /\ clock' = clock + 1
  /\ LET others == {q \in Scans : Active(q) /\ scan[q].folder = f}
     IN calm' = (calm \ others) \cup (IF others = {} THEN {s} ELSE {})
  /\ UNCHANGED racy
  /\ UNCHANGED <<disk, used, rows, hash, backlog, outbox, txVars, sweeping>>

ClaimRequeued(s) ==
  /\ applying = <<>> /\ SlotIsFree
  /\ scan[s].status = "queued"
  /\ \A q \in Scans : q < s => scan[q].status # "queued"
  /\ Dispatch(s, scan[s].folder)
  /\ UNCHANGED <<disk, used, rows, clock, hash, backlog, outbox, txVars, sweeping, history>>

ClaimHash(h) ==
  /\ AtRest /\ SlotIsFree /\ backlog > 0
  /\ \A s \in Scans : scan[s].status # "queued"
  /\ hash[h].status = "idle" /\ \A g \in Slots : g < h => hash[g].status # "idle"
  /\ \E ids \in OldestUnhashed(rows, HashLimit) :
       hash' = [hash EXCEPT ![h] =
         [status |-> "running", batch |-> <<>>,
          todo |-> {[row |-> r, place |-> rows[r].place] : r \in ids}]]
  /\ backlog' = backlog - 1
  /\ UNCHANGED <<disk, used, rows, clock, scan, outbox, txVars, sweeping, history>>

-----------------------------------------------------------------------------
(* The scan worker.                                                         *)

WorkerOnly == UNCHANGED <<disk, used, rows, clock, backlog, txVars, sweeping, history>>
ScanWorker == WorkerOnly /\ UNCHANGED hash
HashWorker == WorkerOnly /\ UNCHANGED scan

\* The file is dealt with: its item joins the batch
Report(s, left, item) ==
  LET items == Append(scan[s].work.batch, item)
  IN /\ scan' = [scan EXCEPT ![s].work.left = left, ![s].work.at = None,
                             ![s].work.stat = None,
                             ![s].work.batch = Kept(items, BatchSize)]
     /\ outbox' = [outbox EXCEPT ![ScanJob(s)] = Flushed(@, items, BatchSize)]

\* By size and modification time
IsUnchanged(work, p, c) == p \in DOMAIN work.known /\ Stat[work.known[p]] = Stat[c]

\* A bug: it is not
PendingAlways(p, c) == p

\* A path that is gone by the time of its stat is skipped
Pending(p, c) == IF c = None THEN None ELSE p

\* The walk comes by a place
Visit(s, p) ==
  LET work == scan[s].work
      left == work.left \ {p}
      c == disk[p]
  IN /\ Walking(s) /\ work.at = None /\ p \in work.left
     /\ IF c # None /\ IsUnchanged(work, p, c)
        THEN Report(s, left, Same(p, c))
        ELSE /\ scan' = [scan EXCEPT ![s].work.left = left,
                                     ![s].work.at = Pending(p, c),
                                     ![s].work.stat = c]
             /\ UNCHANGED outbox
     /\ ScanWorker

\* Missing rows with the size of the file and the hash it is found to have
DetectMove(work, c, d) ==
  {m \in work.candidates : m.size = Size[c] /\ m.sha256 = Digest[d]}

\* The file is opened: by now it may have changed again, or gone
ReadFile(s) ==
  LET work == scan[s].work
      p == work.at
      c == work.stat
      d == disk[p]
      readable == d \notin Unreadable \cup {None}
      moves == IF p \in DOMAIN work.known \/ ~readable THEN {} ELSE DetectMove(work, c, d)
      item == CASE moves # {} ->
                     LET m == CHOOSE m \in moves : \A n \in moves : m.row <= n.row
                     IN Moved(p, c, m.row, m.sha256)
                [] moves = {} /\ readable /\ d \notin Malformed -> Parsed(p, c, d)
                [] OTHER -> Failed(p, c)
  IN /\ Walking(s) /\ work.at # None
     /\ Report(s, work.left, item)
     /\ ScanWorker

WalkEnds(s) ==
  LET work == scan[s].work
  IN /\ Walking(s) /\ work.at = None /\ work.left = {}
     /\ scan' = [scan EXCEPT ![s].status = "ended", ![s].work = NoWork]
     /\ outbox' = [outbox EXCEPT ![ScanJob(s)] = Finished(@, work.batch, Done)]
     /\ ScanWorker

\* A cancel, a throw or a crash: the batch at hand is not sent, unless the
\* cancel comes after the last file
Breaks == used.breaks < MaxBreaks /\ used' = [used EXCEPT !.breaks = @ + 1]
Leftover(atEnd, items) == {<<>>} \cup (IF atEnd THEN {items} ELSE {})

WalkStops(s) ==
  LET work == scan[s].work
  IN /\ Walking(s) /\ Breaks
     /\ scan' = [scan EXCEPT ![s].status = "ended", ![s].work = NoWork]
     /\ \E items \in Leftover(work.left = {} /\ work.at = None, work.batch) :
          outbox' = [outbox EXCEPT ![ScanJob(s)] = Finished(@, items, Stopped)]
     /\ UNCHANGED <<disk, rows, clock, hash, backlog, txVars, sweeping, history>>

-----------------------------------------------------------------------------
(* The hash worker.                                                         *)

HashNext(h) ==
  \E file \in hash[h].todo :
    LET c == disk[file.place]
        items == Append(hash[h].batch, IF c \in Unreadable \cup {None}
                                       THEN HashError(file.row)
                                       ELSE Hashed(file.row, Digest[c]))
    IN /\ Hashing(h)
       /\ \A other \in hash[h].todo :
            rows[file.row].firstSeenAt <= rows[other.row].firstSeenAt
       /\ hash' = [hash EXCEPT ![h].todo = @ \ {file},
                               ![h].batch = Kept(items, HashBatchSize)]
       /\ outbox' = [outbox EXCEPT ![HashJob(h)] = Flushed(@, items, HashBatchSize)]
       /\ HashWorker

HashEnds(h) ==
  /\ Hashing(h) /\ hash[h].todo = {}
  /\ hash' = [hash EXCEPT ![h] = [IdleHash EXCEPT !.status = "ended"]]
  /\ outbox' = [outbox EXCEPT ![HashJob(h)] = Finished(@, hash[h].batch, Done)]
  /\ HashWorker

HashStops(h) ==
  /\ Hashing(h) /\ Breaks
  /\ hash' = [hash EXCEPT ![h] = [IdleHash EXCEPT !.status = "ended"]]
  /\ \E items \in Leftover(hash[h].todo = {}, hash[h].batch) :
       outbox' = [outbox EXCEPT ![HashJob(h)] = Finished(@, items, Stopped)]
  /\ UNCHANGED <<disk, rows, clock, scan, backlog, txVars, sweeping, history>>

-----------------------------------------------------------------------------
(* The main process: batches. The items of a batch are written in one       *)
(* transaction, in which no other handler runs.                             *)

Arrives(j, type) == AtRest /\ outbox[j] # <<>> /\ Head(outbox[j]).type = type
Pop(j) == outbox' = [outbox EXCEPT ![j] = Tail(@)]

TakeBatch(j) ==
  /\ Arrives(j, "batch") /\ Pop(j)
  /\ applying' = Head(outbox[j]).items
  /\ txScan' = IF j.type = "scan" THEN j.id ELSE NoJob
  /\ savedRows' = rows
  /\ UNCHANGED <<disk, used, rows, clock, scan, hash, backlog, sweeping, history>>

Item == Head(applying)
SeenAt == scan[txScan].startedAt

\* One item is written; the last one commits
Writes(table) ==
  /\ rows' = table
  /\ applying' = Tail(applying)
  /\ IF Tail(applying) = <<>> THEN txScan' = NoJob /\ savedRows' = NoRows
                              ELSE UNCHANGED <<txScan, savedRows>>
  /\ UNCHANGED <<disk, used, clock, scan, hash, backlog, outbox, sweeping, calm>>

Write(table) == Writes(table) /\ UNCHANGED racy

Arriving(kinds) == applying # <<>> /\ Item.kind \in kinds
StillMissing == rows[Item.row].status = "missing"

\* Fresh facts, with the outcome of the read if there was one; a move whose
\* row somebody has taken meanwhile is treated as a new file
FellThrough == Arriving({"moved"}) /\ ~StillMissing

WriteDiscovered ==
  /\ Arriving({"same", "parsed", "failed"}) \/ FellThrough
  /\ LET table == UpsertDiscovered(rows, Item.place, Item.stat, SeenAt)
     IN Write(CASE Item.kind = "parsed" -> RecordFrame(table, Item.place, Item.read)
                    [] Item.kind = "failed" -> RecordParseError(table, Item.place)
                    [] OTHER -> table)

\* The row need not be of the bytes that the scan found: it comes from a racy
\* place, or changed since the scan was told of it, or is being hashed
Doubtful(r, h) ==
  \/ rows[r].place \in racy \/ rows[r].sha256 # h
  \/ \E slot \in Slots : \E f \in hash[slot].todo : f.row = r

WriteMoved ==
  /\ Arriving({"moved"}) /\ StillMissing /\ ~PathTaken(rows, Item.row, Item.place)
  /\ Writes(RecordHash(
       Reparent(rows, Item.row, Item.place, Item.stat, Item.sha256, SeenAt),
       Item.row, Item.sha256))
  /\ racy' = IF Doubtful(Item.row, Item.sha256) THEN racy \cup {Item.place} ELSE racy

\* The unique index refuses the row: the transaction throws and rolls back
AbortBatch ==
  /\ Arriving({"moved"}) /\ StillMissing /\ PathTaken(rows, Item.row, Item.place)
  /\ rows' = savedRows
  /\ applying' = <<>> /\ txScan' = NoJob /\ savedRows' = NoRows
  /\ UNCHANGED <<disk, used, clock, scan, hash, backlog, outbox, sweeping, history>>

\* A file that could not be hashed stays as it is
WriteHash ==
  /\ Arriving({"hashed", "hashError"})
  /\ Write(IF Item.kind = "hashed" THEN RecordHash(rows, Item.row, Item.sha256) ELSE rows)

-----------------------------------------------------------------------------
(* The main process: ends of jobs.                                          *)

\* A bug: off by one
BacklogOfTwo(n, table) ==
  IF Cardinality(Unhashed(table)) <= 1 \/ n >= MaxBacklog THEN n ELSE n + 1

\* enqueueHashIfBacklog
WithBacklog(n, table) == IF Unhashed(table) = {} \/ n >= MaxBacklog THEN n ELSE n + 1

ScanDone(s) ==
  /\ Arrives(ScanJob(s), "done") /\ Pop(ScanJob(s))
  /\ scan' = [scan EXCEPT ![s].status = "over"]
  /\ sweeping' = s
  /\ UNCHANGED <<disk, used, rows, clock, hash, backlog, txVars, history>>

Sweep ==
  /\ sweeping # NoJob /\ applying = <<>>
  /\ rows' = MarkMissing(rows, scan[sweeping].folder, scan[sweeping].startedAt)
  /\ backlog' = WithBacklog(backlog, rows')
  /\ sweeping' = NoJob
  /\ UNCHANGED <<disk, used, clock, scan, hash, outbox, txVars, history>>

HashDone(h) ==
  /\ Arrives(HashJob(h), "done") /\ Pop(HashJob(h))
  /\ hash' = [hash EXCEPT ![h] = IdleHash]
  /\ backlog' = WithBacklog(backlog, rows)
  /\ UNCHANGED <<disk, used, rows, clock, scan, txVars, sweeping, history>>

\* Cancelled or failed: neither a sweep nor a hash pass
JobStopped(j) ==
  /\ Arrives(j, "stopped") /\ Pop(j)
  /\ scan' = IF j.type = "scan" THEN [scan EXCEPT ![j.id].status = "over"] ELSE scan
  /\ hash' = IF j.type = "hash" THEN [hash EXCEPT ![j.id] = IdleHash] ELSE hash
  /\ UNCHANGED <<disk, used, rows, clock, backlog, txVars, sweeping, history>>

\* The process dies and starts again: the rows are left as of the last commit,
\* running jobs are requeued, everything else is forgotten
Requeued(s) ==
  IF HoldsSlot(s) THEN [scan[s] EXCEPT !.status = "queued", !.work = NoWork] ELSE scan[s]

ProcessDies ==
  /\ Breaks
  /\ rows' = Committed
  /\ scan' = [s \in Scans |-> Requeued(s)]
  /\ hash' = [h \in Slots |-> IdleHash]
  /\ backlog' = backlog + Cardinality({h \in Slots : hash[h].status # "idle"})
  /\ outbox' = [j \in Jobs |-> <<>>]
  /\ applying' = <<>> /\ txScan' = NoJob /\ savedRows' = NoRows
  /\ sweeping' = NoJob
  /\ UNCHANGED <<disk, clock, history>>

-----------------------------------------------------------------------------
DiskChanges ==
  \E p \in Places : \/ \E c \in Contents : WriteFile(p, c)
                    \/ DeleteFile(p)
                    \/ \E q \in Places : MoveFile(p, q)

\* What pump finds queued of itself; new scans are the user's
ClaimQueued ==
  (\E s \in Scans : ClaimRequeued(s)) \/ (\E h \in Slots : ClaimHash(h))

Claim == ClaimQueued \/ \E s \in Scans, f \in Folders : ClaimScan(s, f)

ScanWorks(s) == (\E p \in Places : Visit(s, p)) \/ ReadFile(s) \/ WalkEnds(s)
HashWorks(h) == HashNext(h) \/ HashEnds(h)
Works(j) == \/ j.type = "scan" /\ ScanWorks(j.id)
            \/ j.type = "hash" /\ HashWorks(j.id)

WorkerStops == (\E s \in Scans : WalkStops(s)) \/ (\E h \in Slots : HashStops(h))

Handles(j) == \/ TakeBatch(j) \/ JobStopped(j)
              \/ j.type = "scan" /\ ScanDone(j.id)
              \/ j.type = "hash" /\ HashDone(j.id)

HandlerGoesOn == WriteDiscovered \/ WriteMoved \/ AbortBatch \/ WriteHash \/ Sweep

Next ==
  \/ DiskChanges \/ Claim \/ WorkerStops \/ HandlerGoesOn \/ ProcessDies
  \/ \E j \in Jobs : Works(j) \/ Handles(j)

Spec == Init /\ [][Next]_vars

(* Workers come to the end of their finite lists, the event loop comes back *)
(* to every port and finishes its handler, and every handler ends in pump.  *)
FairSpec ==
  /\ Spec
  /\ \A j \in Jobs : WF_vars(Works(j)) /\ SF_vars(Handles(j))
  /\ WF_vars(HandlerGoesOn) /\ SF_vars(ClaimQueued)

-----------------------------------------------------------------------------
(* Properties.                                                              *)

Messages ==
  [type : {"batch"}, items : Seq(Items)] \cup [type : {"done", "stopped"}]

Work ==
  [known : UNION {[ps -> Contents] : ps \in SUBSET Places},
   candidates : SUBSET [row : Nat, size : Nat, sha256 : Digests],
   left : SUBSET Places, at : Places \cup {None}, stat : Contents \cup {None},
   batch : Seq(Items)]

(* Every variable has its type.                                             *)
TypeOK ==
  /\ disk \in [Places -> Contents \cup {None}]
  /\ used \in [{"changes", "breaks"} -> Nat]
  /\ rows \in Seq(Rows) /\ clock \in Nat
  /\ scan \in [Scans -> [status : {"new", "queued", "running", "ended", "over"},
                         folder : Folders \cup {None}, startedAt : Nat, work : Work]]
  /\ hash \in [Slots -> [status : {"idle", "running", "ended"},
                         todo : SUBSET [row : Nat, place : Places], batch : Seq(Items)]]
  /\ backlog \in Nat /\ outbox \in [Jobs -> Seq(Messages)]
  /\ applying \in Seq(Items) /\ txScan \in Scans \cup {NoJob}
  /\ savedRows \in Seq(Rows)
  /\ sweeping \in Scans \cup {NoJob}
  /\ calm \subseteq Scans /\ racy \subseteq Places

(* Links of duplicates lead to older rows, in the order recordHash ranks    *)
(* them, and only duplicates have one: no cycle, whatever becomes of the    *)
(* row a link leads to (files.ts, recordHash).                              *)
DuplicatesPointBack ==
  \A r \in DOMAIN rows :
    LET link == rows[r].duplicateOf
    IN /\ link # NoRow <=> rows[r].status = "duplicate"
       /\ link # NoRow => link \in DOMAIN rows /\ Older(rows, link, r)

(* No two rows share a place: upserts, moves and rollbacks keep the unique  *)
(* index (schema/files.ts).                                                 *)
OneRowPerPlace ==
  \A r, q \in DOMAIN rows : rows[r].place = rows[q].place => r = q

(* What is committed is never lost: a row stays, with its age and its       *)
(* frame, through moves, rollbacks and the death of the process.            *)
RowsAreKept ==
  [][\A r \in DOMAIN Committed :
       /\ r \in DOMAIN Committed'
       /\ Committed'[r].firstSeenAt = Committed[r].firstSeenAt
       /\ (Committed[r].frame # None) => (Committed'[r].frame # None)]_vars

\* A file that is gone is missing, or the duplicate it was: the sweep looks at
\* rows that are present and at no other. A file that is there has a row, with
\* its size and modification time, that is not missing.
Mirrors(table, f) ==
  \A p \in {q \in Places : FolderOf[q] = f} :
    IF disk[p] = None
    THEN \A r \in DOMAIN table :
           IsAt(table, r, p) => table[r].status \in {"missing", "duplicate"}
    ELSE \E r \in DOMAIN table : /\ IsAt(table, r, p)
                                 /\ Stat[table[r].stat] = Stat[disk[p]]
                                 /\ table[r].status # "missing"

(* When a scan has completed and neither the disk nor another scan of its   *)
(* folder interfered since it started, restarts included, every file of the *)
(* folder has a row with its size and modification time that is not         *)
(* missing, and no row of a file that is gone is present (orchestrator.ts,  *)
(* onDone). Such a row is missing, except that a duplicate stays a          *)
(* duplicate (files.ts, markMissingNotSeenSince), though user-guide.md:64   *)
(* has all files of a drive that is gone marked missing.                    *)
CalmScanMirrorsDisk ==
  [][(sweeping \in calm /\ Sweep) => Mirrors(rows', scan[sweeping].folder)]_vars

(* Then, too, what the rows of the folder record of the bytes is true: the  *)
(* hash, if there is one, and the frame are of what the file holds. Not so, *)
(* and left out as racy, where a file was edited and size and modification  *)
(* time stayed those of its row, which no scan notices (scan-job.ts,        *)
(* isUnchanged; files.ts, upsertDiscovered); where it changed while a job   *)
(* was at work, or while its row waited for a hash, and a hash read from    *)
(* one content may be recorded for another (hash-job.ts); and at places     *)
(* that a row of such a file moves to. Nor is anything said of the frame of *)
(* a row with a parse error: a frame of former bytes stays there, though    *)
(* orchestrator.ts:343 says that no frames row is left.                     *)
CalmScanKnowsTheBytes ==
  [][(sweeping \in calm /\ Sweep) =>
       \A r \in DOMAIN rows' :
         LET row == rows'[r]
             bytes == Digest[disk[row.place]]
         IN /\ FolderOf[row.place] = scan[sweeping].folder
            /\ row.place \notin racy /\ disk[row.place] # None
            => /\ row.sha256 \in {None, bytes}
               /\ row.frame = None \/ row.parseError \/ Digest[row.frame] = bytes]_vars

Unhashable == {r \in Unhashed(rows) : disk[rows[r].place] \in Unreadable \cup {None}}

(* Every indexed file gets a hash, unless it cannot be read or goes away    *)
(* first, as long as fewer files than one pass takes are in that case:      *)
(* passes chain until the backlog is done (orchestrator.ts, onDone).        *)
EveryFileIsHashed ==
  \A r \in 1..Cardinality(Places) :
    r \in Unhashed(rows)
      ~> r \notin Unhashed(rows) \ Unhashable \/ Cardinality(Unhashable) >= HashLimit

-----------------------------------------------------------------------------
(* What the comments and documents say and the code does not do. Each of    *)
(* these is refuted by a run.                                               *)

(* Each new file gets a header read: its row has a frame or an error        *)
(* (user-guide.md:56).                                                      *)
EveryFileWasRead ==
  AtRest => \A r \in DOMAIN rows :
              rows[r].status = "present" => rows[r].frame # None \/ rows[r].parseError

(* Hash passes do not trigger themselves for ever (orchestrator.ts:450).    *)
HashingRests == <>[](backlog = 0 /\ \A h \in Slots : hash[h].status = "idle")

=============================================================================
