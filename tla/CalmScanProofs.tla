---------------------------- MODULE CalmScanProofs ----------------------------
(***************************************************************************)
(* Proof of what a scan is for: when it completes and neither the disk nor *)
(* another scan of its folder interfered, the rows of the folder mirror    *)
(* the disk, for any number of files, batches, restarts, rollbacks and     *)
(* other scans and hash passes that write to the table meanwhile.          *)
(*                                                                         *)
(* The argument follows each place of the folder.  Until its item is       *)
(* written it is open: still to be visited, being read, or an item in the  *)
(* batch, in a message or in the open transaction, in exactly one of       *)
(* these.  Then it is settled: its row has what is on the disk and the     *)
(* time of the scan, which keeps it from the sweep.  The row of a file     *)
(* that is gone is older.  The transaction of a calm scan never rolls      *)
(* back, because a place it found free of rows stays free until its item   *)
(* is written; other rollbacks undo nothing that was settled.              *)
(*                                                                         *)
(* The second part is about the bytes: the hash and the frame of a row,    *)
(* which other scans and passes wrote at other times.  What is known of a  *)
(* clean place is true, wherever it is kept: in the rows, in those that a  *)
(* rollback would restore, in items, in the tasks of a pass, in walks.     *)
(* A step adds to these (BytesGrow), takes a place out of the clean ones   *)
(* or writes a row (WriteIsTrue).                                          *)
(***************************************************************************)
EXTENDS IndexerProofs

Box(s) == outbox[ScanJob(s)]
Live(s) == Active(s) \/ s = sweeping
InFolder(s, p) == FolderOf[p] = scan[s].folder
InTransaction(s) == txScan = s /\ applying # <<>>

(* The items of a scan that are not written yet: in the open transaction   *)
(* (0), in its messages (1, 2, ...), and in the batch at hand.             *)
Stage(s, k) ==
  IF k = 0 THEN IF InTransaction(s) THEN applying ELSE <<>>
  ELSE IF k <= Len(Box(s)) THEN IF Box(s)[k].type = "batch" THEN Box(s)[k].items ELSE <<>>
  ELSE IF k = Len(Box(s)) + 1 THEN scan[s].work.batch ELSE <<>>

IsOpen(s, p) ==
  \/ p \in scan[s].work.left \/ p = scan[s].work.at
  \/ \E k \in Nat : \E i \in DOMAIN Stage(s, k) : Stage(s, k)[i].place = p

(* A place that a moved file may go to, or is going to.                    *)
IsHoped(s, p) ==
  \/ /\ p \in scan[s].work.left \/ p = scan[s].work.at
     /\ p \notin DOMAIN scan[s].work.known
  \/ \E k \in Nat : \E i \in DOMAIN Stage(s, k) :
       Stage(s, k)[i].place = p /\ Stage(s, k)[i].kind = "moved"

(* A job ends by its last message.                                         *)
LocalOK(s) ==
  LET box == Box(s)
      status == scan[s].status
  IN /\ status \in {"new", "queued", "over"} => box = <<>>
     /\ status = "running" => \A m \in DOMAIN box : box[m].type = "batch"
     /\ status = "ended" =>
          /\ box # <<>> /\ box[Len(box)].type # "batch"
          /\ \A m \in DOMAIN box : m # Len(box) => box[m].type = "batch"
     /\ status # "running" => scan[s].work = NoWork
     /\ scan[s].startedAt <= clock

(* A scan deals with the places of its folder.                             *)
OwnFolder(s) == \A p \in Places : IsOpen(s, p) => InFolder(s, p)

(* No other scan of the folder is active; one may be about to sweep.       *)
Alone(s) ==
  Active(s) =>
    /\ \A q \in Scans : Active(q) /\ scan[q].folder = scan[s].folder => q = s
    /\ sweeping # NoJob /\ scan[sweeping].folder = scan[s].folder =>
         scan[sweeping].startedAt <= scan[s].startedAt

(* What a calm scan has found is what is on the disk, each place once.     *)
Truthful(s) ==
  LET work == scan[s].work
  IN /\ work.at # None => disk[work.at] = work.stat /\ work.at \notin work.left
     /\ \A k \in Nat : \A i \in DOMAIN Stage(s, k) :
          LET item == Stage(s, k)[i]
          IN /\ disk[item.place] = item.stat
             /\ item.place \notin work.left /\ item.place # work.at
             /\ \A l \in Nat : \A j \in DOMAIN Stage(s, l) :
                  Stage(s, l)[j].place = item.place => l = k /\ j = i

(* A row whose file is gone is older than the scan.                        *)
OldWhereGone(s, t) ==
  \A r \in DOMAIN t : InFolder(s, t[r].place) /\ disk[t[r].place] = None =>
                        t[r].lastSeenAt < scan[s].startedAt

FreeForMoves(s, t) == \A p \in Places : IsHoped(s, p) => ~Indexed(t, p)

Covered(s, t) ==
  \A p \in Places : InFolder(s, p) /\ disk[p] # None =>
                      IsOpen(s, p) \/ SeenHere(t, p, disk[p], scan[s].startedAt)

Completing(s) ==
  \/ scan[s].status = "running" \/ s = sweeping
  \/ scan[s].status = "ended" /\ Box(s)[Len(Box(s))].type = "done"

CalmOK(s) ==
  /\ Truthful(s)
  /\ \A t \in {rows, Committed} : OldWhereGone(s, t) /\ FreeForMoves(s, t)
  /\ Completing(s) => /\ Covered(s, rows)
                      /\ ~InTransaction(s) => Covered(s, Committed)

SeenByNow(t) == \A r \in DOMAIN t : t[r].lastSeenAt <= clock

(* One handler at a time: a transaction, or a completion being emitted.    *)
HandlersOK ==
  /\ applying # <<>> => /\ sweeping = NoJob
                        /\ txScan # NoJob => HoldsSlot(txScan)
  /\ sweeping # NoJob => scan[sweeping].status = "over"

ScanInvariant ==
  /\ SeenByNow(rows) /\ SeenByNow(Committed) /\ HandlersOK
  /\ \A s \in Scans : LocalOK(s) /\ OwnFolder(s)
  /\ \A s \in calm : scan[s].status # "new" /\ Alone(s) /\ (Live(s) => CalmOK(s))

-----------------------------------------------------------------------------
(* Stages.                                                                 *)

StagesTyped ==
  \A s \in Scans :
    /\ Len(Box(s)) \in Nat /\ DOMAIN Box(s) = 1..Len(Box(s))
    /\ \A k \in Nat :
         /\ Len(Stage(s, k)) \in Nat /\ DOMAIN Stage(s, k) = 1..Len(Stage(s, k))
         /\ Stage(s, k) \in Seq(ItemsOf("scan", DOMAIN Committed))
         /\ \A i \in DOMAIN Stage(s, k) :
              /\ Stage(s, k)[i].place \in Places /\ Stage(s, k)[i].stat \in Contents
              /\ Stage(s, k)[i].kind \in {"same", "parsed", "failed", "moved"}

\* Null is neither a place nor a content.
LEMMA NoneIsNoPlace == None \notin Places /\ None \notin Contents
BY IndexerAssumption

\* Every stage is a sequence of items that a scan makes.
LEMMA StageTypes == IndexInvariant => StagesTyped
<1> SUFFICES ASSUME IndexInvariant, NEW s \in Scans
             PROVE  /\ Len(Box(s)) \in Nat /\ DOMAIN Box(s) = 1..Len(Box(s))
                    /\ \A k \in Nat :
                         /\ Len(Stage(s, k)) \in Nat
                         /\ DOMAIN Stage(s, k) = 1..Len(Stage(s, k))
                         /\ Stage(s, k) \in Seq(ItemsOf("scan", DOMAIN Committed))
                         /\ \A i \in DOMAIN Stage(s, k) :
                              /\ Stage(s, k)[i].place \in Places
                              /\ Stage(s, k)[i].stat \in Contents
                              /\ Stage(s, k)[i].kind \in {"same", "parsed", "failed", "moved"}
  BY DEF StagesTyped
<1> DEFINE ids == DOMAIN Committed
<1>1. Box(s) \in Seq(MessagesOf("scan", ids)) /\ scan[s].work.batch \in Seq(ItemsOf("scan", ids))
  BY WorkTypes DEF Box
<1>2. Len(Box(s)) \in Nat /\ DOMAIN Box(s) = 1..Len(Box(s))
      /\ \A m \in DOMAIN Box(s) : Box(s)[m] \in MessagesOf("scan", ids)
  BY <1>1, LenProperties, ElementOfSeq
<1>3. \A m \in DOMAIN Box(s) :
        Box(s)[m].type = "batch" => Box(s)[m].items \in Seq(ItemsOf("scan", ids))
  BY <1>2 DEF MessagesOf
<1>4. InTransaction(s) => applying \in Seq(ItemsOf("scan", ids))
  BY JobTypes DEF IndexInvariant, FlowIn, ApplyingIn, TxType, InTransaction
<1> HIDE DEF ids
<1>5. ASSUME NEW k \in Nat
      PROVE  /\ Len(Stage(s, k)) \in Nat /\ DOMAIN Stage(s, k) = 1..Len(Stage(s, k))
             /\ Stage(s, k) \in Seq(ItemsOf("scan", ids))
             /\ \A i \in DOMAIN Stage(s, k) : Stage(s, k)[i] \in ItemsOf("scan", ids)
  <2>1. Stage(s, k) \in Seq(ItemsOf("scan", ids))
    <3>1. <<>> \in Seq(ItemsOf("scan", ids))
      OBVIOUS
    <3> QED BY <1>1, <1>2, <1>3, <1>4, <3>1 DEF Stage
  <2> QED BY <2>1, LenProperties, ElementOfSeq
<1>6. \A item \in ItemsOf("scan", ids) :
        /\ item.place \in Places /\ item.stat \in Contents
        /\ item.kind \in {"same", "parsed", "failed", "moved"}
  BY DEF ItemsOf
<1> QED BY <1>2, <1>5, <1>6 DEF ids

\* The same after a step.
LEMMA StageTypesNext == IndexInvariant' => StagesTyped'
<1>1. (IndexInvariant => StagesTyped)'
  BY StageTypes, PTL
<1> QED BY <1>1

\* What a scan keeps in mind when a step is none of its own.
LEMMA SameStages ==
  ASSUME NEW s \in Scans, scan'[s] = scan[s], Box(s)' = Box(s),
         ~InTransaction(s), ~InTransaction(s)'
  PROVE  /\ \A k : Stage(s, k)' = Stage(s, k)
         /\ \A p : IsOpen(s, p)' = IsOpen(s, p) /\ IsHoped(s, p)' = IsHoped(s, p)
         /\ OwnFolder(s) => OwnFolder(s)'
<1>1. \A k : Stage(s, k)' = Stage(s, k)
  BY DEF Stage
<1>2. ASSUME NEW p PROVE IsOpen(s, p)' = IsOpen(s, p) /\ IsHoped(s, p)' = IsHoped(s, p)
  BY <1>1 DEF IsOpen, IsHoped
<1>3. OwnFolder(s) => OwnFolder(s)'
  BY <1>2 DEF OwnFolder, InFolder
<1> QED BY <1>1, <1>2, <1>3

\* A scan that has sent everything, or nothing.
LEMMA EmptyStages ==
  ASSUME NEW s \in Scans, Box(s)' = <<>>, scan'[s].work.batch = <<>>, ~InTransaction(s)'
  PROVE  \A k \in Nat : Stage(s, k)' = <<>>
BY DEF Stage

-----------------------------------------------------------------------------
(* What a calm scan keeps.                                                 *)

(* What the rest of the system may do to the rows of folder f while a scan *)
(* that began at time T is at work: nothing is seen there, and what the    *)
(* scan has settled stays.                                                 *)
Gentle(t, u, f, T) ==
  /\ \A r \in DOMAIN u : FolderOf[u[r].place] = f =>
       r \in DOMAIN t /\ t[r].place = u[r].place /\ t[r].lastSeenAt = u[r].lastSeenAt
  /\ \A r \in DOMAIN t :
       FolderOf[t[r].place] = f /\ t[r].status # "missing" /\ t[r].lastSeenAt = T =>
         /\ r \in DOMAIN u /\ u[r].place = t[r].place /\ u[r].stat = t[r].stat
         /\ u[r].lastSeenAt = T /\ u[r].status # "missing"

\* To leave a table as it is is gentle.
LEMMA GentleSame == \A t, f, T : Gentle(t, t, f, T)
BY DEF Gentle

\* What is gentle to the folder frees no place of it from mind: no place gets a row, what is
\* settled stays, and the rows of files that are gone stay old.
LEMMA GentleKeeps ==
  ASSUME NEW s, NEW t, NEW u, Gentle(t, u, scan[s].folder, scan[s].startedAt)
  PROVE  /\ \A p : InFolder(s, p) /\ Indexed(u, p) => Indexed(t, p)
         /\ \A p, c : InFolder(s, p) /\ SeenHere(t, p, c, scan[s].startedAt) =>
                        SeenHere(u, p, c, scan[s].startedAt)
         /\ OldWhereGone(s, t) => OldWhereGone(s, u)
<1>1. \A p : InFolder(s, p) /\ Indexed(u, p) => Indexed(t, p)
  BY DEF Gentle, Indexed, IsAt, InFolder
<1>2. \A p, c : InFolder(s, p) /\ SeenHere(t, p, c, scan[s].startedAt) =>
                  SeenHere(u, p, c, scan[s].startedAt)
  BY DEF Gentle, SeenHere, IsAt, InFolder
<1>3. OldWhereGone(s, t) => OldWhereGone(s, u)
  BY DEF Gentle, OldWhereGone, InFolder
<1> QED BY <1>1, <1>2, <1>3

\* Rows are of places, in the table and in what a rollback would leave.
LEMMA TablePlaces ==
  IndexInvariant => \A t \in {rows, Committed} : \A r \in DOMAIN t : t[r].place \in Places
<1> SUFFICES ASSUME IndexInvariant
             PROVE  \A t \in {rows, Committed} : \A r \in DOMAIN t : t[r].place \in Places
  OBVIOUS
<1>1. rows \in Seq(Rows) /\ Committed \in Seq(Rows)
  BY CommittedRows DEF IndexInvariant, Tables, SoundTable
<1> QED BY <1>1, TableTypes

\* A step outside the transaction of a calm scan leaves it calm if it is truthful
\* still, hopes for no more, drops nothing, and others are gentle with its folder.
LEMMA CalmKept ==
  ASSUME IndexInvariant, NEW s \in Scans, CalmOK(s), ~InTransaction(s),
         scan'[s].folder = scan[s].folder, scan'[s].startedAt = scan[s].startedAt,
         \A p \in Places : InFolder(s, p) => disk'[p] = disk[p],
         Truthful(s)',
         \A p \in Places : IsHoped(s, p)' => IsHoped(s, p) /\ InFolder(s, p),
         Completing(s)' =>
           /\ Completing(s)
           /\ \A p \in Places : disk[p] # None /\ IsOpen(s, p) => IsOpen(s, p)',
         \A u \in {rows', Committed'} : \E t \in {rows, Committed} :
           Gentle(t, u, scan[s].folder, scan[s].startedAt)
  PROVE  CalmOK(s)'
<1>1. ASSUME NEW u \in {rows', Committed'}
      PROVE  /\ \A r \in DOMAIN u : InFolder(s, u[r].place) /\ disk'[u[r].place] = None =>
                                      u[r].lastSeenAt < scan[s].startedAt
             /\ \A p \in Places : IsHoped(s, p)' => ~Indexed(u, p)
             /\ Completing(s)' =>
                  \A p \in Places : InFolder(s, p) /\ disk'[p] # None =>
                    IsOpen(s, p)' \/ SeenHere(u, p, disk'[p], scan[s].startedAt)
  <2>1. PICK t \in {rows, Committed} : Gentle(t, u, scan[s].folder, scan[s].startedAt)
    OBVIOUS
  <2>2. OldWhereGone(s, t) /\ FreeForMoves(s, t) /\ (Completing(s) => Covered(s, t))
    BY DEF CalmOK
  <2>3. /\ \A p : InFolder(s, p) /\ Indexed(u, p) => Indexed(t, p)
        /\ \A p, c : InFolder(s, p) /\ SeenHere(t, p, c, scan[s].startedAt) =>
                       SeenHere(u, p, c, scan[s].startedAt)
        /\ OldWhereGone(s, u)
    BY <2>1, <2>2, GentleKeeps
  <2>4. \A r \in DOMAIN u : InFolder(s, u[r].place) => u[r].place \in Places
    BY <2>1, TablePlaces DEF Gentle, InFolder
  <2>5. \A r \in DOMAIN u : InFolder(s, u[r].place) /\ disk'[u[r].place] = None =>
                              u[r].lastSeenAt < scan[s].startedAt
    BY <2>3, <2>4 DEF OldWhereGone
  <2>6. \A p \in Places : IsHoped(s, p)' => ~Indexed(u, p)
    BY <2>2, <2>3 DEF FreeForMoves
  <2>7. ASSUME Completing(s)', NEW p \in Places, InFolder(s, p), disk'[p] # None
        PROVE  IsOpen(s, p)' \/ SeenHere(u, p, disk'[p], scan[s].startedAt)
    <3>1. Completing(s) /\ disk[p] = disk'[p]
      BY <2>7
    <3>2. IsOpen(s, p) \/ SeenHere(t, p, disk[p], scan[s].startedAt)
      BY <2>2, <2>7, <3>1 DEF Covered
    <3> QED BY <2>3, <2>7, <3>1, <3>2
  <2> QED BY <2>5, <2>6, <2>7
<1>2. Completing(s)' => Covered(s, rows)' /\ Covered(s, Committed)'
  BY <1>1 DEF Covered, InFolder
<1>3. (\A t \in {rows, Committed} : OldWhereGone(s, t) /\ FreeForMoves(s, t))'
  BY <1>1 DEF OldWhereGone, FreeForMoves, InFolder
<1> QED BY <1>2, <1>3 DEF CalmOK

\* So does a step that is none of its own.
LEMMA CalmElsewhere ==
  ASSUME IndexInvariant, NEW s \in Scans, CalmOK(s), OwnFolder(s),
         scan'[s] = scan[s], Box(s)' = Box(s), ~InTransaction(s), ~InTransaction(s)',
         Completing(s)' => Completing(s),
         \A p \in Places : InFolder(s, p) => disk'[p] = disk[p],
         \A u \in {rows', Committed'} : \E t \in {rows, Committed} :
           Gentle(t, u, scan[s].folder, scan[s].startedAt)
  PROVE  CalmOK(s)'
<1>1. \A k : Stage(s, k)' = Stage(s, k)
  BY SameStages
<1>2. \A p : IsOpen(s, p)' = IsOpen(s, p) /\ IsHoped(s, p)' = IsHoped(s, p)
  BY SameStages
<1>3. \A p \in Places : IsHoped(s, p) => InFolder(s, p)
  BY DEF IsHoped, IsOpen, OwnFolder
<1>4. Truthful(s)'
  <2>1. Truthful(s) /\ StagesTyped
    BY StageTypes DEF CalmOK
  <2>2. scan[s].work.at # None => disk'[scan[s].work.at] = disk[scan[s].work.at]
    <3>1. scan[s].work.at # None => scan[s].work.at \in Places /\ IsOpen(s, scan[s].work.at)
      BY WorkTypes DEF IsOpen
    <3> QED BY <3>1 DEF OwnFolder
  <2>3. ASSUME NEW k \in Nat, NEW i \in DOMAIN Stage(s, k)
        PROVE  disk'[Stage(s, k)[i].place] = disk[Stage(s, k)[i].place]
    <3>1. Stage(s, k)[i].place \in Places /\ IsOpen(s, Stage(s, k)[i].place)
      BY <2>1 DEF IsOpen, StagesTyped
    <3> QED BY <3>1 DEF OwnFolder
  <2> QED BY <1>1, <2>1, <2>2, <2>3 DEF Truthful
<1> QED BY <1>2, <1>3, <1>4, CalmKept

-----------------------------------------------------------------------------
(* What holds of every scan but the one that steps.                        *)

\* A step that is none of the scan keeps what concerns it alone.
LEMMA LocalKept ==
  ASSUME IndexInvariant, NEW s \in Scans, LocalOK(s), scan'[s] = scan[s], Box(s)' = Box(s),
         clock' = clock \/ clock' = clock + 1
  PROVE  LocalOK(s)'
<1>1. scan[s].startedAt \in Nat /\ clock \in Nat
  BY WorkTypes DEF ScanOf, IndexInvariant, PlainTypes
<1> QED BY <1>1 DEF LocalOK

\* A step that starts no scan leaves the lonely ones alone.
LEMMA AloneKept ==
  ASSUME IndexInvariant, NEW s \in Scans, Alone(s),
         \A q \in Scans : /\ Active(q)' => Active(q)
                          /\ scan'[q].folder = scan[q].folder
                          /\ scan'[q].startedAt = scan[q].startedAt,
         sweeping' = sweeping \/ sweeping' = NoJob
  PROVE  Alone(s)'
<1>1. sweeping # NoJob => sweeping \in Scans
  BY DEF IndexInvariant, PlainTypes
<1> QED BY <1>1 DEF Alone

\* With nothing to apply no scan is in a transaction.
LEMMA IdleTransactions ==
  ASSUME applying = <<>> PROVE \A s : ~InTransaction(s)
BY DEF InTransaction

\* A step that leaves every scan and every scan's messages alone, and the disk
\* where a calm scan is at work.
LEMMA NoScanStep ==
  ASSUME IndexInvariant, ScanInvariant, AtRest, scan' = scan, rows' = rows,
         Committed' = Committed, clock' = clock, sweeping' = sweeping, calm' \subseteq calm,
         \A s \in Scans : Box(s)' = Box(s) /\ ~InTransaction(s)',
         applying' # <<>> => txScan' = NoJob,
         \A s \in calm' : Live(s) =>
           \A p \in Places : InFolder(s, p) => disk'[p] = disk[p]
  PROVE  ScanInvariant'
<1>1. applying = <<>> /\ sweeping = NoJob /\ calm \subseteq Scans
  BY DEF AtRest, IndexInvariant, PlainTypes
<1>2. SeenByNow(rows)' /\ SeenByNow(Committed)' /\ HandlersOK'
  BY <1>1 DEF ScanInvariant, SeenByNow, HandlersOK
<1>3. ASSUME NEW s \in Scans PROVE LocalOK(s)' /\ OwnFolder(s)'
  BY <1>1, LocalKept, SameStages, IdleTransactions DEF ScanInvariant
<1>4. ASSUME NEW s \in calm' PROVE scan'[s].status # "new" /\ Alone(s)'
  <2>1. scan[s].status # "new" /\ Alone(s) /\ s \in Scans
    BY <1>1 DEF ScanInvariant
  <2>2. \A q \in Scans : Active(q)' => Active(q)
    BY DEF Active, HoldsSlot
  <2> QED BY <2>1, <2>2, AloneKept
<1>5. ASSUME NEW s \in calm', Live(s)' PROVE CalmOK(s)'
  <2>1. Live(s) /\ s \in Scans /\ s \in calm
    BY <1>1, <1>5 DEF Live, Active, HoldsSlot
  <2>2. CalmOK(s) /\ OwnFolder(s) /\ ~InTransaction(s)
    BY <1>1, <2>1, IdleTransactions DEF ScanInvariant
  <2>3. Completing(s)' => Completing(s)
    BY <2>1 DEF Completing
  <2>4. \A p \in Places : InFolder(s, p) => disk'[p] = disk[p]
    BY <2>1
  <2> QED BY <2>1, <2>2, <2>3, <2>4, GentleSame, CalmElsewhere
<1> QED BY <1>2, <1>3, <1>4, <1>5 DEF ScanInvariant

\* A job that sends changes its own outbox only.
LEMMA OtherBoxes ==
  ASSUME IndexInvariant, NEW j \in Jobs, NEW box, outbox' = [outbox EXCEPT ![j] = box]
  PROVE  /\ \A s \in Scans : j # ScanJob(s) => Box(s)' = Box(s)
         /\ \A s \in Scans : j = ScanJob(s) => Box(s)' = box
<1>1. outbox = [i \in Jobs |-> outbox[i]]
  BY DEF IndexInvariant, FlowIn, OutboxIn
<1> QED BY <1>1, JobTypes DEF Box

\* A hash pass is no scan.
LEMMA HashJobIsNoScan ==
  \A j \in Jobs, s \in Scans : j.type = "hash" => j # ScanJob(s)
BY JobTypes

\* A change of the disk concerns some places.
LEMMA DiskPlaces ==
  ASSUME IndexInvariant, DiskChanges
  PROVE  \E ps \in SUBSET Places : \E kind :
           /\ Changed(kind, ps)
           /\ \A p \in Places \ ps : disk'[p] = disk[p]
<1>1. disk \in [Places -> Contents \cup {None}]
  BY DEF IndexInvariant, PlainTypes
<1>2. CASE \E p \in Places, c \in Contents : WriteFile(p, c)
  <2>1. PICK p \in Places, c \in Contents : WriteFile(p, c)
    BY <1>2
  <2>2. Changed("write", {p}) /\ \A q \in Places \ {p} : disk'[q] = disk[q]
    BY <1>1, <2>1 DEF WriteFile
  <2> QED BY <2>2
<1>3. CASE \E p \in Places : DeleteFile(p)
  <2>1. PICK p \in Places : DeleteFile(p)
    BY <1>3
  <2>2. Changed("delete", {p}) /\ \A q \in Places \ {p} : disk'[q] = disk[q]
    BY <1>1, <2>1 DEF DeleteFile
  <2> QED BY <2>2
<1>4. CASE \E p, q \in Places : MoveFile(p, q)
  <2>1. PICK p \in Places, q \in Places : MoveFile(p, q)
    BY <1>4
  <2>2. Changed("move", {p, q}) /\ \A o \in Places \ {p, q} : disk'[o] = disk[o]
    BY <1>1, <2>1 DEF MoveFile
  <2> QED BY <2>2
<1> QED BY <1>2, <1>3, <1>4 DEF DiskChanges

\* A change of the disk ends the calm of every scan it concerns.
LEMMA DiskLeavesScans ==
  ASSUME IndexInvariant, ScanInvariant, DiskChanges
  PROVE  ScanInvariant'
<1>1. PICK ps \in SUBSET Places : \E kind : /\ Changed(kind, ps)
                                            /\ \A p \in Places \ ps : disk'[p] = disk[p]
  BY DiskPlaces
<1>2. /\ AtRest /\ calm' = calm \ Disturbed(ps)
      /\ UNCHANGED <<rows, clock, scan, outbox, applying, txScan, savedRows, sweeping>>
  BY <1>1 DEF Changed, txVars
<1>3. \A s \in Scans : Box(s)' = Box(s) /\ ~InTransaction(s)'
  BY <1>2 DEF Box, InTransaction, AtRest
<1>4. Committed' = Committed /\ applying' = <<>>
  BY <1>2 DEF Committed, AtRest
<1>5. ASSUME NEW s \in calm', Live(s), NEW p \in Places, InFolder(s, p)
      PROVE  disk'[p] = disk[p]
  <2>1. s \in Scans /\ s \notin Disturbed(ps)
    BY <1>2 DEF IndexInvariant, PlainTypes
  <2>2. p \notin ps
    BY <1>5, <2>1 DEF Disturbed, Live, InFolder
  <2> QED BY <1>1, <2>2
<1> QED BY <1>2, <1>3, <1>4, <1>5, NoScanStep

\* Hash passes: their claims, their workers, and their messages as they come in.
LEMMA HashLeavesScans ==
  ASSUME IndexInvariant, ScanInvariant, NEW h \in Slots,
         \/ ClaimHash(h) \/ HashNext(h) \/ HashEnds(h) \/ HashStops(h) \/ HashDone(h)
         \/ TakeBatch(HashJob(h)) \/ JobStopped(HashJob(h))
  PROVE  ScanInvariant'
<1>1. HashJob(h) \in Jobs /\ HashJob(h).type = "hash"
  BY JobTypes
<1>2. /\ AtRest /\ scan' = scan
      /\ UNCHANGED <<disk, rows, clock, sweeping, calm>>
      /\ outbox' = outbox \/ \E box : outbox' = [outbox EXCEPT ![HashJob(h)] = box]
  <2>1. CASE ClaimHash(h)
    BY <2>1 DEF ClaimHash, history
  <2>2. CASE HashNext(h)
    BY <2>2 DEF HashNext, HashWorker, WorkerOnly, Hashing, history
  <2>3. CASE HashEnds(h)
    BY <2>3 DEF HashEnds, HashWorker, WorkerOnly, Hashing, history
  <2>4. CASE HashStops(h)
    BY <2>4 DEF HashStops, Hashing, history
  <2>5. CASE HashDone(h)
    BY <2>5 DEF HashDone, Arrives, Pop, history
  <2>6. CASE TakeBatch(HashJob(h))
    BY <2>6 DEF TakeBatch, Arrives, Pop, history
  <2>7. CASE JobStopped(HashJob(h))
    BY <1>1, <2>7 DEF JobStopped, Arrives, Pop, history
  <2> QED BY <2>1, <2>2, <2>3, <2>4, <2>5, <2>6, <2>7
<1>3. \/ UNCHANGED <<applying, txScan, savedRows>>
      \/ txScan' = NoJob /\ savedRows' = rows
  <2>1. CASE ClaimHash(h)
    BY <2>1 DEF ClaimHash, txVars
  <2>2. CASE HashNext(h)
    BY <2>2 DEF HashNext, HashWorker, WorkerOnly, txVars
  <2>3. CASE HashEnds(h)
    BY <2>3 DEF HashEnds, HashWorker, WorkerOnly, txVars
  <2>4. CASE HashStops(h)
    BY <2>4 DEF HashStops, txVars
  <2>5. CASE HashDone(h)
    BY <2>5 DEF HashDone, txVars
  <2>6. CASE TakeBatch(HashJob(h))
    BY <1>1, <2>6 DEF TakeBatch
  <2>7. CASE JobStopped(HashJob(h))
    BY <2>7 DEF JobStopped, txVars
  <2> QED BY <2>1, <2>2, <2>3, <2>4, <2>5, <2>6, <2>7
<1>4. \A s \in Scans : Box(s)' = Box(s)
  <2>1. CASE outbox' = outbox
    BY <2>1 DEF Box
  <2>2. ASSUME NEW box, outbox' = [outbox EXCEPT ![HashJob(h)] = box]
        PROVE  \A s \in Scans : Box(s)' = Box(s)
    BY <1>1, <2>2, OtherBoxes, HashJobIsNoScan
  <2> QED BY <1>2, <2>1, <2>2
<1>5. Committed' = Committed
  BY <1>2, <1>3 DEF Committed, txVars, AtRest
<1>6. applying' # <<>> => txScan' = NoJob
  BY <1>2, <1>3 DEF txVars, AtRest
<1>7. \A s \in Scans : ~InTransaction(s)'
  BY <1>6, JobTypes DEF InTransaction
<1> QED BY <1>2, <1>4, <1>5, <1>6, <1>7, NoScanStep

-----------------------------------------------------------------------------
(* The scan worker.                                                        *)

\* Outside transactions, a step of one active scan, or of the handler of its
\* messages, is one if it is one for that scan.
LEMMA OneScanStep ==
  ASSUME IndexInvariant, ScanInvariant, NEW s \in Scans, AtRest, Active(s),
         UNCHANGED <<disk, rows, clock, calm>>, Committed' = Committed, HandlersOK',
         \A q \in Scans : q # s => /\ scan'[q] = scan[q] /\ Box(q)' = Box(q)
                                   /\ ~InTransaction(q)',
         scan'[s].folder = scan[s].folder, scan'[s].startedAt = scan[s].startedAt,
         scan'[s].status # "new",
         sweeping' = NoJob \/ (sweeping' = s /\ ~Active(s)'),
         LocalOK(s)', OwnFolder(s)', s \in calm /\ Live(s)' => CalmOK(s)'
  PROVE  ScanInvariant'
<1>1. applying = <<>> /\ sweeping = NoJob /\ calm \subseteq Scans
  BY DEF AtRest, IndexInvariant, PlainTypes
<1>2. SeenByNow(rows)' /\ SeenByNow(Committed)'
  BY DEF ScanInvariant, SeenByNow
<1>3. ASSUME NEW q \in Scans PROVE LocalOK(q)' /\ OwnFolder(q)'
  <2>1. CASE q = s
    BY <2>1
  <2>2. CASE q # s
    <3>1. ~InTransaction(q) /\ ~InTransaction(q)'
      BY <1>1, <2>2 DEF InTransaction
    <3> QED BY <2>2, <3>1, LocalKept, SameStages DEF ScanInvariant
  <2> QED BY <2>1, <2>2
<1>4. ASSUME NEW q \in calm PROVE scan'[q].status # "new" /\ Alone(q)'
  <2>1. scan[q].status # "new" /\ Alone(q) /\ q \in Scans
    BY <1>1 DEF ScanInvariant
  <2>2. \A o \in Scans : /\ Active(o)' => Active(o)
                         /\ scan'[o].folder = scan[o].folder
                         /\ scan'[o].startedAt = scan[o].startedAt
    BY DEF Active, HoldsSlot
  <2>3. scan'[q].status # "new"
    BY <2>1
  <2>4. CASE sweeping' = NoJob
    BY <2>1, <2>2, <2>3, <2>4, AloneKept
  <2>5. CASE sweeping' = s /\ ~Active(s)'
    <3>1. CASE q = s
      BY <2>3, <2>5, <3>1 DEF Alone
    <3>2. CASE q # s /\ Active(q)
      <4>1. scan'[s].folder # scan'[q].folder
        BY <2>1, <3>2 DEF Alone
      <4> QED BY <2>1, <2>2, <2>3, <2>5, <3>2, <4>1 DEF Alone
    <3>3. CASE ~Active(q)
      BY <2>1, <2>2, <2>3, <3>3 DEF Alone
    <3> QED BY <3>1, <3>2, <3>3
  <2> QED BY <2>4, <2>5
<1>5. ASSUME NEW q \in calm, Live(q)' PROVE CalmOK(q)'
  <2>1. CASE q = s
    BY <2>1, <1>5
  <2>2. CASE q # s
    <3>1. Live(q) /\ q \in Scans /\ q # NoJob
      BY <1>1, <1>5, <2>2, JobTypes DEF Live, Active, HoldsSlot
    <3>2. CalmOK(q) /\ OwnFolder(q) /\ ~InTransaction(q) /\ ~InTransaction(q)'
      BY <1>1, <2>2, <3>1 DEF ScanInvariant, InTransaction
    <3>3. Completing(q)' => Completing(q)
      BY <2>2, <3>1 DEF Completing
    <3>4. scan'[q] = scan[q] /\ Box(q)' = Box(q) /\ disk' = disk
      BY <2>2, <3>1
    <3>5. \A u \in {rows', Committed'} : \E t \in {rows, Committed} :
            Gentle(t, u, scan[q].folder, scan[q].startedAt)
      BY GentleSame
    <3> QED BY <3>1, <3>2, <3>3, <3>4, <3>5, CalmElsewhere
  <2> QED BY <2>1, <2>2
<1> QED BY <1>2, <1>3, <1>4, <1>5 DEF ScanInvariant

\* A step of a scan worker concerns its own scan only.
LEMMA WorkerLeavesOthers ==
  ASSUME IndexInvariant, ScanInvariant, NEW s \in Scans, AtRest, scan[s].status = "running",
         UNCHANGED <<disk, rows, clock, txVars, sweeping, calm>>,
         \A q \in Scans : q # s => scan'[q] = scan[q] /\ Box(q)' = Box(q),
         scan'[s].folder = scan[s].folder, scan'[s].startedAt = scan[s].startedAt,
         scan'[s].status \in {"running", "ended"},
         LocalOK(s)', OwnFolder(s)', s \in calm => CalmOK(s)'
  PROVE  ScanInvariant'
<1>1. Active(s) /\ applying' = <<>> /\ sweeping' = NoJob
  BY DEF Active, HoldsSlot, AtRest, txVars
<1>2. HandlersOK' /\ Committed' = Committed /\ \A q : ~InTransaction(q)'
  BY <1>1 DEF HandlersOK, InTransaction, Committed, AtRest, txVars
<1> QED BY <1>1, <1>2, OneScanStep

\* Where the item of a file that was dealt with is.
LEMMA ReportStages ==
  ASSUME IndexInvariant, NEW s \in Scans, AtRest, NEW left,
         NEW item \in ItemsOf("scan", DOMAIN Committed), Report(s, left, item), ScanWorker
  PROVE  /\ \A q \in Scans : q # s => scan'[q] = scan[q] /\ Box(q)' = Box(q)
         /\ scan'[s].status = scan[s].status /\ scan'[s].folder = scan[s].folder
         /\ scan'[s].startedAt = scan[s].startedAt
         /\ scan'[s].work.left = left /\ scan'[s].work.at = None
         /\ scan'[s].work.known = scan[s].work.known
         /\ \A m \in DOMAIN Box(s)' : \/ m \in DOMAIN Box(s) /\ Box(s)'[m] = Box(s)[m]
                                      \/ Box(s)'[m].type = "batch"
         /\ \E n \in Nat, j \in Nat :
              /\ j \in DOMAIN Stage(s, n)' /\ Stage(s, n)'[j] = item
              /\ j \notin DOMAIN Stage(s, n)
              /\ \A k \in Nat : \A i \in DOMAIN Stage(s, k) :
                   i \in DOMAIN Stage(s, k)' /\ Stage(s, k)'[i] = Stage(s, k)[i]
              /\ \A k \in Nat : \A i \in DOMAIN Stage(s, k)' :
                   \/ i \in DOMAIN Stage(s, k) /\ Stage(s, k)'[i] = Stage(s, k)[i]
                   \/ k = n /\ i = j
<1> DEFINE batch == scan[s].work.batch
           items == Append(batch, item)
           box == Flushed(Box(s), items, BatchSize)
<1>1. /\ scan \in [Scans -> ScanOf(DOMAIN Committed)] /\ scan[s] \in ScanOf(DOMAIN Committed)
      /\ scan[s].work \in WorkOf(DOMAIN Committed)
  BY WorkTypes DEF IndexInvariant, FlowIn, ScansIn
<1>2. /\ scan' = [scan EXCEPT ![s] = scan'[s]]
      /\ scan'[s] = [scan[s] EXCEPT !.work = scan'[s].work]
      /\ scan'[s].work = [scan[s].work EXCEPT !.left = left, !.at = None, !.stat = None,
                                              !.batch = Kept(items, BatchSize)]
  BY <1>1 DEF Report, ScanOf, WorkOf
<1>3. /\ scan'[s].status = scan[s].status /\ scan'[s].folder = scan[s].folder
      /\ scan'[s].startedAt = scan[s].startedAt
      /\ scan'[s].work.left = left /\ scan'[s].work.at = None
      /\ scan'[s].work.known = scan[s].work.known
      /\ scan'[s].work.batch = Kept(items, BatchSize)
  BY <1>1, <1>2 DEF ScanOf, WorkOf
<1>4. outbox' = [outbox EXCEPT ![ScanJob(s)] = box]
  BY DEF Report, Box
<1> HIDE DEF box
<1>5. Box(s)' = box /\ \A q \in Scans : q # s => Box(q)' = Box(q)
  <2>1. ScanJob(s) \in Jobs /\ \A q \in Scans : ScanJob(s) = ScanJob(q) => q = s
    BY JobTypes
  <2> QED BY <1>4, <2>1, OtherBoxes
<1>6. \A q \in Scans : q # s => scan'[q] = scan[q]
  BY <1>1, <1>2
<1>7. Box(s) \in Seq(MessagesOf("scan", DOMAIN Committed)) /\ batch \in Seq(ItemsOf("scan", DOMAIN Committed))
  BY WorkTypes DEF Box
<1>8. /\ Len(batch) \in Nat /\ DOMAIN batch = 1..Len(batch)
      /\ Len(Box(s)) \in Nat /\ DOMAIN Box(s) = 1..Len(Box(s))
  BY <1>7, LenProperties
<1>0. PICK n \in Nat : n = Len(Box(s)) + 1
  BY <1>8
<1>9. /\ items \in Seq(ItemsOf("scan", DOMAIN Committed)) /\ Len(items) = Len(batch) + 1
      /\ DOMAIN items = 1..Len(batch) + 1
      /\ \A i \in 1..Len(batch) : items[i] = batch[i]
      /\ items[Len(batch) + 1] = item
  BY <1>7, AppendProperties, LenProperties
<1> HIDE DEF items
<1>10. /\ \A k \in Nat : Stage(s, k)' = IF k = n THEN items ELSE Stage(s, k)
       /\ \A m \in DOMAIN Box(s)' : \/ m \in DOMAIN Box(s) /\ Box(s)'[m] = Box(s)[m]
                                    \/ Box(s)'[m].type = "batch"
  <2>0. ~InTransaction(s) /\ ~InTransaction(s)'
    BY DEF InTransaction, AtRest, ScanWorker, WorkerOnly, txVars
  <2>1. CASE Len(items) >= BatchSize
    <3>1. Box(s)' = Append(Box(s), Batch(items)) /\ scan'[s].work.batch = <<>>
      BY <1>3, <1>5, <2>1 DEF box, Flushed, Kept
    <3>2. Batch(items) \in MessagesOf("scan", DOMAIN Committed)
          /\ Batch(items).type = "batch" /\ Batch(items).items = items
      BY <1>9 DEF Batch, MessagesOf
    <3>3. /\ Len(Box(s)') = n /\ DOMAIN Box(s)' = 1..n /\ Box(s)'[n] = Batch(items)
          /\ \A m \in 1..Len(Box(s)) : Box(s)'[m] = Box(s)[m]
      BY <1>0, <1>7, <3>1, <3>2, AppendProperties, LenProperties
    <3>4. \A k \in Nat : Stage(s, k)' = IF k = n THEN items ELSE Stage(s, k)
      <4> TAKE k \in Nat
      <4>1. Stage(s, k)' = IF k = 0 THEN <<>>
                           ELSE IF k <= n THEN IF Box(s)'[k].type = "batch"
                                               THEN Box(s)'[k].items ELSE <<>>
                           ELSE <<>>
        BY <2>0, <3>1, <3>3 DEF Stage
      <4>2. Stage(s, k) = IF k = 0 THEN <<>>
                          ELSE IF k < n THEN IF Box(s)[k].type = "batch"
                                             THEN Box(s)[k].items ELSE <<>>
                          ELSE IF k = n THEN batch ELSE <<>>
        BY <1>0, <1>8, <2>0 DEF Stage
      <4> QED BY <1>0, <1>8, <3>2, <3>3, <4>1, <4>2
    <3> QED BY <1>0, <1>8, <3>2, <3>3, <3>4
  <2>2. CASE ~(Len(items) >= BatchSize)
    <3>1. Box(s)' = Box(s) /\ scan'[s].work.batch = items
      BY <1>3, <1>5, <2>2 DEF box, Flushed, Kept
    <3> QED BY <1>0, <1>8, <2>0, <3>1 DEF Stage
  <2> QED BY <2>1, <2>2
<1>11. Stage(s, n) = batch
  BY <1>0, <1>8 DEF Stage
<1> DEFINE j == Len(batch) + 1
<1>12. /\ j \in Nat /\ j \in DOMAIN Stage(s, n)' /\ Stage(s, n)'[j] = item
       /\ j \notin DOMAIN Stage(s, n)
  BY <1>0, <1>8, <1>9, <1>10, <1>11
<1>13. \A k \in Nat : \A i \in DOMAIN Stage(s, k) :
         i \in DOMAIN Stage(s, k)' /\ Stage(s, k)'[i] = Stage(s, k)[i]
  BY <1>0, <1>8, <1>9, <1>10, <1>11
<1>14. \A k \in Nat : \A i \in DOMAIN Stage(s, k)' :
         \/ i \in DOMAIN Stage(s, k) /\ Stage(s, k)'[i] = Stage(s, k)[i]
         \/ k = n /\ i = j
  <2> TAKE k \in Nat
  <2> TAKE i \in DOMAIN Stage(s, k)'
  <2>1. CASE k = n
    <3>1. Stage(s, k)' = items /\ Stage(s, k) = batch
      BY <1>10, <1>11, <2>1
    <3>2. i \in 1..Len(batch) + 1
      BY <1>9, <3>1
    <3>3. i = j \/ i \in 1..Len(batch)
      BY <1>8, <3>2
    <3>4. i \in 1..Len(batch) => i \in DOMAIN batch /\ items[i] = batch[i]
      BY <1>8, <1>9
    <3> HIDE DEF j, batch
    <3> QED BY <2>1, <3>1, <3>3, <3>4
  <2>2. CASE k # n
    BY <1>10, <2>2
  <2> QED BY <2>1, <2>2
<1> HIDE DEF j
<1>15. \E m \in Nat, l \in Nat :
         /\ l \in DOMAIN Stage(s, m)' /\ Stage(s, m)'[l] = item
         /\ l \notin DOMAIN Stage(s, m)
         /\ \A k \in Nat : \A i \in DOMAIN Stage(s, k) :
              i \in DOMAIN Stage(s, k)' /\ Stage(s, k)'[i] = Stage(s, k)[i]
         /\ \A k \in Nat : \A i \in DOMAIN Stage(s, k)' :
              \/ i \in DOMAIN Stage(s, k) /\ Stage(s, k)'[i] = Stage(s, k)[i]
              \/ k = m /\ i = l
  BY <1>12, <1>13, <1>14
<1> QED BY <1>3, <1>5, <1>6, <1>10, <1>15

\* The item of the place at hand, true to the disk, joins those under way.
LEMMA Reported ==
  ASSUME IndexInvariant, IndexInvariant', ScanInvariant, NEW s \in Scans, Walking(s),
         NEW left, NEW item \in ItemsOf("scan", DOMAIN Committed),
         Report(s, left, item), ScanWorker,
         left \subseteq scan[s].work.left,
         \A p \in scan[s].work.left : p \in left \/ p = item.place,
         scan[s].work.at = None \/ scan[s].work.at = item.place,
         item.place \in scan[s].work.left \/ item.place = scan[s].work.at,
         s \in calm => item.place \notin left /\ disk[item.place] = item.stat,
         item.kind = "moved" => item.place \notin DOMAIN scan[s].work.known
  PROVE  ScanInvariant'
<1> DEFINE work == scan[s].work
<1>1. /\ AtRest /\ scan[s].status = "running" /\ item.place \in Places
      /\ UNCHANGED <<disk, rows, clock, applying, txScan, savedRows, sweeping, calm>>
  BY DEF Walking, ScanWorker, WorkerOnly, txVars, history, ItemsOf
<1>2. /\ \A q \in Scans : q # s => scan'[q] = scan[q] /\ Box(q)' = Box(q)
      /\ scan'[s].status = scan[s].status /\ scan'[s].folder = scan[s].folder
      /\ scan'[s].startedAt = scan[s].startedAt
      /\ scan'[s].work.left = left /\ scan'[s].work.at = None
      /\ scan'[s].work.known = work.known
      /\ \A m \in DOMAIN Box(s)' : \/ m \in DOMAIN Box(s) /\ Box(s)'[m] = Box(s)[m]
                                   \/ Box(s)'[m].type = "batch"
  BY <1>1, ReportStages
<1>3. PICK n \in Nat, j \in Nat :
        /\ j \in DOMAIN Stage(s, n)' /\ Stage(s, n)'[j] = item
        /\ j \notin DOMAIN Stage(s, n)
        /\ \A k \in Nat : \A i \in DOMAIN Stage(s, k) :
             i \in DOMAIN Stage(s, k)' /\ Stage(s, k)'[i] = Stage(s, k)[i]
        /\ \A k \in Nat : \A i \in DOMAIN Stage(s, k)' :
             \/ i \in DOMAIN Stage(s, k) /\ Stage(s, k)'[i] = Stage(s, k)[i]
             \/ k = n /\ i = j
  BY <1>1, ReportStages
<1>4. StagesTyped /\ StagesTyped' /\ work.left \subseteq Places /\ None \notin Places
  BY StageTypes, StageTypesNext, WorkTypes, NoneIsNoPlace
<1>5. LocalOK(s)'
  <2>1. \A m \in DOMAIN Box(s)' : Box(s)'[m].type = "batch"
    BY <1>1, <1>2 DEF ScanInvariant, LocalOK
  <2>2. scan'[s].startedAt <= clock'
    BY <1>1, <1>2 DEF ScanInvariant, LocalOK
  <2> QED BY <1>1, <1>2, <2>1, <2>2 DEF LocalOK
<1>6. ASSUME NEW p \in Places
      PROVE  /\ IsOpen(s, p)' <=> IsOpen(s, p)
             /\ IsHoped(s, p)' => IsHoped(s, p)
  <2>1. p \in left \/ p = item.place <=> p \in work.left \/ p = work.at \/ p = item.place
    BY <1>4
  <2>2. IsOpen(s, p) => IsOpen(s, p)'
    BY <1>2, <1>3, <1>4, <2>1 DEF IsOpen
  <2>3. IsOpen(s, p)' => IsOpen(s, p)
    BY <1>2, <1>3, <1>4, <2>1 DEF IsOpen
  <2>4. IsHoped(s, p)' => IsHoped(s, p)
    BY <1>2, <1>3, <1>4, <2>1 DEF IsHoped
  <2> QED BY <2>2, <2>3, <2>4
<1>7. OwnFolder(s)'
  BY <1>2, <1>6 DEF ScanInvariant, OwnFolder, InFolder
<1>8. ASSUME s \in calm PROVE CalmOK(s)'
  <2>1. CalmOK(s) /\ ~InTransaction(s)
    BY <1>1, <1>8 DEF ScanInvariant, Live, Active, HoldsSlot, InTransaction, AtRest
  <2>2. Truthful(s)
    BY <2>1 DEF CalmOK
  <2>3. Truthful(s)'
    <3>1. \A k \in Nat : \A i \in DOMAIN Stage(s, k) :
            /\ disk[Stage(s, k)[i].place] = Stage(s, k)[i].stat
            /\ Stage(s, k)[i].place \notin work.left /\ Stage(s, k)[i].place # work.at
            /\ Stage(s, k)[i].place # item.place
            /\ \A l \in Nat : \A m \in DOMAIN Stage(s, l) :
                 Stage(s, l)[m].place = Stage(s, k)[i].place => l = k /\ m = i
      BY <2>2 DEF Truthful
    <3>2. ASSUME NEW k \in Nat, NEW i \in DOMAIN Stage(s, k)'
          PROVE  /\ disk'[Stage(s, k)'[i].place] = Stage(s, k)'[i].stat
                 /\ Stage(s, k)'[i].place \notin left /\ Stage(s, k)'[i].place # None
                 /\ \A l \in Nat : \A m \in DOMAIN Stage(s, l)' :
                      Stage(s, l)'[m].place = Stage(s, k)'[i].place => l = k /\ m = i
      <4>1. CASE i \in DOMAIN Stage(s, k) /\ Stage(s, k)'[i] = Stage(s, k)[i]
        <5>1. \A l \in Nat : \A m \in DOMAIN Stage(s, l)' :
                 Stage(s, l)'[m].place = Stage(s, k)'[i].place => l = k /\ m = i
          BY <1>3, <3>1, <4>1
        <5>2. Stage(s, k)'[i].place \in Places
          BY <1>4 DEF StagesTyped
        <5> QED BY <1>1, <1>4, <3>1, <4>1, <5>1, <5>2
      <4>2. CASE k = n /\ i = j
        <5>1. Stage(s, k)'[i] = item
          BY <1>3, <4>2
        <5>2. \A l \in Nat : \A m \in DOMAIN Stage(s, l)' :
                Stage(s, l)'[m].place = item.place => l = n /\ m = j
          BY <1>3, <3>1
        <5> QED BY <1>1, <1>4, <1>8, <4>2, <5>1, <5>2
      <4> QED BY <1>3, <4>1, <4>2
    <3> QED BY <1>2, <3>2 DEF Truthful
  <2>4. \A p \in Places : IsHoped(s, p)' => IsHoped(s, p) /\ InFolder(s, p)
    BY <1>6 DEF IsHoped, IsOpen, ScanInvariant, OwnFolder
  <2>5. Completing(s)
    BY <1>1 DEF Completing
  <2>6. rows' = rows /\ Committed' = Committed
    BY <1>1 DEF Committed
  <2> QED BY <1>1, <1>2, <1>6, <2>1, <2>3, <2>4, <2>5, <2>6, GentleSame, CalmKept
<1> QED BY <1>1, <1>2, <1>5, <1>7, <1>8, WorkerLeavesOthers DEF txVars

\* A file that is read becomes an item of the batch, with what is on the disk.
LEMMA ReadFileKeeps ==
  ASSUME IndexInvariant, IndexInvariant', ScanInvariant, NEW s \in Scans, ReadFile(s)
  PROVE  ScanInvariant'
<1> DEFINE work == scan[s].work
<1>1. PICK item \in ItemsOf("scan", DOMAIN Committed) :
        /\ Report(s, work.left, item) /\ ScanWorker
        /\ item.place = work.at /\ item.stat = work.stat
        /\ item.kind = "moved" => work.at \notin DOMAIN work.known
  BY ReadItem
<1>2. Walking(s) /\ work.at # None
  BY DEF ReadFile
<1>3. s \in calm => Truthful(s)
  BY <1>2 DEF ScanInvariant, Live, Active, HoldsSlot, Walking, CalmOK
<1>4. s \in calm => work.at \notin work.left /\ disk[work.at] = work.stat
  BY <1>2, <1>3 DEF Truthful
<1> QED BY <1>1, <1>2, <1>4, Reported

\* A place that the walk only notes, or finds gone.
LEMMA NotedKeeps ==
  ASSUME IndexInvariant, IndexInvariant', ScanInvariant, NEW s \in Scans, NEW p \in Places,
         Walking(s), scan[s].work.at = None, p \in scan[s].work.left,
         scan' = [scan EXCEPT ![s].work.left = scan[s].work.left \ {p},
                              ![s].work.at = Pending(p, disk[p]),
                              ![s].work.stat = disk[p]],
         UNCHANGED outbox, ScanWorker
  PROVE  ScanInvariant'
<1> DEFINE work == scan[s].work
<1>1. /\ AtRest /\ scan[s].status = "running"
      /\ UNCHANGED <<disk, rows, clock, applying, txScan, savedRows, sweeping, calm>>
  BY DEF Walking, ScanWorker, WorkerOnly, txVars, history
<1>2. /\ scan \in [Scans -> ScanOf(DOMAIN Committed)] /\ scan[s] \in ScanOf(DOMAIN Committed)
      /\ work \in WorkOf(DOMAIN Committed)
  BY WorkTypes DEF IndexInvariant, FlowIn, ScansIn
<1>3. /\ scan' = [scan EXCEPT ![s] = scan'[s]]
      /\ scan'[s] = [scan[s] EXCEPT !.work = scan'[s].work]
      /\ scan'[s].work = [work EXCEPT !.left = work.left \ {p}, !.at = Pending(p, disk[p]),
                                      !.stat = disk[p]]
  BY <1>2 DEF ScanOf, WorkOf
<1>4. /\ scan'[s].status = "running" /\ scan'[s].folder = scan[s].folder
      /\ scan'[s].startedAt = scan[s].startedAt
      /\ scan'[s].work.left = work.left \ {p} /\ scan'[s].work.at = Pending(p, disk[p])
      /\ scan'[s].work.stat = disk[p]
      /\ scan'[s].work.known = work.known /\ scan'[s].work.batch = work.batch
  BY <1>1, <1>2, <1>3 DEF ScanOf, WorkOf
<1>5. \A q \in Scans : Box(q)' = Box(q) /\ (q # s => scan'[q] = scan[q])
  BY <1>2, <1>3 DEF Box
<1>6. ~InTransaction(s) /\ ~InTransaction(s)'
  BY <1>1 DEF InTransaction, AtRest
<1>7. \A k : Stage(s, k)' = Stage(s, k)
  BY <1>4, <1>5, <1>6 DEF Stage
<1>8. StagesTyped /\ None \notin Places /\ scan'[s].work.at \in {None, p}
  BY <1>4, StageTypes, NoneIsNoPlace DEF Pending
<1>9. ASSUME NEW q \in Places
      PROVE  /\ IsOpen(s, q)' => IsOpen(s, q)
             /\ IsHoped(s, q)' => IsHoped(s, q)
             /\ IsOpen(s, q) /\ disk[q] # None => IsOpen(s, q)'
  <2>1. /\ q \in work.left \ {p} \/ q = scan'[s].work.at => q \in work.left
        /\ q \in work.left /\ disk[q] # None => q \in work.left \ {p} \/ q = scan'[s].work.at
        /\ q # work.at
    BY <1>4, <1>8 DEF Pending
  <2>2. IsOpen(s, q)' => IsOpen(s, q)
    BY <1>4, <1>7, <2>1 DEF IsOpen
  <2>3. IsHoped(s, q)' => IsHoped(s, q)
    BY <1>4, <1>7, <2>1 DEF IsHoped
  <2>4. IsOpen(s, q) /\ disk[q] # None => IsOpen(s, q)'
    BY <1>4, <1>7, <2>1 DEF IsOpen
  <2> QED BY <2>2, <2>3, <2>4
<1>10. LocalOK(s)'
  <2>1. LocalOK(s)
    BY DEF ScanInvariant
  <2>2. /\ \A m \in DOMAIN Box(s) : Box(s)[m].type = "batch"
        /\ scan[s].startedAt <= clock
    BY <1>1, <2>1 DEF LocalOK
  <2>3. Box(s)' = Box(s) /\ clock' = clock
    BY <1>1, <1>5
  <2> HIDE DEF work
  <2> QED BY <1>4, <2>2, <2>3 DEF LocalOK
<1>11. OwnFolder(s)'
  BY <1>4, <1>9 DEF ScanInvariant, OwnFolder, InFolder
<1>12. ASSUME s \in calm PROVE CalmOK(s)'
  <2>1. CalmOK(s)
    BY <1>1, <1>12 DEF ScanInvariant, Live, Active, HoldsSlot
  <2>2. Truthful(s)
    BY <2>1 DEF CalmOK
  <2>3. scan'[s].work.at # None =>
          disk'[scan'[s].work.at] = scan'[s].work.stat /\ scan'[s].work.at \notin scan'[s].work.left
    BY <1>1, <1>4 DEF Pending
  <2>4. ASSUME NEW k \in Nat, NEW i \in DOMAIN Stage(s, k)
        PROVE  /\ disk'[Stage(s, k)[i].place] = Stage(s, k)[i].stat
               /\ Stage(s, k)[i].place \notin scan'[s].work.left
               /\ Stage(s, k)[i].place # scan'[s].work.at
               /\ \A l \in Nat : \A j \in DOMAIN Stage(s, l) :
                    Stage(s, l)[j].place = Stage(s, k)[i].place => l = k /\ j = i
    <3>1. /\ disk[Stage(s, k)[i].place] = Stage(s, k)[i].stat
          /\ Stage(s, k)[i].place \notin work.left
          /\ \A l \in Nat : \A j \in DOMAIN Stage(s, l) :
               Stage(s, l)[j].place = Stage(s, k)[i].place => l = k /\ j = i
      BY <2>2 DEF Truthful
    <3>2. Stage(s, k)[i].place \in Places
      BY <1>8 DEF StagesTyped
    <3> QED BY <1>1, <1>4, <1>8, <3>1, <3>2
  <2>5. Truthful(s)'
    <3>1. ASSUME NEW k \in Nat, NEW i \in DOMAIN Stage(s, k)'
          PROVE  /\ disk'[Stage(s, k)'[i].place] = Stage(s, k)'[i].stat
                 /\ Stage(s, k)'[i].place \notin scan'[s].work.left
                 /\ Stage(s, k)'[i].place # scan'[s].work.at
                 /\ \A l \in Nat : \A j \in DOMAIN Stage(s, l)' :
                      Stage(s, l)'[j].place = Stage(s, k)'[i].place => l = k /\ j = i
      <4>1. Stage(s, k)' = Stage(s, k) /\ i \in DOMAIN Stage(s, k)
        BY <1>7
      <4>2. \A l \in Nat : \A j \in DOMAIN Stage(s, l) :
               Stage(s, l)[j].place = Stage(s, k)[i].place => l = k /\ j = i
        BY <2>4, <4>1
      <4>3. \A l \in Nat : \A j \in DOMAIN Stage(s, l)' :
               Stage(s, l)'[j].place = Stage(s, k)[i].place => l = k /\ j = i
        BY <1>7, <4>2
      <4>4. /\ disk'[Stage(s, k)[i].place] = Stage(s, k)[i].stat
            /\ Stage(s, k)[i].place \notin scan'[s].work.left
            /\ Stage(s, k)[i].place # scan'[s].work.at
        BY <2>4, <4>1
      <4> QED BY <4>1, <4>3, <4>4
    <3> QED BY <2>3, <3>1 DEF Truthful
  <2>6. ASSUME NEW q \in Places, IsHoped(s, q)' PROVE IsHoped(s, q) /\ InFolder(s, q)
    <3>1. IsHoped(s, q)
      BY <1>9, <2>6
    <3>2. IsOpen(s, q)
      BY <3>1 DEF IsHoped, IsOpen
    <3>3. OwnFolder(s)
      BY DEF ScanInvariant
    <3> QED BY <3>1, <3>2, <3>3 DEF OwnFolder
  <2>7. Completing(s) /\ rows' = rows /\ Committed' = Committed
    BY <1>1 DEF Completing, Committed
  <2>8. \A u \in {rows', Committed'} : \E t \in {rows, Committed} :
          Gentle(t, u, scan[s].folder, scan[s].startedAt)
    BY <2>7, GentleSame
  <2>9. \A q \in Places : disk[q] # None /\ IsOpen(s, q) => IsOpen(s, q)'
    BY <1>9
  <2>10. disk' = disk /\ scan'[s].folder = scan[s].folder /\ scan'[s].startedAt = scan[s].startedAt
    BY <1>1, <1>4
  <2> QED BY <1>6, <2>1, <2>5, <2>6, <2>7, <2>8, <2>9, <2>10, CalmKept
<1> QED BY <1>1, <1>4, <1>5, <1>10, <1>11, <1>12, WorkerLeavesOthers DEF txVars

\* A place that is visited is an item at once if its row is right, and else is to be read.
LEMMA VisitKeeps ==
  ASSUME IndexInvariant, IndexInvariant', ScanInvariant, NEW s \in Scans, NEW p \in Places,
         Visit(s, p)
  PROVE  ScanInvariant'
<1> DEFINE work == scan[s].work
<1>1. Walking(s) /\ work.at = None /\ p \in work.left /\ ScanWorker
  BY DEF Visit
<1>2. CASE disk[p] # None /\ IsUnchanged(work, p, disk[p])
  <2>1. Report(s, work.left \ {p}, Same(p, disk[p]))
    BY <1>2 DEF Visit
  <2>2. disk[p] \in Contents
    BY <1>2 DEF IndexInvariant, PlainTypes
  <2>3. /\ Same(p, disk[p]) \in ItemsOf("scan", DOMAIN Committed)
        /\ Same(p, disk[p]).place = p /\ Same(p, disk[p]).stat = disk[p]
        /\ Same(p, disk[p]).kind = "same"
    BY <2>2 DEF Same, ItemsOf
  <2> QED BY <1>1, <2>1, <2>3, Reported
<1>3. CASE ~(disk[p] # None /\ IsUnchanged(work, p, disk[p]))
  <2>1. /\ scan' = [scan EXCEPT ![s].work.left = work.left \ {p},
                                ![s].work.at = Pending(p, disk[p]),
                                ![s].work.stat = disk[p]]
        /\ UNCHANGED outbox
    BY <1>3 DEF Visit
  <2> QED BY <1>1, <2>1, NotedKeeps
<1> QED BY <1>2, <1>3

\* What a walk sends last.
LEMMA FinishedStages ==
  ASSUME IndexInvariant, NEW s \in Scans, scan[s].status = "running", LocalOK(s),
         NEW items \in {<<>>, scan[s].work.batch}, NEW message \in {Done, Stopped},
         Box(s)' = Finished(Box(s), items, message),
         scan'[s].work = NoWork, ~InTransaction(s), ~InTransaction(s)'
  PROVE  /\ Box(s)' # <<>> /\ Box(s)'[Len(Box(s)')] = message
         /\ \A m \in DOMAIN Box(s)' : m # Len(Box(s)') => Box(s)'[m].type = "batch"
         /\ \A k \in Nat : \/ Stage(s, k)' = <<>>
                           \/ Stage(s, k)' = Stage(s, k)
         /\ items = scan[s].work.batch => \A k \in Nat : Stage(s, k)' = Stage(s, k)
<1> DEFINE batch == scan[s].work.batch
           Msgs == MessagesOf("scan", DOMAIN Committed)
<1>1. /\ Box(s) \in Seq(Msgs) /\ items \in Seq(ItemsOf("scan", DOMAIN Committed))
      /\ batch \in Seq(ItemsOf("scan", DOMAIN Committed))
  <2>1. <<>> \in Seq(ItemsOf("scan", DOMAIN Committed))
    OBVIOUS
  <2> QED BY <2>1, WorkTypes DEF Box
<1>2. PICK n \in Nat : n = Len(Box(s)) /\ DOMAIN Box(s) = 1..n
  BY <1>1, LenProperties
<1>3. /\ Batch(items) \in Msgs /\ Batch(items).type = "batch" /\ Batch(items).items = items
      /\ message \in Msgs /\ message.type # "batch"
  BY <1>1 DEF Batch, MessagesOf, Done, Stopped
<1>4. scan'[s].work.batch = <<>>
  BY DEF NoWork
<1>5. \A m \in 1..n : Box(s)[m].type = "batch"
  BY <1>2 DEF LocalOK
<1>6. CASE items = <<>>
  <2>1. Box(s)' = Append(Box(s), message)
    BY <1>1, <1>3, <1>6 DEF Finished
  <2>2. /\ Len(Box(s)') = n + 1 /\ DOMAIN Box(s)' = 1..n + 1 /\ Box(s)'[n + 1] = message
        /\ \A m \in 1..n : Box(s)'[m] = Box(s)[m]
    BY <1>1, <1>2, <1>3, <2>1, AppendProperties, LenProperties
  <2>3. Box(s)' # <<>> /\ Box(s)'[Len(Box(s)')] = message
    BY <2>2
  <2>4. \A m \in DOMAIN Box(s)' : m # Len(Box(s)') => Box(s)'[m].type = "batch"
    BY <1>5, <2>2
  <2>5. \A k \in Nat : Stage(s, k)' = IF k = n + 1 THEN <<>> ELSE Stage(s, k)
    BY <1>2, <1>3, <1>4, <2>2 DEF Stage
  <2>6. batch = <<>> => Stage(s, n + 1) = <<>>
    BY <1>2 DEF Stage
  <2>7. \A k \in Nat : Stage(s, k)' = <<>> \/ Stage(s, k)' = Stage(s, k)
    BY <2>5
  <2>8. items = batch => \A k \in Nat : Stage(s, k)' = Stage(s, k)
    BY <1>6, <2>5, <2>6
  <2> QED BY <2>3, <2>4, <2>7, <2>8
<1>7. CASE items # <<>>
  <2>0. items = batch
    BY <1>7
  <2>1. Box(s)' = Append(Append(Box(s), Batch(items)), message)
    <3>1. Append(Box(s), Batch(items)) \in Seq(Msgs)
      BY <1>1, <1>3, AppendProperties
    <3> QED BY <1>3, <1>7, <3>1 DEF Finished
  <2>2. PICK box \in Seq(Msgs) :
          /\ box = Append(Box(s), Batch(items)) /\ Len(box) = n + 1
          /\ box[n + 1] = Batch(items) /\ \A m \in 1..n : box[m] = Box(s)[m]
    <3> DEFINE more == Append(Box(s), Batch(items))
    <3>1. /\ more \in Seq(Msgs) /\ Len(more) = n + 1 /\ more[n + 1] = Batch(items)
          /\ \A m \in 1..n : more[m] = Box(s)[m]
      BY <1>1, <1>2, <1>3, AppendProperties
    <3> QED BY <3>1
  <2>3. /\ Len(Box(s)') = n + 2 /\ DOMAIN Box(s)' = 1..n + 2 /\ Box(s)'[n + 2] = message
        /\ \A m \in 1..n + 1 : Box(s)'[m] = box[m]
    BY <1>3, <2>1, <2>2, AppendProperties, LenProperties
  <2>4. Box(s)' # <<>> /\ Box(s)'[Len(Box(s)')] = message
    BY <2>3
  <2>5. /\ Box(s)'[n + 1] = Batch(items) /\ \A m \in 1..n : Box(s)'[m] = Box(s)[m]
    BY <2>2, <2>3
  <2>6. \A m \in DOMAIN Box(s)' : m # Len(Box(s)') => Box(s)'[m].type = "batch"
    BY <1>3, <1>5, <2>3, <2>5
  <2>7. ASSUME NEW k \in Nat PROVE Stage(s, k)' = Stage(s, k)
    <3>1. CASE k = 0
      BY <3>1 DEF Stage
    <3>2. CASE k \in 1..n
      BY <1>2, <2>3, <2>5, <3>2 DEF Stage
    <3>3. CASE k = n + 1
      BY <1>2, <1>3, <2>0, <2>3, <2>5, <3>3 DEF Stage
    <3>4. CASE k > n + 1
      <4>1. Stage(s, k) = <<>>
        BY <1>2, <3>4 DEF Stage
      <4>2. Stage(s, k)' = <<>>
        BY <1>3, <1>4, <2>3, <3>4 DEF Stage
      <4> QED BY <4>1, <4>2
    <3> QED BY <3>1, <3>2, <3>3, <3>4
  <2> QED BY <2>4, <2>6, <2>7
<1> QED BY <1>6, <1>7

\* At the end of the walk the batch is sent, and the final message after it.
LEMMA WalkEndKeeps ==
  ASSUME IndexInvariant, IndexInvariant', ScanInvariant, NEW s \in Scans,
         WalkEnds(s) \/ WalkStops(s)
  PROVE  ScanInvariant'
<1> DEFINE work == scan[s].work
<1>1. /\ Walking(s)
      /\ UNCHANGED <<disk, rows, clock, applying, txScan, savedRows, sweeping, calm>>
  <2>1. CASE WalkEnds(s)
    BY <2>1 DEF WalkEnds, ScanWorker, WorkerOnly, txVars, history
  <2>2. CASE WalkStops(s)
    BY <2>2 DEF WalkStops, txVars, history
  <2> QED BY <2>1, <2>2
<1>2. /\ scan \in [Scans -> ScanOf(DOMAIN Committed)] /\ scan[s] \in ScanOf(DOMAIN Committed)
  BY WorkTypes DEF IndexInvariant, FlowIn, ScansIn
<1>3. scan' = [scan EXCEPT ![s].status = "ended", ![s].work = NoWork]
  <2>1. CASE WalkEnds(s)
    BY <2>1 DEF WalkEnds
  <2>2. CASE WalkStops(s)
    BY <2>2 DEF WalkStops
  <2> QED BY <2>1, <2>2
<1>4. /\ scan'[s].status = "ended" /\ scan'[s].folder = scan[s].folder
      /\ scan'[s].startedAt = scan[s].startedAt /\ scan'[s].work = NoWork
      /\ \A q \in Scans : q # s => scan'[q] = scan[q]
  BY <1>2, <1>3 DEF ScanOf
<1>5. PICK items \in {<<>>, work.batch}, message \in {Done, Stopped} :
        /\ outbox' = [outbox EXCEPT ![ScanJob(s)] = Finished(Box(s), items, message)]
        /\ message = Done => items = work.batch /\ work.left = {} /\ work.at = None
  <2>1. CASE WalkEnds(s)
    BY <2>1 DEF WalkEnds, Box
  <2>2. CASE WalkStops(s)
    <3>1. PICK items \in Leftover(work.left = {} /\ work.at = None, work.batch) :
            outbox' = [outbox EXCEPT ![ScanJob(s)] = Finished(@, items, Stopped)]
      BY <2>2 DEF WalkStops
    <3> QED BY <3>1 DEF Leftover, Box, Done, Stopped
  <2> QED BY <2>1, <2>2
<1>6. /\ Box(s)' = Finished(Box(s), items, message)
      /\ \A q \in Scans : q # s => Box(q)' = Box(q)
  <2>1. ScanJob(s) \in Jobs /\ \A q \in Scans : ScanJob(s) = ScanJob(q) => q = s
    BY JobTypes
  <2> QED BY <1>5, <2>1, OtherBoxes
<1>7. ~InTransaction(s) /\ ~InTransaction(s)' /\ scan[s].status = "running" /\ AtRest
  BY <1>1 DEF InTransaction, Walking, AtRest
<1>8. LocalOK(s) /\ OwnFolder(s) /\ NoWork.left = {} /\ NoWork.at = None
  BY DEF ScanInvariant, NoWork
<1>9. /\ Box(s)' # <<>> /\ Box(s)'[Len(Box(s)')] = message
      /\ \A m \in DOMAIN Box(s)' : m # Len(Box(s)') => Box(s)'[m].type = "batch"
      /\ \A k \in Nat : Stage(s, k)' = <<>> \/ Stage(s, k)' = Stage(s, k)
      /\ items = work.batch => \A k \in Nat : Stage(s, k)' = Stage(s, k)
  BY <1>4, <1>6, <1>7, <1>8, FinishedStages
<1>10. LocalOK(s)'
  BY <1>1, <1>4, <1>8, <1>9 DEF LocalOK, Done, Stopped
<1>11. StagesTyped /\ None \notin Places
       /\ \A k \in Nat : \A i \in DOMAIN Stage(s, k)' : Stage(s, k)' = Stage(s, k)
  BY <1>9, StageTypes, NoneIsNoPlace
<1>12. ASSUME NEW p \in Places
       PROVE  /\ IsOpen(s, p)' => IsOpen(s, p)
              /\ IsHoped(s, p)' => IsHoped(s, p)
              /\ message = Done /\ IsOpen(s, p) => IsOpen(s, p)'
  <2>1. IsOpen(s, p)' => IsOpen(s, p)
    BY <1>4, <1>8, <1>11 DEF IsOpen
  <2>2. IsHoped(s, p)' => IsHoped(s, p)
    BY <1>4, <1>8, <1>11 DEF IsHoped
  <2>3. message = Done /\ IsOpen(s, p) => IsOpen(s, p)'
    BY <1>5, <1>9, <1>11 DEF IsOpen
  <2> QED BY <2>1, <2>2, <2>3
<1>13. OwnFolder(s)'
  BY <1>4, <1>8, <1>12 DEF OwnFolder, InFolder
<1>14. ASSUME s \in calm PROVE CalmOK(s)'
  <2>1. CalmOK(s)
    BY <1>7, <1>14 DEF ScanInvariant, Live, Active, HoldsSlot
  <2>2. Truthful(s)
    BY <2>1 DEF CalmOK
  <2>3. ASSUME NEW k \in Nat, NEW i \in DOMAIN Stage(s, k)'
        PROVE  /\ disk'[Stage(s, k)'[i].place] = Stage(s, k)'[i].stat
               /\ Stage(s, k)'[i].place # None
               /\ \A l \in Nat : \A j \in DOMAIN Stage(s, l)' :
                    Stage(s, l)'[j].place = Stage(s, k)'[i].place => l = k /\ j = i
    <3>1. Stage(s, k)' = Stage(s, k) /\ i \in DOMAIN Stage(s, k)
      BY <1>11
    <3>2. /\ disk[Stage(s, k)[i].place] = Stage(s, k)[i].stat
          /\ \A l \in Nat : \A j \in DOMAIN Stage(s, l) :
               Stage(s, l)[j].place = Stage(s, k)[i].place => l = k /\ j = i
      BY <2>2, <3>1 DEF Truthful
    <3>3. \A l \in Nat : \A j \in DOMAIN Stage(s, l)' :
             Stage(s, l)'[j].place = Stage(s, k)[i].place => l = k /\ j = i
      BY <1>11, <3>2
    <3>4. Stage(s, k)[i].place # None
      BY <1>11, <3>1 DEF StagesTyped
    <3> QED BY <1>1, <3>1, <3>2, <3>3, <3>4
  <2>4. Truthful(s)'
    BY <1>4, <1>8, <2>3 DEF Truthful
  <2>5. \A p \in Places : IsHoped(s, p)' => IsHoped(s, p) /\ InFolder(s, p)
    BY <1>8, <1>12 DEF IsHoped, IsOpen, OwnFolder
  <2>6. Completing(s)' => message = Done
    <3>1. sweeping' = NoJob /\ s # NoJob
      BY <1>1, <1>7, JobTypes DEF AtRest
    <3> QED BY <1>4, <1>9, <3>1 DEF Completing, Done, Stopped
  <2>7. Completing(s)' =>
          /\ Completing(s)
          /\ \A p \in Places : disk[p] # None /\ IsOpen(s, p) => IsOpen(s, p)'
    BY <1>7, <1>12, <2>6 DEF Completing
  <2>8. rows' = rows /\ Committed' = Committed
    BY <1>1 DEF Committed
  <2>9. \A u \in {rows', Committed'} : \E t \in {rows, Committed} :
          Gentle(t, u, scan[s].folder, scan[s].startedAt)
    BY <2>8, GentleSame
  <2>10. disk' = disk /\ scan'[s].folder = scan[s].folder /\ scan'[s].startedAt = scan[s].startedAt
    BY <1>1, <1>4
  <2> QED BY <1>7, <2>1, <2>4, <2>5, <2>7, <2>9, <2>10, CalmKept
<1> QED BY <1>1, <1>4, <1>6, <1>7, <1>10, <1>13, <1>14, WorkerLeavesOthers DEF txVars

-----------------------------------------------------------------------------
(* Messages of a scan as they come in.                                     *)

\* A batch taken from the outbox moves every stage down by one.
LEMMA TakeStages ==
  ASSUME IndexInvariant, NEW s \in Scans, LocalOK(s), TakeBatch(ScanJob(s))
  PROVE  /\ Box(s)' = Tail(Box(s)) /\ \A q \in Scans : q # s => Box(q)' = Box(q)
         /\ \A k \in Nat : Stage(s, k)' = Stage(s, k + 1)
         /\ scan[s].status \in {"running", "ended"}
         /\ LocalOK(s)'
         /\ Completing(s)' => Completing(s)
<1>1. /\ AtRest /\ Box(s) # <<>> /\ Box(s)[1].type = "batch"
      /\ outbox' = [outbox EXCEPT ![ScanJob(s)] = Tail(Box(s))]
      /\ applying' = Box(s)[1].items /\ txScan' = s
      /\ UNCHANGED <<scan, clock, sweeping>>
  BY JobTypes DEF TakeBatch, Arrives, Pop, Box
<1>2. Box(s)' = Tail(Box(s)) /\ \A q \in Scans : q # s => Box(q)' = Box(q)
  <2>1. ScanJob(s) \in Jobs /\ \A q \in Scans : ScanJob(s) = ScanJob(q) => q = s
    BY JobTypes
  <2> QED BY <1>1, <2>1, OtherBoxes
<1>3. Box(s) \in Seq(MessagesOf("scan", DOMAIN Committed))
  BY WorkTypes DEF Box
<1>4. PICK n \in Nat : n = Len(Box(s)) /\ DOMAIN Box(s) = 1..n /\ n # 0
  BY <1>1, <1>3, LenProperties, EmptySeq
<1>5. /\ Len(Box(s)') = n - 1 /\ DOMAIN Box(s)' = 1..n - 1
      /\ \A m \in 1..n - 1 : Box(s)'[m] = Box(s)[m + 1]
  BY <1>1, <1>2, <1>3, <1>4, HeadTailProperties, LenProperties
<1>6. ASSUME NEW k \in Nat PROVE Stage(s, k)' = Stage(s, k + 1)
  <2>1. CASE k = 0
    <3>1. Stage(s, 0)' = Box(s)[1].items
      BY <1>1 DEF Stage, InTransaction
    <3>2. Stage(s, 1) = Box(s)[1].items
      BY <1>1, <1>4 DEF Stage
    <3> QED BY <2>1, <3>1, <3>2
  <2>2. CASE k \in 1..n - 1
    BY <1>4, <1>5, <2>2 DEF Stage
  <2>3. CASE k = n
    BY <1>1, <1>4, <1>5, <2>3 DEF Stage
  <2>4. CASE k > n
    BY <1>4, <1>5, <2>4 DEF Stage
  <2> QED BY <1>4, <2>1, <2>2, <2>3, <2>4
<1>7. scan[s].status \in {"running", "ended"}
  <2>1. scan[s].status \in {"new", "queued", "running", "ended", "over"}
    BY WorkTypes DEF ScanOf
  <2> QED BY <1>1, <2>1 DEF LocalOK
<1>8. scan[s].status = "ended" => n > 1 /\ Box(s)'[n - 1] = Box(s)[n]
  BY <1>1, <1>4, <1>5 DEF LocalOK
<1>9. Completing(s)' => Completing(s)
  BY <1>1, <1>4, <1>5, <1>8 DEF Completing
<1>10. LocalOK(s)'
  <2>1. CASE scan[s].status = "running"
    BY <1>1, <1>4, <1>5, <2>1 DEF LocalOK
  <2>2. CASE scan[s].status = "ended"
    <3>1. \A m \in DOMAIN Box(s) : m # n => Box(s)[m].type = "batch"
      BY <1>4, <2>2 DEF LocalOK
    <3>2. Box(s)[n].type # "batch"
      BY <1>4, <2>2 DEF LocalOK
    <3>3. \A m \in DOMAIN Box(s)' : m # n - 1 => Box(s)'[m].type = "batch"
      BY <1>4, <1>5, <3>1
    <3>4. Box(s)' # <<>>
      BY <1>5, <1>8, <2>2
    <3> QED BY <1>1, <1>5, <1>8, <2>2, <3>2, <3>3, <3>4 DEF LocalOK
  <2> QED BY <1>7, <2>1, <2>2
<1> QED BY <1>2, <1>6, <1>7, <1>9, <1>10

\* A batch that becomes a transaction keeps its places open.
LEMMA TakeBatchKeeps ==
  ASSUME IndexInvariant, IndexInvariant', ScanInvariant, NEW s \in Scans,
         TakeBatch(ScanJob(s))
  PROVE  ScanInvariant'
<1>1. /\ AtRest /\ txScan' = s /\ savedRows' = rows
      /\ UNCHANGED <<disk, rows, clock, scan, sweeping, calm>>
  BY JobTypes DEF TakeBatch, Arrives, history
<1>2. LocalOK(s) /\ OwnFolder(s)
  BY DEF ScanInvariant
<1>3. /\ Box(s)' = Tail(Box(s)) /\ \A q \in Scans : q # s => Box(q)' = Box(q)
      /\ \A k \in Nat : Stage(s, k)' = Stage(s, k + 1)
      /\ scan[s].status \in {"running", "ended"}
      /\ LocalOK(s)'
      /\ Completing(s)' => Completing(s)
  BY <1>2, TakeStages
<1>4. ~InTransaction(s) /\ Active(s) /\ sweeping' = NoJob /\ Committed' = Committed
  BY <1>1, <1>3 DEF InTransaction, AtRest, Active, HoldsSlot, Committed
<1>5. HandlersOK'
  BY <1>1, <1>3, <1>4 DEF HandlersOK, HoldsSlot
<1>6. StagesTyped /\ Stage(s, 0) = <<>>
  BY <1>4, StageTypes DEF Stage
<1>7. ASSUME NEW p PROVE (IsOpen(s, p)' <=> IsOpen(s, p)) /\ (IsHoped(s, p)' <=> IsHoped(s, p))
  <2>1. \A k \in Nat : \A i \in DOMAIN Stage(s, k) :
           /\ k - 1 \in Nat /\ i \in DOMAIN Stage(s, k - 1)'
           /\ Stage(s, k - 1)'[i] = Stage(s, k)[i]
    <3> TAKE k \in Nat
    <3> TAKE i \in DOMAIN Stage(s, k)
    <3>1. k # 0
      BY <1>6
    <3>2. k - 1 \in Nat /\ (k - 1) + 1 = k
      BY <3>1
    <3> QED BY <1>3, <3>2
  <2>2. \A k \in Nat : \A i \in DOMAIN Stage(s, k)' :
           /\ k + 1 \in Nat /\ i \in DOMAIN Stage(s, k + 1)
           /\ Stage(s, k)'[i] = Stage(s, k + 1)[i]
    BY <1>3
  <2>3. IsOpen(s, p)' <=> IsOpen(s, p)
    BY <1>1, <2>1, <2>2 DEF IsOpen
  <2>4. IsHoped(s, p)' <=> IsHoped(s, p)
    BY <1>1, <2>1, <2>2 DEF IsHoped
  <2> QED BY <2>3, <2>4
<1>8. OwnFolder(s)'
  BY <1>1, <1>2, <1>7 DEF OwnFolder, InFolder
<1>9. ASSUME s \in calm PROVE CalmOK(s)'
  <2>1. CalmOK(s)
    BY <1>4, <1>9 DEF ScanInvariant, Live
  <2>2. Truthful(s)
    BY <2>1 DEF CalmOK
  <2>3. ASSUME NEW k \in Nat, NEW i \in DOMAIN Stage(s, k)'
        PROVE  /\ disk'[Stage(s, k)'[i].place] = Stage(s, k)'[i].stat
               /\ Stage(s, k)'[i].place \notin scan'[s].work.left
               /\ Stage(s, k)'[i].place # scan'[s].work.at
               /\ \A l \in Nat : \A j \in DOMAIN Stage(s, l)' :
                    Stage(s, l)'[j].place = Stage(s, k)'[i].place => l = k /\ j = i
    <3>1. k + 1 \in Nat /\ Stage(s, k)' = Stage(s, k + 1) /\ i \in DOMAIN Stage(s, k + 1)
      BY <1>3
    <3>2. /\ disk[Stage(s, k + 1)[i].place] = Stage(s, k + 1)[i].stat
          /\ Stage(s, k + 1)[i].place \notin scan[s].work.left
          /\ Stage(s, k + 1)[i].place # scan[s].work.at
          /\ \A l \in Nat : \A j \in DOMAIN Stage(s, l) :
               Stage(s, l)[j].place = Stage(s, k + 1)[i].place => l = k + 1 /\ j = i
      BY <2>2, <3>1 DEF Truthful
    <3>3. ASSUME NEW l \in Nat, NEW j \in DOMAIN Stage(s, l)',
                 Stage(s, l)'[j].place = Stage(s, k + 1)[i].place
          PROVE  l = k /\ j = i
      <4>1. l + 1 \in Nat /\ Stage(s, l)' = Stage(s, l + 1)
        BY <1>3
      <4>2. l + 1 = k + 1 /\ j = i
        BY <3>2, <3>3, <4>1
      <4> QED BY <4>2
    <3> QED BY <1>1, <3>1, <3>2, <3>3
  <2>4. Truthful(s)'
    <3>1. scan[s].work.at # None =>
            disk[scan[s].work.at] = scan[s].work.stat /\ scan[s].work.at \notin scan[s].work.left
      BY <2>2 DEF Truthful
    <3> QED BY <1>1, <2>3, <3>1 DEF Truthful
  <2>5. \A p \in Places : IsHoped(s, p)' => IsHoped(s, p) /\ InFolder(s, p)
    BY <1>2, <1>7 DEF IsHoped, IsOpen, OwnFolder
  <2>6. Completing(s)' =>
          /\ Completing(s)
          /\ \A p \in Places : disk[p] # None /\ IsOpen(s, p) => IsOpen(s, p)'
    BY <1>3, <1>7
  <2>7. \A u \in {rows', Committed'} : \E t \in {rows, Committed} :
          Gentle(t, u, scan[s].folder, scan[s].startedAt)
    BY <1>1, <1>4, GentleSame
  <2>8. disk' = disk /\ scan'[s].folder = scan[s].folder /\ scan'[s].startedAt = scan[s].startedAt
    BY <1>1
  <2> QED BY <1>4, <2>1, <2>4, <2>5, <2>6, <2>7, <2>8, CalmKept
<1>10. \A q \in Scans : q # s => scan'[q] = scan[q] /\ Box(q)' = Box(q) /\ ~InTransaction(q)'
  BY <1>1, <1>3 DEF InTransaction
<1>11. scan'[s].status # "new" /\ scan'[s].folder = scan[s].folder
       /\ scan'[s].startedAt = scan[s].startedAt
  BY <1>1, <1>3
<1> QED BY <1>1, <1>3, <1>4, <1>5, <1>8, <1>9, <1>10, <1>11, OneScanStep

\* The end of a scan: all of its messages were taken.
LEMMA ScanEndKeeps ==
  ASSUME IndexInvariant, IndexInvariant', ScanInvariant, NEW s \in Scans,
         ScanDone(s) \/ JobStopped(ScanJob(s))
  PROVE  ScanInvariant'
<1>1. /\ AtRest /\ outbox[ScanJob(s)] # <<>> /\ Pop(ScanJob(s))
      /\ scan' = [scan EXCEPT ![s].status = "over"]
      /\ UNCHANGED <<disk, rows, clock, applying, txScan, savedRows, calm>>
      /\ \/ sweeping' = s /\ outbox[ScanJob(s)][1].type = "done"
         \/ sweeping' = NoJob /\ outbox[ScanJob(s)][1].type = "stopped"
  <2>1. CASE ScanDone(s)
    BY <2>1 DEF ScanDone, Arrives, txVars, history
  <2>2. CASE JobStopped(ScanJob(s))
    <3>1. ScanJob(s).type = "scan" /\ ScanJob(s).id = s
      BY JobTypes
    <3>2. /\ AtRest /\ outbox[ScanJob(s)] # <<>> /\ Head(outbox[ScanJob(s)]).type = "stopped"
          /\ Pop(ScanJob(s)) /\ sweeping' = sweeping
          /\ UNCHANGED <<disk, rows, clock, applying, txScan, savedRows, calm>>
      BY <2>2 DEF JobStopped, Arrives, txVars, history
    <3>3. scan' = [scan EXCEPT ![s].status = "over"]
      BY <2>2, <3>1 DEF JobStopped
    <3> QED BY <3>2, <3>3 DEF AtRest
  <2> QED BY <2>1, <2>2
<1>2. /\ scan \in [Scans -> ScanOf(DOMAIN Committed)] /\ scan[s] \in ScanOf(DOMAIN Committed)
  BY WorkTypes DEF IndexInvariant, FlowIn, ScansIn
<1>3. /\ scan'[s].status = "over" /\ scan'[s].folder = scan[s].folder
      /\ scan'[s].startedAt = scan[s].startedAt /\ scan'[s].work = scan[s].work
      /\ \A q \in Scans : q # s => scan'[q] = scan[q]
  BY <1>1, <1>2 DEF ScanOf
<1>4. Box(s)' = Tail(Box(s)) /\ \A q \in Scans : q # s => Box(q)' = Box(q)
  <2>1. ScanJob(s) \in Jobs /\ \A q \in Scans : ScanJob(s) = ScanJob(q) => q = s
    BY JobTypes
  <2>2. outbox' = [outbox EXCEPT ![ScanJob(s)] = Tail(Box(s))]
    BY <1>1 DEF Pop, Box
  <2> QED BY <2>1, <2>2, OtherBoxes
<1>5. LocalOK(s) /\ OwnFolder(s)
  BY DEF ScanInvariant
<1>6. Box(s) \in Seq(MessagesOf("scan", DOMAIN Committed)) /\ Box(s) # <<>>
      /\ Box(s)[1].type # "batch"
  BY <1>1, WorkTypes DEF Box
<1>7. PICK n \in Nat : n = Len(Box(s)) /\ DOMAIN Box(s) = 1..n /\ n # 0
  BY <1>6, LenProperties, EmptySeq
<1>8. scan[s].status = "ended" /\ n = 1 /\ scan[s].work = NoWork
  <2>1. scan[s].status \in {"new", "queued", "running", "ended", "over"}
    BY <1>2 DEF ScanOf
  <2>2. scan[s].status \notin {"new", "queued", "over", "running"}
    BY <1>5, <1>6, <1>7 DEF LocalOK
  <2> QED BY <1>5, <1>6, <1>7, <2>1, <2>2 DEF LocalOK
<1>9. Box(s)' = <<>>
  BY <1>4, <1>6, <1>7, <1>8, HeadTailProperties, EmptySeq
<1>10. /\ ~InTransaction(s) /\ Active(s) /\ ~Active(s)' /\ Committed' = Committed
       /\ \A q : ~InTransaction(q)'
  BY <1>1, <1>3, <1>8 DEF InTransaction, AtRest, Active, HoldsSlot, Committed
<1>11. HandlersOK'
  BY <1>1, <1>3 DEF HandlersOK, AtRest
<1>12. LocalOK(s)'
  BY <1>1, <1>3, <1>5, <1>8, <1>9 DEF LocalOK
<1>13. \A k \in Nat : Stage(s, k)' = <<>>
  BY <1>3, <1>8, <1>9, <1>10, EmptyStages DEF NoWork
<1>14. /\ \A p \in Places : ~IsOpen(s, p)' /\ ~IsHoped(s, p)'
       /\ scan'[s].work.at = None
  BY <1>3, <1>8, <1>13, NoneIsNoPlace DEF IsOpen, IsHoped, NoWork
<1>15. OwnFolder(s)'
  BY <1>14 DEF OwnFolder
<1>16. ASSUME s \in calm, Live(s)' PROVE CalmOK(s)'
  <2>1. CalmOK(s)
    BY <1>10, <1>16 DEF ScanInvariant, Live
  <2>2. sweeping' = s /\ Box(s)[1].type = "done"
    BY <1>1, <1>10, <1>16, JobTypes DEF Live, Box
  <2>3. Completing(s)
    BY <1>7, <1>8, <2>2 DEF Completing
  <2>4. Truthful(s)'
    BY <1>13, <1>14 DEF Truthful
  <2>5. \A p \in Places : ~IsOpen(s, p)
    <3>1. \A k \in Nat : Stage(s, k) = <<>>
      BY <1>6, <1>7, <1>8, <1>10 DEF Stage, NoWork
    <3> QED BY <1>8, <3>1, NoneIsNoPlace DEF IsOpen, NoWork
  <2>6. Completing(s)' =>
          /\ Completing(s)
          /\ \A p \in Places : disk[p] # None /\ IsOpen(s, p) => IsOpen(s, p)'
    BY <2>3, <2>5
  <2>7. \A u \in {rows', Committed'} : \E t \in {rows, Committed} :
          Gentle(t, u, scan[s].folder, scan[s].startedAt)
    BY <1>1, <1>10, GentleSame
  <2>8. disk' = disk
    BY <1>1
  <2> QED BY <1>3, <1>10, <1>14, <2>1, <2>4, <2>6, <2>7, <2>8, CalmKept
<1>17. scan'[s].status # "new"
  BY <1>3
<1>18. sweeping' = NoJob \/ (sweeping' = s /\ ~Active(s)')
  BY <1>1, <1>10
<1> QED BY <1>1, <1>3, <1>4, <1>10, <1>11, <1>12, <1>15, <1>16, <1>17, <1>18, OneScanStep

-----------------------------------------------------------------------------
(* Claims.                                                                 *)

\* A scan begins, or begins again: everything is open, and where it knows of no
\* row there is none.
LEMMA DispatchedScan ==
  ASSUME IndexInvariant, NEW s \in Scans, LocalOK(s), scan[s].status \in {"new", "queued"},
         applying = <<>>, NEW f, Dispatch(s, f),
         UNCHANGED <<disk, rows, outbox, txVars>>,
         clock' = clock \/ clock' = clock + 1, StartedAt(s) <= clock'
  PROVE  /\ scan'[s].status = "running" /\ scan'[s].folder = f
         /\ scan'[s].startedAt = StartedAt(s)
         /\ \A q \in Scans : q # s => scan'[q] = scan[q]
         /\ LocalOK(s)' /\ OwnFolder(s)'
         /\ OldWhereGone(s, rows)' => CalmOK(s)'
<1>1. scan' = [scan EXCEPT ![s] =
                [status |-> "running", folder |-> f, startedAt |-> StartedAt(s),
                 work |-> [NoWork EXCEPT !.known = KnownFiles(rows, f),
                                         !.candidates = MoveCandidates(rows),
                                         !.left = {p \in Places : FolderOf[p] = f}]]]
  BY DEF Dispatch
<1>2. scan \in [Scans -> ScanOf(DOMAIN Committed)]
  BY DEF IndexInvariant, FlowIn, ScansIn
<1>3. /\ scan'[s].status = "running" /\ scan'[s].folder = f
      /\ scan'[s].startedAt = StartedAt(s)
      /\ scan'[s].work.left = {p \in Places : FolderOf[p] = f} /\ scan'[s].work.at = None
      /\ scan'[s].work.batch = <<>> /\ scan'[s].work.known = KnownFiles(rows, f)
      /\ \A q \in Scans : q # s => scan'[q] = scan[q]
  BY <1>1, <1>2 DEF NoWork
<1> DEFINE ps == {p \in Places : FolderOf[p] = f}
<1>4. Box(s)' = <<>> /\ ~InTransaction(s)' /\ rows' = rows /\ disk' = disk
      /\ Committed' = rows
  BY DEF LocalOK, Box, InTransaction, Committed, txVars
<1>5. \A k \in Nat : Stage(s, k)' = <<>>
  BY <1>3, <1>4, EmptyStages
<1>6. \A p \in Places : IsOpen(s, p)' <=> p \in ps
  BY <1>3, <1>5, NoneIsNoPlace DEF IsOpen
<1>7. \A p \in Places : IsHoped(s, p)' => p \in ps /\ p \notin DOMAIN KnownFiles(rows, f)
  BY <1>3, <1>5, NoneIsNoPlace DEF IsHoped
<1>8. LocalOK(s)'
  BY <1>3, <1>4 DEF LocalOK
<1>9. OwnFolder(s)'
  BY <1>3, <1>6 DEF OwnFolder, InFolder
<1>10. Truthful(s)'
  BY <1>3, <1>5 DEF Truthful
<1>11. FreeForMoves(s, rows)'
  <2>1. \A p \in ps : Indexed(rows, p) => p \in DOMAIN KnownFiles(rows, f)
    BY DEF Indexed, IsAt, KnownFiles
  <2> QED BY <1>4, <1>7, <2>1 DEF FreeForMoves
<1>12. Covered(s, rows)'
  BY <1>3, <1>6 DEF Covered, InFolder
<1>13. OldWhereGone(s, rows)' => CalmOK(s)'
  <2>1. OldWhereGone(s, rows)' => OldWhereGone(s, Committed)'
    BY <1>4 DEF OldWhereGone
  <2>2. FreeForMoves(s, Committed)' /\ Covered(s, Committed)'
    BY <1>4, <1>11, <1>12 DEF FreeForMoves, Covered
  <2> QED BY <1>10, <1>11, <1>12, <2>1, <2>2 DEF CalmOK
<1> QED BY <1>3, <1>8, <1>9, <1>13

\* A claim concerns no scan but the one that is claimed.
LEMMA ClaimLeavesOthers ==
  ASSUME IndexInvariant, ScanInvariant, NEW s \in Scans, applying = <<>>,
         scan[s].status \in {"new", "queued"}, scan'[s].status = "running",
         UNCHANGED <<disk, rows, outbox, txVars, sweeping>>,
         clock' = clock \/ clock' = clock + 1,
         \A q \in Scans : q # s => scan'[q] = scan[q],
         LocalOK(s)', OwnFolder(s)',
         \A q \in calm' : q = s \/ q \in calm,
         \A q \in calm' : Alone(q)',
         s \in calm' => CalmOK(s)'
  PROVE  ScanInvariant'
<1>1. calm \subseteq Scans /\ clock \in Nat /\ sweeping # s
      /\ applying' = <<>> /\ Committed = rows /\ Committed' = rows
  BY DEF IndexInvariant, PlainTypes, ScanInvariant, HandlersOK, Committed, txVars, NoJob, Scans
<1>2. SeenByNow(rows)' /\ SeenByNow(Committed)'
  <2>1. \A r \in DOMAIN rows : rows[r].lastSeenAt \in Nat /\ rows[r].lastSeenAt <= clock
    BY TableTypes DEF ScanInvariant, SeenByNow, IndexInvariant, Tables, SoundTable
  <2> QED BY <1>1, <2>1 DEF SeenByNow
<1>3. HandlersOK'
  <2>1. sweeping \in Scans \cup {NoJob}
    BY DEF IndexInvariant, PlainTypes
  <2> QED BY <1>1, <2>1 DEF ScanInvariant, HandlersOK
<1>4. ASSUME NEW q \in Scans, q # s
      PROVE  /\ ~InTransaction(q) /\ ~InTransaction(q)' /\ Box(q)' = Box(q)
             /\ LocalOK(q)' /\ OwnFolder(q)'
  <2>1. ~InTransaction(q) /\ ~InTransaction(q)' /\ Box(q)' = Box(q)
    BY <1>1 DEF InTransaction, Box
  <2> QED BY <1>4, <2>1, LocalKept, SameStages DEF ScanInvariant
<1>5. ASSUME NEW q \in calm' PROVE scan'[q].status # "new"
  BY <1>1 DEF ScanInvariant
<1>6. ASSUME NEW q \in calm', Live(q)', q # s PROVE CalmOK(q)'
  <2>1. q \in calm /\ q \in Scans /\ scan'[q] = scan[q] /\ Live(q)
    BY <1>1, <1>6 DEF Live, Active, HoldsSlot
  <2>2. CalmOK(q) /\ OwnFolder(q)
    BY <2>1 DEF ScanInvariant
  <2>3. Box(q)' = Box(q) /\ ~InTransaction(q) /\ ~InTransaction(q)'
    BY <1>4, <1>6, <2>1
  <2>4. Completing(q)' => Completing(q)
    BY <2>1, <2>3 DEF Completing
  <2>5. \A u \in {rows', Committed'} : \E t \in {rows, Committed} :
          Gentle(t, u, scan[q].folder, scan[q].startedAt)
    BY <1>1, GentleSame
  <2>6. disk' = disk
    OBVIOUS
  <2> QED BY <2>1, <2>2, <2>3, <2>4, <2>5, <2>6, CalmElsewhere
<1> QED BY <1>2, <1>3, <1>4, <1>5, <1>6 DEF ScanInvariant

\* A scan that begins finds rows no younger than itself, and is calm if it is alone.
LEMMA ClaimScanKeeps ==
  ASSUME IndexInvariant, IndexInvariant', ScanInvariant, NEW s \in Scans, NEW f \in Folders,
         ClaimScan(s, f)
  PROVE  ScanInvariant'
<1> DEFINE others == {q \in Scans : Active(q) /\ scan[q].folder = f}
<1>1. /\ applying = <<>> /\ scan[s].status = "new" /\ Dispatch(s, f)
      /\ clock' = clock + 1 /\ StartedAt(s) = clock + 1
      /\ calm' = (calm \ others) \cup (IF others = {} THEN {s} ELSE {})
      /\ UNCHANGED <<disk, rows, outbox, txVars, sweeping>>
  BY DEF ClaimScan, StartedAt
<1>2. clock \in Nat /\ calm \subseteq Scans /\ sweeping \in Scans \cup {NoJob}
  BY DEF IndexInvariant, PlainTypes
<1>3. /\ scan'[s].status = "running" /\ scan'[s].folder = f
      /\ scan'[s].startedAt = clock + 1
      /\ \A q \in Scans : q # s => scan'[q] = scan[q]
      /\ LocalOK(s)' /\ OwnFolder(s)'
      /\ OldWhereGone(s, rows)' => CalmOK(s)'
  <2>1. LocalOK(s) /\ StartedAt(s) <= clock'
    BY <1>1, <1>2 DEF ScanInvariant
  <2> QED BY <1>1, <2>1, DispatchedScan
<1>4. OldWhereGone(s, rows)'
  <2>1. \A r \in DOMAIN rows : rows[r].lastSeenAt \in Nat /\ rows[r].lastSeenAt <= clock
    BY TableTypes DEF ScanInvariant, SeenByNow, IndexInvariant, Tables, SoundTable
  <2> QED BY <1>1, <1>2, <1>3, <2>1 DEF OldWhereGone
<1>5. \A q \in calm' : q = s \/ q \in calm
  BY <1>1
<1>6. s \notin calm /\ s # sweeping
  BY <1>1, JobTypes DEF ScanInvariant, HandlersOK
<1>7. ASSUME NEW q \in calm' PROVE Alone(q)'
  <2>1. CASE q = s
    <3>1. others = {}
      BY <1>1, <1>6, <2>1
    <3>2. \A o \in Scans : Active(o)' /\ scan'[o].folder = f => o = s
      BY <1>3, <3>1 DEF Active, HoldsSlot
    <3>3. sweeping # NoJob => scan'[sweeping].startedAt <= clock + 1
      <4>1. sweeping # NoJob =>
              /\ scan[sweeping].startedAt <= clock /\ scan[sweeping].startedAt \in Nat
              /\ scan'[sweeping] = scan[sweeping]
        BY <1>2, <1>3, <1>6, WorkTypes DEF ScanInvariant, LocalOK, ScanOf
      <4> QED BY <1>2, <4>1
    <3> QED BY <1>1, <1>3, <2>1, <3>2, <3>3 DEF Alone
  <2>2. CASE q # s
    <3>1. q \in calm /\ q \in Scans /\ q \notin others /\ scan'[q] = scan[q]
      BY <1>1, <1>2, <1>3, <2>2
    <3>2. Alone(q)
      BY <3>1 DEF ScanInvariant
    <3>3. ASSUME Active(q)' PROVE Active(q) /\ scan[q].folder # f
      BY <3>1, <3>3 DEF Active, HoldsSlot
    <3>4. \A o \in Scans : o # s /\ Active(o)' => Active(o) /\ scan'[o].folder = scan[o].folder
      BY <1>3 DEF Active, HoldsSlot
    <3>5. sweeping # NoJob => scan'[sweeping] = scan[sweeping]
      BY <1>2, <1>3, <1>6
    <3> QED BY <1>1, <1>3, <3>1, <3>2, <3>3, <3>4, <3>5 DEF Alone
  <2> QED BY <2>1, <2>2
<1> QED BY <1>1, <1>3, <1>4, <1>5, <1>7, ClaimLeavesOthers

\* A scan that was requeued begins again.
LEMMA ClaimRequeuedKeeps ==
  ASSUME IndexInvariant, IndexInvariant', ScanInvariant, NEW s \in Scans, ClaimRequeued(s)
  PROVE  ScanInvariant'
<1>1. /\ applying = <<>> /\ scan[s].status = "queued" /\ Dispatch(s, scan[s].folder)
      /\ StartedAt(s) = scan[s].startedAt
      /\ UNCHANGED <<disk, rows, clock, outbox, txVars, sweeping, calm>>
  BY DEF ClaimRequeued, StartedAt, history
<1>2. calm \subseteq Scans /\ LocalOK(s)
  BY DEF IndexInvariant, PlainTypes, ScanInvariant
<1>3. /\ scan'[s].status = "running" /\ scan'[s].folder = scan[s].folder
      /\ scan'[s].startedAt = scan[s].startedAt
      /\ \A q \in Scans : q # s => scan'[q] = scan[q]
      /\ LocalOK(s)' /\ OwnFolder(s)'
      /\ OldWhereGone(s, rows)' => CalmOK(s)'
  <2>1. StartedAt(s) <= clock'
    BY <1>1, <1>2 DEF LocalOK
  <2> QED BY <1>1, <1>2, <2>1, DispatchedScan
<1>4. ASSUME NEW q \in calm' PROVE Alone(q)'
  <2>1. Alone(q) /\ q \in Scans
    BY <1>1, <1>2 DEF ScanInvariant
  <2>2. \A o \in Scans : /\ Active(o)' => Active(o)
                         /\ scan'[o].folder = scan[o].folder
                         /\ scan'[o].startedAt = scan[o].startedAt
    BY <1>1, <1>3 DEF Active, HoldsSlot
  <2> QED BY <1>1, <2>1, <2>2, AloneKept
<1>5. ASSUME s \in calm PROVE CalmOK(s)'
  <2>1. OldWhereGone(s, rows)
    BY <1>1, <1>5 DEF ScanInvariant, Live, Active, CalmOK
  <2>2. OldWhereGone(s, rows)'
    BY <1>1, <1>3, <2>1 DEF OldWhereGone, InFolder
  <2> QED BY <1>3, <2>2
<1> QED BY <1>1, <1>3, <1>4, <1>5, ClaimLeavesOthers

-----------------------------------------------------------------------------
(* The end of the process.                                                 *)

\* Nothing is under way any more, and what was requeued has yet to look at all.
LEMMA DeathKeeps ==
  ASSUME IndexInvariant, ScanInvariant, ProcessDies
  PROVE  ScanInvariant'
<1>1. /\ rows' = Committed /\ applying' = <<>> /\ txScan' = NoJob /\ sweeping' = NoJob
      /\ scan' = [s \in Scans |-> Requeued(s)] /\ outbox' = [j \in Jobs |-> <<>>]
      /\ UNCHANGED <<disk, clock, calm>>
  BY DEF ProcessDies, history
<1>2. Committed' = Committed /\ calm \subseteq Scans /\ Committed \in {rows, Committed}
  BY <1>1 DEF Committed, IndexInvariant, PlainTypes
<1>3. ASSUME NEW s \in Scans
      PROVE  /\ scan'[s].status \in {"new", "queued", "over"} /\ scan'[s].work = NoWork
             /\ scan'[s].status = "new" => scan[s].status = "new"
             /\ scan'[s].folder = scan[s].folder /\ scan'[s].startedAt = scan[s].startedAt
             /\ Active(s)' <=> Active(s)
             /\ Box(s)' = <<>> /\ ~InTransaction(s)'
  <2>1. scan[s] \in ScanOf(DOMAIN Committed)
    BY WorkTypes
  <2>2. scan'[s] = Requeued(s) /\ Box(s)' = <<>> /\ ~InTransaction(s)'
    BY <1>1, JobTypes DEF Box, InTransaction
  <2>3. CASE HoldsSlot(s)
    <3>1. /\ scan'[s].status = "queued" /\ scan'[s].work = NoWork
          /\ scan'[s].folder = scan[s].folder /\ scan'[s].startedAt = scan[s].startedAt
      BY <2>1, <2>2, <2>3 DEF Requeued, ScanOf
    <3> QED BY <2>2, <2>3, <3>1 DEF Active
  <2>4. CASE ~HoldsSlot(s)
    <3>1. scan'[s] = scan[s] /\ scan[s].status \in {"new", "queued", "over"}
      BY <2>1, <2>2, <2>4 DEF Requeued, ScanOf, HoldsSlot
    <3>2. scan[s].work = NoWork
      BY <3>1 DEF ScanInvariant, LocalOK
    <3> QED BY <2>2, <3>1, <3>2 DEF Active, HoldsSlot
  <2> QED BY <2>3, <2>4
<1>4. ASSUME NEW s \in Scans
      PROVE  /\ \A k \in Nat : Stage(s, k)' = <<>>
             /\ \A p \in Places : ~IsOpen(s, p)' /\ ~IsHoped(s, p)'
             /\ scan'[s].work.at = None
  <2>1. \A k \in Nat : Stage(s, k)' = <<>>
    BY <1>3, EmptyStages DEF NoWork
  <2> QED BY <1>3, <2>1, NoneIsNoPlace DEF IsOpen, IsHoped, NoWork
<1>5. SeenByNow(rows)' /\ SeenByNow(Committed)' /\ HandlersOK'
  BY <1>1, <1>2 DEF ScanInvariant, SeenByNow, HandlersOK
<1>6. ASSUME NEW s \in Scans PROVE LocalOK(s)' /\ OwnFolder(s)'
  BY <1>1, <1>3, <1>4 DEF ScanInvariant, LocalOK, OwnFolder
<1>7. ASSUME NEW s \in calm' PROVE scan'[s].status # "new" /\ Alone(s)'
  <2>1. scan[s].status # "new" /\ Alone(s) /\ s \in Scans
    BY <1>1, <1>2 DEF ScanInvariant
  <2> QED BY <1>1, <1>3, <2>1, AloneKept
<1>8. ASSUME NEW s \in calm', Live(s)' PROVE CalmOK(s)'
  <2>1. s \in calm /\ s \in Scans /\ Active(s)
    BY <1>1, <1>2, <1>3, <1>8, JobTypes DEF Live
  <2>2. OldWhereGone(s, Committed)
    BY <1>2, <2>1 DEF ScanInvariant, Live, CalmOK
  <2>3. OldWhereGone(s, rows)' /\ OldWhereGone(s, Committed)'
    BY <1>1, <1>2, <1>3, <2>1, <2>2 DEF OldWhereGone, InFolder
  <2>4. FreeForMoves(s, rows)' /\ FreeForMoves(s, Committed)' /\ Truthful(s)'
    BY <1>4, <2>1 DEF FreeForMoves, Truthful
  <2>5. ~Completing(s)'
    BY <1>1, <1>3, <2>1, JobTypes DEF Completing
  <2> QED BY <2>3, <2>4, <2>5 DEF CalmOK
<1> QED BY <1>5, <1>6, <1>7, <1>8 DEF ScanInvariant

-----------------------------------------------------------------------------
(* The sweep.                                                              *)

\* A sweep changes no row but those it finds unseen, and of these the status only.
LEMMA MissingRows ==
  ASSUME NEW t \in Seq(Rows), NEW f, NEW cutoff
  PROVE  LET u == MarkMissing(t, f, cutoff)
         IN /\ DOMAIN u = DOMAIN t
            /\ \A r \in DOMAIN t :
                 /\ u[r].place = t[r].place /\ u[r].stat = t[r].stat
                 /\ u[r].lastSeenAt = t[r].lastSeenAt
                 /\ u[r].sha256 = t[r].sha256 /\ u[r].frame = t[r].frame
                 /\ u[r].parseError = t[r].parseError
                 /\ IF /\ FolderOf[t[r].place] = f /\ t[r].status = "present"
                       /\ t[r].lastSeenAt < cutoff
                    THEN u[r].status = "missing" ELSE u[r] = t[r]
<1> DEFINE u == MarkMissing(t, f, cutoff)
<1>1. DOMAIN u = DOMAIN t
  BY DEF MarkMissing
<1>2. ASSUME NEW r \in DOMAIN t
      PROVE  /\ u[r].place = t[r].place /\ u[r].stat = t[r].stat
             /\ u[r].lastSeenAt = t[r].lastSeenAt
             /\ u[r].sha256 = t[r].sha256 /\ u[r].frame = t[r].frame
             /\ u[r].parseError = t[r].parseError
             /\ IF /\ FolderOf[t[r].place] = f /\ t[r].status = "present"
                   /\ t[r].lastSeenAt < cutoff
                THEN u[r].status = "missing" ELSE u[r] = t[r]
  <2>1. t[r] \in Rows
    BY TableTypes
  <2>2. u[r] = IF /\ FolderOf[t[r].place] = f /\ t[r].status = "present"
                  /\ t[r].lastSeenAt < cutoff
               THEN [t[r] EXCEPT !.status = "missing"] ELSE t[r]
    BY DEF MarkMissing
  <2> QED BY <2>1, <2>2 DEF Rows
<1> QED BY <1>1, <1>2

\* The sweep marks rows of the folder that are older than its scan, and nobody else scans it.
LEMMA SweepKeeps ==
  ASSUME IndexInvariant, IndexInvariant', ScanInvariant, Sweep
  PROVE  ScanInvariant'
<1> DEFINE f == scan[sweeping].folder
           cutoff == scan[sweeping].startedAt
<1>1. /\ sweeping # NoJob /\ applying = <<>> /\ rows' = MarkMissing(rows, f, cutoff)
      /\ sweeping' = NoJob /\ UNCHANGED <<disk, clock, scan, outbox, txVars, calm>>
  BY DEF Sweep, history
<1>2. /\ calm \subseteq Scans /\ sweeping \in Scans /\ rows \in Seq(Rows)
      /\ Committed = rows /\ Committed' = rows' /\ applying' = <<>>
      /\ scan[sweeping].status = "over"
  BY <1>1 DEF IndexInvariant, PlainTypes, Tables, SoundTable, Committed, txVars,
              ScanInvariant, HandlersOK
<1>3. /\ DOMAIN rows' = DOMAIN rows
      /\ \A r \in DOMAIN rows :
           /\ rows'[r].place = rows[r].place /\ rows'[r].stat = rows[r].stat
           /\ rows'[r].lastSeenAt = rows[r].lastSeenAt
           /\ IF /\ FolderOf[rows[r].place] = f /\ rows[r].status = "present"
                 /\ rows[r].lastSeenAt < cutoff
              THEN rows'[r].status = "missing" ELSE rows'[r] = rows[r]
  BY <1>1, <1>2, MissingRows
<1>4. SeenByNow(rows)' /\ SeenByNow(Committed)' /\ HandlersOK'
  BY <1>1, <1>2, <1>3 DEF ScanInvariant, SeenByNow, HandlersOK
<1>5. ASSUME NEW s \in Scans
      PROVE  /\ scan'[s] = scan[s] /\ Box(s)' = Box(s)
             /\ ~InTransaction(s) /\ ~InTransaction(s)'
             /\ LocalOK(s)' /\ OwnFolder(s)'
  <2>1. scan'[s] = scan[s] /\ Box(s)' = Box(s) /\ ~InTransaction(s) /\ ~InTransaction(s)'
    BY <1>1, <1>2 DEF InTransaction, Box
  <2> QED BY <1>1, <2>1, LocalKept, SameStages DEF ScanInvariant
<1>6. ASSUME NEW s \in calm' PROVE scan'[s].status # "new" /\ Alone(s)'
  <2>1. scan[s].status # "new" /\ Alone(s) /\ s \in Scans
    BY <1>1, <1>2 DEF ScanInvariant
  <2>2. \A q \in Scans : /\ Active(q)' => Active(q)
                         /\ scan'[q].folder = scan[q].folder
                         /\ scan'[q].startedAt = scan[q].startedAt
    BY <1>1 DEF Active, HoldsSlot
  <2> QED BY <1>1, <2>1, <2>2, AloneKept
<1>7. ASSUME NEW s \in calm', Live(s)' PROVE CalmOK(s)'
  <2>1. s \in calm /\ s \in Scans /\ Active(s) /\ s # sweeping
    BY <1>1, <1>2, <1>7, JobTypes DEF Live, Active, HoldsSlot
  <2>2. CalmOK(s) /\ OwnFolder(s) /\ Alone(s)
    BY <2>1 DEF ScanInvariant, Live
  <2>3. scan[s].folder = f => cutoff <= scan[s].startedAt
    BY <1>1, <2>1, <2>2 DEF Alone
  <2>4. cutoff \in Nat /\ scan[s].startedAt \in Nat
    BY <1>2, <2>1, WorkTypes DEF ScanOf
  <2>5. Gentle(rows, rows', scan[s].folder, scan[s].startedAt)
    <3>1. \A r \in DOMAIN rows :
            FolderOf[rows[r].place] = scan[s].folder /\ rows[r].lastSeenAt = scan[s].startedAt
              => rows'[r] = rows[r]
      <4> HIDE DEF f, cutoff
      <4> QED BY <1>3, <2>3, <2>4
    <3> HIDE DEF f, cutoff
    <3> QED BY <1>3, <3>1 DEF Gentle
  <2>6. \A u \in {rows', Committed'} : \E t \in {rows, Committed} :
          Gentle(t, u, scan[s].folder, scan[s].startedAt)
    BY <1>2, <2>5
  <2>7. Completing(s)' => Completing(s)
    BY <1>1, <1>5, <2>1, JobTypes DEF Completing
  <2>8. disk' = disk
    BY <1>1
  <2> QED BY <1>5, <2>1, <2>2, <2>6, <2>7, <2>8, CalmElsewhere
<1> QED BY <1>4, <1>5, <1>6, <1>7 DEF ScanInvariant

-----------------------------------------------------------------------------
(* Transactions.                                                           *)

(* What the write of the item of place p does to the table: a row there    *)
(* says what a scan that began at time T saw, no row comes to any other    *)
(* place or changes its time there, and rows that are not missing stay.    *)
Settles(t, u, p, c, T) ==
  /\ SeenHere(u, p, c, T)
  /\ \A r \in DOMAIN u : u[r].place # p =>
       r \in DOMAIN t /\ t[r].place = u[r].place /\ t[r].lastSeenAt = u[r].lastSeenAt
  /\ \A r \in DOMAIN t : t[r].place # p /\ t[r].status # "missing" =>
       /\ r \in DOMAIN u /\ u[r].place = t[r].place /\ u[r].stat = t[r].stat
       /\ u[r].lastSeenAt = t[r].lastSeenAt /\ u[r].status # "missing"

\* To settle a place is gentle to the other folders.
LEMMA SettlesElsewhere ==
  ASSUME NEW t, NEW u, NEW p, NEW c, NEW T, Settles(t, u, p, c, T), NEW f, FolderOf[p] # f
  PROVE  \A at : Gentle(t, u, f, at)
BY DEF Settles, Gentle

\* What is settled is not seen in the future.
LEMMA SettlesInTime ==
  ASSUME NEW t, NEW u, NEW p, NEW c, NEW T, Settles(t, u, p, c, T), PlacesDistinct(u),
         SeenByNow(t), T <= clock
  PROVE  \A r \in DOMAIN u : u[r].lastSeenAt <= clock
<1> SUFFICES ASSUME NEW r \in DOMAIN u PROVE u[r].lastSeenAt <= clock
  OBVIOUS
<1>1. CASE u[r].place = p
  <2>1. u[r].lastSeenAt = T
    BY <1>1 DEF Settles, SeenHere, IsAt, PlacesDistinct
  <2> QED BY <2>1
<1>2. CASE u[r].place # p
  BY <1>2 DEF Settles, SeenByNow
<1> QED BY <1>1, <1>2

\* Both ways to write the item of a file settle its place.
LEMMA WriteSettles ==
  ASSUME IndexInvariant, WriteDiscovered \/ WriteMoved
  PROVE  /\ applying # <<>> /\ txScan \in Scans
         /\ \E table : /\ Writes(table) /\ SoundTable(table)
                       /\ Settles(rows, table, Item.place, Item.stat, SeenAt)
<1>1. applying # <<>> /\ Item.kind \in {"same", "parsed", "failed", "moved"}
  BY DEF WriteDiscovered, WriteMoved, FellThrough, Arriving
<1>2. txScan \in Scans
  BY <1>1, ItemTypes
<1>3. CASE WriteDiscovered
  <2>1. PICK table : /\ Writes(table) /\ SoundTable(table)
                     /\ ChangesOnly(rows, table, Item.place) /\ KeepsPlaces(rows, table)
                     /\ SeenHere(table, Item.place, Item.stat, SeenAt)
    BY <1>3, DiscoveredTable DEF Write
  <2>2. Settles(rows, table, Item.place, Item.stat, SeenAt)
    BY <2>1 DEF Settles, ChangesOnly, KeepsPlaces
  <2> QED BY <1>1, <1>2, <2>1, <2>2
<1>4. CASE WriteMoved
  <2>1. PICK table, moved :
          /\ Writes(table) /\ SoundTable(table)
          /\ ChangesOnly(rows, moved, Item.place) /\ MovesMissing(rows, moved)
          /\ SeenHere(moved, Item.place, Item.stat, SeenAt)
          /\ DOMAIN table = DOMAIN moved
          /\ \A q \in DOMAIN moved :
               /\ table[q].place = moved[q].place /\ table[q].stat = moved[q].stat
               /\ table[q].lastSeenAt = moved[q].lastSeenAt
               /\ table[q].status = moved[q].status \/ table[q].status # "missing"
    BY <1>4, MovedTable
  <2>2. Settles(rows, moved, Item.place, Item.stat, SeenAt)
    BY <2>1 DEF Settles, ChangesOnly, MovesMissing
  <2>3. Settles(rows, table, Item.place, Item.stat, SeenAt)
    <3>1. SeenHere(table, Item.place, Item.stat, SeenAt)
      BY <2>1 DEF SeenHere, IsAt
    <3>2. \A r \in DOMAIN table : table[r].place # Item.place =>
            r \in DOMAIN rows /\ rows[r].place = table[r].place
            /\ rows[r].lastSeenAt = table[r].lastSeenAt
      BY <2>1, <2>2 DEF Settles
    <3>3. \A r \in DOMAIN rows : rows[r].place # Item.place /\ rows[r].status # "missing" =>
            /\ r \in DOMAIN table /\ table[r].place = rows[r].place
            /\ table[r].stat = rows[r].stat
            /\ table[r].lastSeenAt = rows[r].lastSeenAt /\ table[r].status # "missing"
      BY <2>1, <2>2 DEF Settles
    <3> QED BY <3>1, <3>2, <3>3 DEF Settles
  <2> QED BY <1>1, <1>2, <2>1, <2>3
<1> QED BY <1>3, <1>4

\* A step of a transaction is one for its scan and for the other rows' scans.
LEMMA TransactionStep ==
  ASSUME IndexInvariant, IndexInvariant', ScanInvariant, applying # <<>>,
         UNCHANGED <<disk, clock, scan, outbox, sweeping, calm>>,
         applying' # <<>> => txScan' = txScan,
         SeenByNow(rows)', SeenByNow(Committed)',
         \A s \in Scans : s = txScan => OwnFolder(s)',
         \A s \in calm : Live(s) /\ s # txScan =>
           \A u \in {rows', Committed'} : \E t \in {rows, Committed} :
             Gentle(t, u, scan[s].folder, scan[s].startedAt),
         \A s \in calm : s = txScan => CalmOK(s)'
  PROVE  ScanInvariant'
<1>1. calm \subseteq Scans
  BY DEF IndexInvariant, PlainTypes
<1>2. HandlersOK'
  BY DEF ScanInvariant, HandlersOK, HoldsSlot
<1>3. ASSUME NEW s \in Scans
      PROVE  /\ scan'[s] = scan[s] /\ Box(s)' = Box(s) /\ (Live(s)' => Live(s))
             /\ s # txScan => ~InTransaction(s) /\ ~InTransaction(s)'
  BY DEF Box, InTransaction, Live, Active, HoldsSlot
<1>4. ASSUME NEW s \in Scans PROVE LocalOK(s)' /\ OwnFolder(s)'
  <2>1. LocalOK(s)'
    BY <1>3, LocalKept DEF ScanInvariant
  <2>2. s # txScan => OwnFolder(s)'
    BY <1>3, SameStages DEF ScanInvariant
  <2> QED BY <2>1, <2>2
<1>5. ASSUME NEW s \in calm' PROVE scan'[s].status # "new" /\ Alone(s)'
  <2>1. scan[s].status # "new" /\ Alone(s) /\ s \in Scans
    BY <1>1 DEF ScanInvariant
  <2>2. \A q \in Scans : /\ Active(q)' => Active(q)
                         /\ scan'[q].folder = scan[q].folder
                         /\ scan'[q].startedAt = scan[q].startedAt
    BY DEF Active, HoldsSlot
  <2> QED BY <2>1, <2>2, AloneKept
<1>6. ASSUME NEW s \in calm', Live(s)' PROVE CalmOK(s)'
  <2>1. s \in calm /\ s \in Scans /\ Live(s)
    BY <1>1, <1>3, <1>6
  <2>2. CASE s = txScan
    BY <2>1, <2>2
  <2>3. CASE s # txScan
    <3>1. CalmOK(s) /\ OwnFolder(s)
      BY <2>1 DEF ScanInvariant
    <3>2. /\ scan'[s] = scan[s] /\ Box(s)' = Box(s) /\ ~InTransaction(s) /\ ~InTransaction(s)'
      BY <1>3, <2>1, <2>3
    <3>3. Completing(s)' => Completing(s)
      BY <3>2 DEF Completing
    <3>4. \A u \in {rows', Committed'} : \E t \in {rows, Committed} :
            Gentle(t, u, scan[s].folder, scan[s].startedAt)
      BY <2>1, <2>3
    <3>5. disk' = disk
      OBVIOUS
    <3> QED BY <2>1, <3>1, <3>2, <3>3, <3>4, <3>5, CalmElsewhere
  <2> QED BY <2>2, <2>3
<1> QED BY <1>2, <1>4, <1>5, <1>6 DEF ScanInvariant

\* What becomes of the items of the scan whose transaction it is.
LEMMA WriteStages ==
  ASSUME IndexInvariant, IndexInvariant', applying # <<>>, NEW table, Writes(table),
         txScan \in Scans
  PROVE  /\ 1 \in DOMAIN Stage(txScan, 0) /\ Stage(txScan, 0)[1] = Item
         /\ \E s \in Scans :
              /\ s = txScan
              /\ \A k \in Nat : k # 0 => Stage(s, k)' = Stage(s, k)
              /\ \A i \in Nat : i \in DOMAIN Stage(s, 0)' <=> i + 1 \in DOMAIN Stage(s, 0) /\ i # 0
              /\ \A i \in DOMAIN Stage(s, 0)' :
                   i \in Nat /\ Stage(s, 0)'[i] = Stage(s, 0)[i + 1]
<1>1. PICK s \in Scans : s = txScan
  OBVIOUS
<1>2. /\ applying' = Tail(applying) /\ scan' = scan /\ outbox' = outbox
      /\ applying' # <<>> => txScan' = txScan
  BY DEF Writes
<1>3. Stage(s, 0) = applying
  BY <1>1 DEF Stage, InTransaction
<1>4. Stage(s, 0)' = Tail(applying)
  <2>1. CASE applying' # <<>>
    BY <1>1, <1>2, <2>1 DEF Stage, InTransaction
  <2>2. CASE applying' = <<>>
    BY <1>2, <2>2 DEF Stage, InTransaction
  <2> QED BY <2>1, <2>2
<1>5. \A k \in Nat : k # 0 => Stage(s, k)' = Stage(s, k)
  BY <1>2 DEF Stage, Box
<1>6. applying \in Seq(ItemsOf(TxType, DOMAIN Committed))
  BY DEF IndexInvariant, FlowIn, ApplyingIn
<1>7. PICK n \in Nat : n = Len(applying) /\ DOMAIN applying = 1..n /\ n # 0
  BY <1>6, LenProperties, EmptySeq
<1>8. /\ DOMAIN Tail(applying) = 1..n - 1
      /\ \A i \in 1..n - 1 : Tail(applying)[i] = applying[i + 1]
  BY <1>6, <1>7, HeadTailProperties, LenProperties
<1>9. 1 \in DOMAIN Stage(s, 0) /\ Stage(s, 0)[1] = Item
  BY <1>3, <1>7 DEF Item
<1>10. \A i \in Nat : i \in DOMAIN Stage(s, 0)' <=> i + 1 \in DOMAIN Stage(s, 0) /\ i # 0
  BY <1>3, <1>4, <1>7, <1>8
<1>11. \A i \in DOMAIN Stage(s, 0)' : i \in Nat /\ Stage(s, 0)'[i] = Stage(s, 0)[i + 1]
  BY <1>3, <1>4, <1>7, <1>8
<1> QED BY <1>1, <1>5, <1>9, <1>10, <1>11

\* The item that is written leaves its place settled and the other places as they were.
LEMMA WritePlaces ==
  ASSUME IndexInvariant, IndexInvariant', applying # <<>>, NEW table, Writes(table),
         NEW s \in Scans, s = txScan
  PROVE  /\ \A p \in Places : /\ IsOpen(s, p)' => IsOpen(s, p)
                              /\ IsHoped(s, p)' => IsHoped(s, p)
                              /\ IsOpen(s, p) => IsOpen(s, p)' \/ p = Item.place
         /\ IsOpen(s, Item.place)
         /\ Truthful(s) => /\ Truthful(s)' /\ disk[Item.place] = Item.stat
                           /\ \A p \in Places : p = Item.place => ~IsOpen(s, p)'
<1>1. 1 \in DOMAIN Stage(s, 0) /\ Stage(s, 0)[1] = Item
  BY WriteStages
<1>2. /\ \A k \in Nat : k # 0 => Stage(s, k)' = Stage(s, k)
      /\ \A i \in Nat : i \in DOMAIN Stage(s, 0)' <=> i + 1 \in DOMAIN Stage(s, 0) /\ i # 0
      /\ \A i \in DOMAIN Stage(s, 0)' :
           i \in Nat /\ Stage(s, 0)'[i] = Stage(s, 0)[i + 1]
  BY WriteStages
<1>3. scan' = scan /\ disk' = disk
  BY DEF Writes
<1>4. StagesTyped
  BY StageTypes
<1>5. ASSUME NEW k \in Nat, NEW i \in DOMAIN Stage(s, k)'
      PROVE  \E j \in DOMAIN Stage(s, k) :
               /\ Stage(s, k)'[i] = Stage(s, k)[j]
               /\ j = (IF k = 0 THEN i + 1 ELSE i)
               /\ ~(k = 0 /\ j = 1)
  <2>1. CASE k = 0
    <3>1. i \in Nat /\ i # 0 /\ i + 1 \in DOMAIN Stage(s, 0) /\ Stage(s, 0)'[i] = Stage(s, 0)[i + 1]
      BY <1>2, <2>1
    <3> QED BY <2>1, <3>1
  <2>2. CASE k # 0
    BY <1>2, <2>2
  <2> QED BY <2>1, <2>2
<1>6. ASSUME NEW k \in Nat, NEW j \in DOMAIN Stage(s, k), ~(k = 0 /\ j = 1)
      PROVE  \E i \in DOMAIN Stage(s, k)' : Stage(s, k)'[i] = Stage(s, k)[j]
  <2>1. CASE k = 0
    <3>1. j \in Nat /\ j # 0 /\ j # 1
      BY <1>4, <1>6, <2>1 DEF StagesTyped
    <3>2. PICK i \in Nat : j = i + 1 /\ i # 0
      <4>1. j - 1 \in Nat /\ j = (j - 1) + 1 /\ j - 1 # 0
        BY <3>1
      <4> QED BY <4>1
    <3>3. i \in DOMAIN Stage(s, 0)'
      BY <1>2, <2>1, <3>2
    <3> QED BY <1>2, <2>1, <3>2, <3>3
  <2>2. CASE k # 0
    BY <1>2, <2>2
  <2> QED BY <2>1, <2>2
<1>7. ASSUME NEW p \in Places
      PROVE  /\ IsOpen(s, p)' => IsOpen(s, p)
             /\ IsHoped(s, p)' => IsHoped(s, p)
             /\ IsOpen(s, p) => IsOpen(s, p)' \/ p = Item.place
  <2>1. IsOpen(s, p)' => IsOpen(s, p)
    BY <1>3, <1>5 DEF IsOpen
  <2>2. IsHoped(s, p)' => IsHoped(s, p)
    BY <1>3, <1>5 DEF IsHoped
  <2>3. IsOpen(s, p) => IsOpen(s, p)' \/ p = Item.place
    BY <1>1, <1>3, <1>6 DEF IsOpen
  <2> QED BY <2>1, <2>2, <2>3
<1>8. IsOpen(s, Item.place)
  BY <1>1 DEF IsOpen
<1>9. ASSUME Truthful(s)
      PROVE  /\ Truthful(s)' /\ disk[Item.place] = Item.stat
             /\ \A p \in Places : p = Item.place => ~IsOpen(s, p)'
  <2>1. \A k \in Nat : \A j \in DOMAIN Stage(s, k) :
          /\ disk[Stage(s, k)[j].place] = Stage(s, k)[j].stat
          /\ Stage(s, k)[j].place \notin scan[s].work.left
          /\ Stage(s, k)[j].place # scan[s].work.at
          /\ \A l \in Nat : \A m \in DOMAIN Stage(s, l) :
               Stage(s, l)[m].place = Stage(s, k)[j].place => l = k /\ m = j
    BY <1>9 DEF Truthful
  <2>2. ASSUME NEW k \in Nat, NEW i \in DOMAIN Stage(s, k)'
        PROVE  /\ disk[Stage(s, k)'[i].place] = Stage(s, k)'[i].stat
               /\ Stage(s, k)'[i].place \notin scan[s].work.left
               /\ Stage(s, k)'[i].place # scan[s].work.at
               /\ \A l \in Nat : \A m \in DOMAIN Stage(s, l)' :
                    Stage(s, l)'[m].place = Stage(s, k)'[i].place => l = k /\ m = i
    <3>1. PICK j \in DOMAIN Stage(s, k) : /\ Stage(s, k)'[i] = Stage(s, k)[j]
                                          /\ j = (IF k = 0 THEN i + 1 ELSE i)
      BY <1>5
    <3>2. ASSUME NEW l \in Nat, NEW m \in DOMAIN Stage(s, l)',
                 Stage(s, l)'[m].place = Stage(s, k)'[i].place
          PROVE  l = k /\ m = i
      <4>1. PICK o \in DOMAIN Stage(s, l) : /\ Stage(s, l)'[m] = Stage(s, l)[o]
                                            /\ o = (IF l = 0 THEN m + 1 ELSE m)
        BY <1>5
      <4>2. l = k /\ o = j
        BY <2>1, <3>1, <3>2, <4>1
      <4>3. k = 0 => i \in Nat /\ m \in Nat
        BY <1>2, <4>2
      <4> QED BY <3>1, <4>1, <4>2, <4>3
    <3> QED BY <2>1, <3>1, <3>2
  <2>3. Truthful(s)'
    <3>1. scan[s].work.at # None =>
            disk[scan[s].work.at] = scan[s].work.stat /\ scan[s].work.at \notin scan[s].work.left
      BY <1>9 DEF Truthful
    <3> QED BY <1>3, <2>2, <3>1 DEF Truthful
  <2>4. ASSUME NEW p \in Places, p = Item.place PROVE ~IsOpen(s, p)'
    <3>1. /\ Item.place \notin scan[s].work.left /\ Item.place # scan[s].work.at
          /\ \A l \in Nat : \A m \in DOMAIN Stage(s, l) :
               Stage(s, l)[m].place = Item.place => l = 0 /\ m = 1
      BY <1>1, <2>1
    <3>2. \A k \in Nat : \A i \in DOMAIN Stage(s, k)' : Stage(s, k)'[i].place # Item.place
      BY <1>5, <3>1
    <3> QED BY <1>3, <2>4, <3>1, <3>2 DEF IsOpen
  <2> QED BY <1>1, <2>1, <2>3, <2>4
<1> QED BY <1>7, <1>8, <1>9

\* A scan of which no item is in the open transaction any more is as it was.
LEMMA SettledCalm ==
  ASSUME IndexInvariant, IndexInvariant', NEW s \in Scans, s = txScan, CalmOK(s),
         OwnFolder(s), applying # <<>>, NEW table, Writes(table),
         Settles(rows, table, Item.place, Item.stat, scan[s].startedAt)
  PROVE  CalmOK(s)'
<1> DEFINE T == scan[s].startedAt
<1>1. /\ rows' = table /\ disk' = disk /\ scan' = scan /\ outbox' = outbox
      /\ sweeping' = sweeping
      /\ \/ applying' = <<>> /\ Committed' = rows'
         \/ applying' # <<>> /\ Committed' = Committed /\ txScan' = txScan
  BY DEF Writes, Committed
<1>2. /\ \A p \in Places : /\ IsOpen(s, p)' => IsOpen(s, p)
                           /\ IsHoped(s, p)' => IsHoped(s, p)
                           /\ IsOpen(s, p) => IsOpen(s, p)' \/ p = Item.place
      /\ IsOpen(s, Item.place)
      /\ Truthful(s)' /\ disk[Item.place] = Item.stat
      /\ \A p \in Places : p = Item.place => ~IsOpen(s, p)'
  BY WritePlaces DEF CalmOK
<1>3. Item.place \in Places /\ Item.stat # None
  <2>1. StagesTyped /\ 1 \in DOMAIN Stage(s, 0) /\ Stage(s, 0)[1] = Item
    BY StageTypes, WriteStages
  <2> QED BY <2>1, NoneIsNoPlace DEF StagesTyped
<1>4. /\ \A r \in DOMAIN table : table[r].place # Item.place =>
           /\ r \in DOMAIN rows /\ rows[r].place = table[r].place
           /\ rows[r].lastSeenAt = table[r].lastSeenAt
      /\ \A r \in DOMAIN rows : rows[r].place # Item.place /\ rows[r].status # "missing" =>
           /\ r \in DOMAIN table /\ table[r].place = rows[r].place
           /\ table[r].stat = rows[r].stat
           /\ table[r].lastSeenAt = rows[r].lastSeenAt /\ table[r].status # "missing"
      /\ SeenHere(table, Item.place, Item.stat, T)
  BY DEF Settles
<1>5. \A p \in Places : IsHoped(s, p)' => p # Item.place /\ IsHoped(s, p)
  <2>1. \A p \in Places : IsHoped(s, p)' => IsOpen(s, p)'
    BY DEF IsHoped, IsOpen
  <2> QED BY <1>2, <2>1
<1>6. OldWhereGone(s, table)
  BY <1>2, <1>3, <1>4 DEF CalmOK, OldWhereGone
<1>7. \A p \in Places : IsHoped(s, p)' => ~Indexed(table, p)
  BY <1>4, <1>5 DEF CalmOK, FreeForMoves, Indexed, IsAt
<1>8. ASSUME Completing(s), NEW p \in Places, InFolder(s, p), disk[p] # None
      PROVE  IsOpen(s, p)' \/ SeenHere(table, p, disk[p], T)
  <2>1. IsOpen(s, p) \/ SeenHere(rows, p, disk[p], T)
    BY <1>8 DEF CalmOK, Covered
  <2>2. CASE p = Item.place
    BY <1>2, <1>4, <2>2
  <2>3. CASE p # Item.place /\ IsOpen(s, p)
    BY <1>2, <2>3
  <2>4. CASE p # Item.place /\ SeenHere(rows, p, disk[p], T)
    BY <1>4, <2>4 DEF SeenHere, IsAt
  <2> QED BY <2>1, <2>2, <2>3, <2>4
<1>9. (OldWhereGone(s, rows) /\ FreeForMoves(s, rows))' /\ (Completing(s)' => Covered(s, rows)')
  <2>1. Completing(s)' => Completing(s)
    BY <1>1 DEF Completing, Box
  <2> QED BY <1>1, <1>6, <1>7, <1>8, <2>1 DEF OldWhereGone, FreeForMoves, Covered, InFolder
<1>10. CASE applying' = <<>> /\ Committed' = rows'
  <2>1. (OldWhereGone(s, Committed) /\ FreeForMoves(s, Committed))'
        /\ (Completing(s)' => Covered(s, Committed)')
    BY <1>9, <1>10 DEF OldWhereGone, FreeForMoves, Covered
  <2> QED BY <1>2, <1>9, <2>1 DEF CalmOK
<1>11. CASE applying' # <<>> /\ Committed' = Committed /\ txScan' = txScan
  <2>1. InTransaction(s)'
    BY <1>11 DEF InTransaction
  <2>2. (OldWhereGone(s, Committed) /\ FreeForMoves(s, Committed))'
    BY <1>1, <1>5, <1>11 DEF CalmOK, OldWhereGone, FreeForMoves, InFolder
  <2> QED BY <1>2, <1>9, <2>1, <2>2 DEF CalmOK
<1> QED BY <1>1, <1>10, <1>11

\* A file discovered or moved settles its place.
LEMMA WriteFileKeeps ==
  ASSUME IndexInvariant, IndexInvariant', ScanInvariant, WriteDiscovered \/ WriteMoved
  PROVE  ScanInvariant'
<1>1. PICK table : /\ Writes(table) /\ SoundTable(table)
                   /\ Settles(rows, table, Item.place, Item.stat, SeenAt)
  BY WriteSettles
<1>2. applying # <<>> /\ calm \subseteq Scans
  BY WriteSettles DEF IndexInvariant, PlainTypes
<1>3. PICK s \in Scans : s = txScan
  BY WriteSettles
<1>4. /\ rows' = table /\ SeenAt = scan[s].startedAt
      /\ UNCHANGED <<disk, clock, scan, outbox, sweeping, calm>>
      /\ applying' # <<>> => txScan' = txScan
      /\ Committed' = rows' \/ Committed' = Committed
  BY <1>1, <1>3 DEF Writes, Committed, SeenAt
<1>5. LocalOK(s) /\ OwnFolder(s) /\ Live(s)
  BY <1>2, <1>3, JobTypes DEF ScanInvariant, HandlersOK, Live, Active
<1>6. SeenByNow(rows)' /\ SeenByNow(Committed)'
  <2>1. SeenByNow(rows)'
    BY <1>1, <1>4, <1>5, SettlesInTime DEF ScanInvariant, SoundTable, LocalOK, SeenByNow
  <2> QED BY <1>4, <2>1 DEF ScanInvariant, SeenByNow
<1>7. /\ \A p \in Places : IsOpen(s, p)' => IsOpen(s, p)
      /\ IsOpen(s, Item.place) /\ Item.place \in Places
  <2>1. StagesTyped /\ 1 \in DOMAIN Stage(s, 0) /\ Stage(s, 0)[1] = Item
    BY <1>1, <1>2, <1>3, StageTypes, WriteStages
  <2> QED BY <1>1, <1>2, <1>3, <2>1, WritePlaces DEF StagesTyped
<1>8. \A o \in Scans : o = txScan => OwnFolder(o)'
  BY <1>3, <1>4, <1>5, <1>7 DEF OwnFolder, InFolder
<1>9. ASSUME NEW q \in calm, Live(q), q # txScan, NEW u \in {rows', Committed'}
      PROVE  \E t \in {rows, Committed} : Gentle(t, u, scan[q].folder, scan[q].startedAt)
  <2>1. scan[q].folder # scan[s].folder
    <3>1. Alone(q) /\ q \in Scans
      BY <1>2 DEF ScanInvariant
    <3>2. Active(q) /\ Active(s)
      BY <1>2, <1>3, <1>9, JobTypes DEF ScanInvariant, HandlersOK, Live, Active
    <3> QED BY <1>3, <1>9, <3>1, <3>2 DEF Alone
  <2>2. FolderOf[Item.place] # scan[q].folder
    BY <1>5, <1>7, <2>1 DEF OwnFolder, InFolder
  <2>3. Gentle(rows, rows', scan[q].folder, scan[q].startedAt)
    BY <1>1, <1>4, <2>2, SettlesElsewhere
  <2> QED BY <1>4, <2>3, GentleSame
<1>10. ASSUME NEW q \in calm, q = txScan PROVE CalmOK(q)'
  <2>1. q = s /\ CalmOK(s)
    BY <1>3, <1>5, <1>10 DEF ScanInvariant
  <2> QED BY <1>1, <1>2, <1>3, <1>4, <1>5, <2>1, SettledCalm
<1> QED BY <1>2, <1>4, <1>6, <1>8, <1>9, <1>10, TransactionStep

\* A hash, or its error, is gentle to every folder.
LEMMA WriteHashKeeps ==
  ASSUME IndexInvariant, IndexInvariant', ScanInvariant, WriteHash
  PROVE  ScanInvariant'
<1>1. PICK table :
        /\ Writes(table) /\ DOMAIN table = DOMAIN rows
        /\ \A q \in DOMAIN rows :
             /\ table[q].place = rows[q].place /\ table[q].stat = rows[q].stat
             /\ table[q].lastSeenAt = rows[q].lastSeenAt
             /\ table[q].status = rows[q].status \/ table[q].status # "missing"
  BY HashedTable DEF Write
<1>2. applying # <<>> /\ calm \subseteq Scans /\ txScan = NoJob
  <2>1. applying # <<>> /\ Item.kind \in {"hashed", "hashError"}
    BY DEF WriteHash, Arriving
  <2> QED BY <2>1, ItemTypes DEF IndexInvariant, PlainTypes, TxType
<1>3. /\ rows' = table
      /\ UNCHANGED <<disk, clock, scan, outbox, sweeping, calm>>
      /\ applying' # <<>> => txScan' = txScan
      /\ Committed' = rows' \/ Committed' = Committed
  BY <1>1 DEF Writes, Committed
<1>4. SeenByNow(rows)' /\ SeenByNow(Committed)'
  <2>1. SeenByNow(rows)'
    BY <1>1, <1>3 DEF ScanInvariant, SeenByNow
  <2> QED BY <1>3, <2>1 DEF ScanInvariant, SeenByNow
<1>5. \A f, T : Gentle(rows, rows', f, T)
  BY <1>1, <1>3 DEF Gentle
<1>6. \A s \in Scans : s # txScan
  BY <1>2, JobTypes
<1> QED BY <1>2, <1>3, <1>4, <1>5, <1>6, GentleSame, TransactionStep

\* The batch of a calm scan is never refused: the places its moved files go to
\* are free.
LEMMA AbortKeeps ==
  ASSUME IndexInvariant, IndexInvariant', ScanInvariant, AbortBatch
  PROVE  ScanInvariant'
<1>1. /\ applying # <<>> /\ Item.kind = "moved" /\ PathTaken(rows, Item.row, Item.place)
      /\ rows' = savedRows /\ applying' = <<>>
      /\ UNCHANGED <<disk, clock, scan, outbox, sweeping, calm>>
  BY DEF AbortBatch, Arriving, history
<1>2. Committed = savedRows /\ Committed' = Committed /\ rows' = Committed /\ calm \subseteq Scans
  BY <1>1 DEF Committed, IndexInvariant, PlainTypes
<1>3. PICK s \in Scans : s = txScan
  BY <1>1, ItemTypes
<1>4. SeenByNow(rows)' /\ SeenByNow(Committed)'
  BY <1>1, <1>2 DEF ScanInvariant, SeenByNow
<1>5. OwnFolder(s)'
  <2>1. ~InTransaction(s)' /\ Box(s)' = Box(s)
    BY <1>1 DEF InTransaction, Box
  <2>2. \A k \in Nat : Stage(s, k)' = <<>> \/ Stage(s, k)' = Stage(s, k)
    BY <1>1, <2>1 DEF Stage
  <2>3. \A p \in Places : IsOpen(s, p)' => IsOpen(s, p)
    BY <1>1, <2>2 DEF IsOpen
  <2> QED BY <1>1, <2>3 DEF ScanInvariant, OwnFolder, InFolder
<1>6. s \notin calm
  <2> SUFFICES ASSUME s \in calm PROVE FALSE
    OBVIOUS
  <2>1. CalmOK(s)
    BY <1>1, <1>3, JobTypes DEF ScanInvariant, HandlersOK, Live, Active
  <2>2. Stage(s, 0) = applying
    BY <1>1, <1>3 DEF Stage, InTransaction
  <2>3. 1 \in DOMAIN applying /\ applying[1] = Item
    <3>1. applying \in Seq(ItemsOf(TxType, DOMAIN Committed))
      BY DEF IndexInvariant, FlowIn, ApplyingIn
    <3> QED BY <1>1, <3>1, LenProperties, EmptySeq DEF Item
  <2>4. IsHoped(s, Item.place) /\ Item.place \in Places
    BY <1>1, <2>2, <2>3, ItemTypes DEF IsHoped
  <2>5. Indexed(rows, Item.place)
    BY <1>1 DEF PathTaken, Indexed, IsAt
  <2> QED BY <2>1, <2>4, <2>5 DEF CalmOK, FreeForMoves
<1>7. /\ \A q \in Scans : q = txScan => OwnFolder(q)'
      /\ \A q \in calm : q = txScan => CalmOK(q)'
  BY <1>3, <1>5, <1>6
<1> QED BY <1>1, <1>2, <1>4, <1>7, GentleSame, TransactionStep

-----------------------------------------------------------------------------
(* The invariant of scans, and what a sweep leaves.                        *)

\* No scan has begun.
LEMMA ScanInit == Init => ScanInvariant
<1> SUFFICES ASSUME Init PROVE ScanInvariant
  OBVIOUS
<1>1. /\ rows = <<>> /\ applying = <<>> /\ sweeping = NoJob /\ txScan = NoJob
      /\ Committed = <<>> /\ clock = 0 /\ calm = {}
      /\ \A s \in Scans : scan[s] = NewScan
  BY DEF Init, Committed
<1>2. SeenByNow(rows) /\ SeenByNow(Committed) /\ HandlersOK
  BY <1>1 DEF SeenByNow, HandlersOK
<1>3. ASSUME NEW s \in Scans PROVE LocalOK(s) /\ OwnFolder(s)
  <2>1. Box(s) = <<>>
    BY JobTypes DEF Init, Box
  <2>2. /\ scan[s].status = "new" /\ scan[s].work = NoWork /\ scan[s].startedAt = 0
    BY <1>1 DEF NewScan
  <2>3. \A k \in Nat : Stage(s, k) = <<>>
    BY <1>1, <2>1, <2>2 DEF Stage, InTransaction, NoWork
  <2>4. \A p \in Places : ~IsOpen(s, p)
    BY <2>2, <2>3, NoneIsNoPlace DEF IsOpen, NoWork
  <2> QED BY <1>1, <2>1, <2>2, <2>4 DEF LocalOK, OwnFolder
<1> QED BY <1>1, <1>2, <1>3 DEF ScanInvariant

\* Nor does a stutter change anything.
LEMMA StutterKeeps ==
  ASSUME ScanInvariant, UNCHANGED vars
  PROVE  ScanInvariant'
<1>1. UNCHANGED <<disk, rows, clock, scan, outbox, applying, txScan, savedRows, sweeping, calm>>
  BY DEF vars, txVars, history
<1>2. Committed' = Committed /\ calm' = calm
  BY <1>1 DEF Committed
<1>3. ASSUME NEW s
      PROVE  /\ Box(s)' = Box(s) /\ InTransaction(s)' = InTransaction(s)
             /\ Live(s)' <=> Live(s)
             /\ Completing(s)' <=> Completing(s)
             /\ \A k : Stage(s, k)' = Stage(s, k)
  BY <1>1 DEF Box, InTransaction, Live, Active, HoldsSlot, Completing, Stage
<1>4. ASSUME NEW s, NEW p
      PROVE  /\ IsOpen(s, p)' <=> IsOpen(s, p)
             /\ IsHoped(s, p)' <=> IsHoped(s, p)
  BY <1>1, <1>3 DEF IsOpen, IsHoped
<1>5. ASSUME NEW s, CalmOK(s) PROVE CalmOK(s)'
  <2>1. Truthful(s)'
    BY <1>1, <1>3, <1>5 DEF CalmOK, Truthful
  <2>2. (\A t \in {rows, Committed} : OldWhereGone(s, t) /\ FreeForMoves(s, t))'
    BY <1>1, <1>2, <1>4, <1>5 DEF CalmOK, OldWhereGone, FreeForMoves, InFolder
  <2>3. /\ Covered(s, rows) => Covered(s, rows)'
        /\ Covered(s, Committed) => Covered(s, Committed)'
    BY <1>1, <1>2, <1>4 DEF Covered, InFolder
  <2> QED BY <1>3, <1>5, <2>1, <2>2, <2>3 DEF CalmOK
<1>6. SeenByNow(rows)' /\ SeenByNow(Committed)' /\ HandlersOK'
  BY <1>1, <1>2 DEF ScanInvariant, SeenByNow, HandlersOK, HoldsSlot
<1>7. ASSUME NEW s \in Scans PROVE LocalOK(s)' /\ OwnFolder(s)'
  BY <1>1, <1>3, <1>4 DEF ScanInvariant, LocalOK, OwnFolder, InFolder
<1>8. ASSUME NEW s \in calm' PROVE scan'[s].status # "new" /\ Alone(s)' /\ (Live(s)' => CalmOK(s)')
  <2>1. scan[s].status # "new" /\ Alone(s) /\ (Live(s) => CalmOK(s))
    BY <1>2 DEF ScanInvariant
  <2>2. Alone(s)'
    BY <1>1, <2>1 DEF Alone, Active, HoldsSlot
  <2> QED BY <1>1, <1>3, <1>5, <2>1, <2>2
<1> QED BY <1>6, <1>7, <1>8 DEF ScanInvariant

\* Every step keeps the invariant.
LEMMA ScanStep ==
  IndexInvariant /\ IndexInvariant' /\ ScanInvariant /\ [Next]_vars => ScanInvariant'
<1> SUFFICES ASSUME IndexInvariant, IndexInvariant', ScanInvariant, [Next]_vars
             PROVE  ScanInvariant'
  OBVIOUS
<1>1. CASE DiskChanges
  BY <1>1, DiskLeavesScans
<1>2. CASE Claim
  <2>1. CASE \E s \in Scans : ClaimRequeued(s)
    BY <2>1, ClaimRequeuedKeeps
  <2>2. CASE \E h \in Slots : ClaimHash(h)
    BY <2>2, HashLeavesScans
  <2>3. CASE \E s \in Scans, f \in Folders : ClaimScan(s, f)
    BY <2>3, ClaimScanKeeps
  <2> QED BY <1>2, <2>1, <2>2, <2>3 DEF Claim, ClaimQueued
<1>3. CASE WorkerStops
  <2>1. CASE \E s \in Scans : WalkStops(s)
    BY <2>1, WalkEndKeeps
  <2>2. CASE \E h \in Slots : HashStops(h)
    BY <2>2, HashLeavesScans
  <2> QED BY <1>3, <2>1, <2>2 DEF WorkerStops
<1>4. CASE HandlerGoesOn
  <2>1. CASE WriteDiscovered \/ WriteMoved
    BY <2>1, WriteFileKeeps
  <2>2. CASE AbortBatch
    BY <2>2, AbortKeeps
  <2>3. CASE WriteHash
    BY <2>3, WriteHashKeeps
  <2>4. CASE Sweep
    BY <2>4, SweepKeeps
  <2> QED BY <1>4, <2>1, <2>2, <2>3, <2>4 DEF HandlerGoesOn
<1>5. CASE ProcessDies
  BY <1>5, DeathKeeps
<1>6. ASSUME NEW j \in Jobs, Works(j) PROVE ScanInvariant'
  <2>1. CASE j.type = "scan" /\ ScanWorks(j.id)
    <3>1. j.id \in Scans
      BY <2>1, JobTypes
    <3>2. CASE \E p \in Places : Visit(j.id, p)
      BY <3>1, <3>2, VisitKeeps
    <3>3. CASE ReadFile(j.id)
      BY <3>1, <3>3, ReadFileKeeps
    <3>4. CASE WalkEnds(j.id)
      BY <3>1, <3>4, WalkEndKeeps
    <3> QED BY <2>1, <3>2, <3>3, <3>4 DEF ScanWorks
  <2>2. CASE j.type = "hash" /\ HashWorks(j.id)
    <3>1. j.id \in Slots
      BY <2>2, JobTypes
    <3> QED BY <2>2, <3>1, HashLeavesScans DEF HashWorks
  <2> QED BY <1>6, <2>1, <2>2 DEF Works
<1>7. ASSUME NEW j \in Jobs, Handles(j) PROVE ScanInvariant'
  <2>1. CASE j.type = "scan"
    <3>1. PICK s \in Scans : j = ScanJob(s) /\ j.id = s
      BY <2>1, JobTypes
    <3>2. \/ TakeBatch(ScanJob(s)) \/ JobStopped(ScanJob(s)) \/ ScanDone(s)
      BY <1>7, <2>1, <3>1 DEF Handles
    <3>3. CASE TakeBatch(ScanJob(s))
      BY <3>3, TakeBatchKeeps
    <3>4. CASE JobStopped(ScanJob(s)) \/ ScanDone(s)
      BY <3>4, ScanEndKeeps
    <3> QED BY <3>2, <3>3, <3>4
  <2>2. CASE j.type = "hash"
    <3>1. PICK h \in Slots : j = HashJob(h) /\ j.id = h
      BY <2>2, JobTypes
    <3>2. \/ TakeBatch(HashJob(h)) \/ JobStopped(HashJob(h)) \/ HashDone(h)
      BY <1>7, <2>2, <3>1 DEF Handles
    <3> QED BY <3>2, HashLeavesScans
  <2> QED BY <2>1, <2>2, JobTypes
<1>8. CASE UNCHANGED vars
  BY <1>8, StutterKeeps
<1> QED BY <1>1, <1>2, <1>3, <1>4, <1>5, <1>6, <1>7, <1>8 DEF Next

\* A calm scan that completes: nothing is open any more, so every file has its row,
\* which is too young for the sweep, and the row of a file that is gone is not.
LEMMA SweepSees ==
  ASSUME IndexInvariant, ScanInvariant, sweeping \in calm, Sweep
  PROVE  \A p \in Places : FolderOf[p] = scan[sweeping].folder =>
           IF disk[p] = None
           THEN \A r \in DOMAIN rows' : IsAt(rows', r, p) => rows'[r].status # "present"
           ELSE \E r \in DOMAIN rows' : /\ IsAt(rows', r, p) /\ rows'[r].stat = disk[p]
                                        /\ rows'[r].status # "missing"
<1> DEFINE T == scan[sweeping].startedAt
<1>1. PICK s \in Scans : s = sweeping
  BY DEF IndexInvariant, PlainTypes
<1>2. /\ applying = <<>> /\ sweeping # NoJob /\ scan[s].status = "over"
      /\ rows' = MarkMissing(rows, scan[s].folder, scan[s].startedAt)
      /\ rows \in Seq(Rows)
  BY <1>1, JobTypes DEF Sweep, ScanInvariant, HandlersOK, IndexInvariant, Tables, SoundTable
<1>3. /\ DOMAIN rows' = DOMAIN rows
      /\ \A r \in DOMAIN rows :
           /\ rows'[r].place = rows[r].place /\ rows'[r].stat = rows[r].stat
           /\ rows'[r].lastSeenAt = rows[r].lastSeenAt
           /\ IF /\ FolderOf[rows[r].place] = scan[s].folder /\ rows[r].status = "present"
                 /\ rows[r].lastSeenAt < scan[s].startedAt
              THEN rows'[r].status = "missing" ELSE rows'[r] = rows[r]
  BY <1>2, MissingRows
<1>4. /\ CalmOK(s) /\ Completing(s) /\ Box(s) = <<>> /\ scan[s].work = NoWork
      /\ scan[s].startedAt \in Nat
  <2>1. LocalOK(s) /\ CalmOK(s)
    BY <1>1 DEF ScanInvariant, Live
  <2> QED BY <1>1, <1>2, <2>1, WorkTypes DEF LocalOK, Completing, ScanOf
<1>5. \A p \in Places : ~IsOpen(s, p)
  <2>1. \A k \in Nat : Stage(s, k) = <<>>
    BY <1>2, <1>4 DEF Stage, InTransaction, NoWork
  <2> QED BY <1>4, <2>1, NoneIsNoPlace DEF IsOpen, NoWork
<1>6. Covered(s, rows) /\ OldWhereGone(s, rows)
  BY <1>4 DEF CalmOK
<1>7. ASSUME NEW p \in Places, FolderOf[p] = scan[s].folder
      PROVE  IF disk[p] = None
             THEN \A r \in DOMAIN rows' : IsAt(rows', r, p) => rows'[r].status # "present"
             ELSE \E r \in DOMAIN rows' : /\ IsAt(rows', r, p) /\ rows'[r].stat = disk[p]
                                          /\ rows'[r].status # "missing"
  <2>1. CASE disk[p] = None
    <3>1. ASSUME NEW r \in DOMAIN rows, rows[r].place = p PROVE rows'[r].status # "present"
      <4>1. rows[r].lastSeenAt < scan[s].startedAt
        BY <1>6, <1>7, <2>1, <3>1 DEF OldWhereGone, InFolder
      <4> QED BY <1>3, <1>7, <3>1, <4>1
    <3> QED BY <1>3, <2>1, <3>1 DEF IsAt
  <2>2. CASE disk[p] # None
    <3>1. SeenHere(rows, p, disk[p], scan[s].startedAt)
      BY <1>5, <1>6, <1>7, <2>2 DEF Covered, InFolder
    <3>2. PICK r \in DOMAIN rows : /\ rows[r].place = p /\ rows[r].stat = disk[p]
                                   /\ rows[r].lastSeenAt = scan[s].startedAt
                                   /\ rows[r].status # "missing"
      BY <3>1 DEF SeenHere, IsAt
    <3>3. rows'[r] = rows[r]
      BY <1>3, <1>4, <3>2
    <3> QED BY <1>3, <2>2, <3>2, <3>3 DEF IsAt
  <2> QED BY <2>1, <2>2
<1> QED BY <1>1, <1>7

\* In terms of what a row says of its file.
LEMMA SweepMirrors ==
  ASSUME IndexInvariant, IndexInvariant', ScanInvariant, sweeping \in calm, Sweep
  PROVE  Mirrors(rows', scan[sweeping].folder)
<1>1. \A r \in DOMAIN rows' : rows'[r].status \in Statuses
  <2>1. rows' \in Seq(Rows)
    BY DEF IndexInvariant, Tables, SoundTable
  <2> QED BY <2>1, TableTypes DEF Rows
<1>2. ASSUME NEW p \in Places, FolderOf[p] = scan[sweeping].folder
      PROVE  IF disk[p] = None
             THEN \A r \in DOMAIN rows' :
                    IsAt(rows', r, p) => rows'[r].status \in {"missing", "duplicate"}
             ELSE \E r \in DOMAIN rows' : /\ IsAt(rows', r, p)
                                          /\ Stat[rows'[r].stat] = Stat[disk[p]]
                                          /\ rows'[r].status # "missing"
  <2>1. CASE disk[p] = None
    BY <1>1, <1>2, <2>1, SweepSees DEF Statuses
  <2>2. CASE disk[p] # None
    <3>1. PICK r \in DOMAIN rows' : /\ IsAt(rows', r, p) /\ rows'[r].stat = disk[p]
                                   /\ rows'[r].status # "missing"
      BY <1>2, <2>2, SweepSees
    <3> QED BY <2>2, <3>1
  <2> QED BY <2>1, <2>2
<1> QED BY <1>2 DEF Mirrors

\* What every scan has found, sent and settled, at any moment of the indexer
\* (scan-job.ts; orchestrator.ts; files.ts): the invariant behind the theorem below.
THEOREM ScanInvariantHolds == Spec => [](IndexInvariant /\ ScanInvariant)
<1>1. Init => IndexInvariant /\ ScanInvariant
  BY InvariantInit, ScanInit
<1>2. IndexInvariant /\ ScanInvariant /\ [Next]_vars => IndexInvariant' /\ ScanInvariant'
  BY NextStep, ScanStep
<1> QED BY <1>1, <1>2, PTL DEF Spec

\* When a scan has completed and neither the disk nor another scan of its folder
\* interfered since it started, restarts included, every file of the folder has a row
\* with its size and modification time that is not missing, and the row of a file that
\* is gone is missing, or a duplicate: a duplicate stays one although its file is gone
\* (orchestrator.ts, onDone; files.ts, markMissingNotSeenSince; scan-job.ts,
\* runScanJob).
THEOREM CalmScansMirrorTheDisk == Spec => CalmScanMirrorsDisk
<1>1. IndexInvariant /\ ScanInvariant /\ IndexInvariant' /\ ScanInvariant' /\ [Next]_vars =>
        [(sweeping \in calm /\ Sweep) => Mirrors(rows', scan[sweeping].folder)]_vars
  BY SweepMirrors
<1> QED BY <1>1, ScanInvariantHolds, PTL DEF Spec, CalmScanMirrorsDisk

-----------------------------------------------------------------------------
(* What is known of the bytes.                                             *)
(*                                                                         *)
(* A place is clean unless it is racy.  What is known of a clean place is  *)
(* true: the hash and the frame of its row, what a scan has found there,   *)
(* the hash of its row that is under way, and what a worker takes it to    *)
(* hold.  There, too, a row that has the size and modification time of the *)
(* file is of its very bytes, so that comparing the two is enough.  This   *)
(* is said of a table, of items, tasks and walks as values, so that a step *)
(* has to be looked at only for what it adds to them.                      *)

Current(t, p, d) == \A r \in DOMAIN t : t[r].place = p => t[r].stat = d[p]

TrueRow(row, d) ==
  /\ row.sha256 \in {None, Digest[row.stat]}
  /\ row.frame = None \/ row.parseError \/ Digest[row.frame] = Digest[row.stat]
  /\ row.status = "present" /\ row.sha256 = None => row.stat = d[row.place]
  /\ d[row.place] # None /\ Stat[row.stat] = Stat[d[row.place]] => row.stat = d[row.place]

TrueFind(item, t, d) ==
  /\ item.stat = d[item.place]
  /\ item.kind = "parsed" => item.read = d[item.place]
  /\ item.kind = "moved" => item.sha256 = Digest[d[item.place]]
  /\ item.kind \in {"same", "moved"} => Current(t, item.place, d)

TrueHash(item, t, d, clean) ==
  /\ item.row \in DOMAIN t
  /\ LET row == t[item.row]
     IN row.place \in clean => row.stat = d[row.place] /\ item.sha256 = Digest[row.stat]

FileKinds == {"same", "parsed", "failed", "moved"}

TrueItem(item, t, d, clean) ==
  /\ item.kind \in FileKinds /\ item.place \in clean => TrueFind(item, t, d)
  /\ item.kind = "hashed" => TrueHash(item, t, d, clean)

(* A file that a hash pass is to read.                                     *)
TrueTask(f, t, d, clean) ==
  /\ f.row \in DOMAIN t
  /\ t[f.row].place \in clean => t[f.row].place = f.place /\ t[f.row].stat = d[f.place]

(* What a scan will not read again is what its rows say.                   *)
TrueWalk(w, t, d, clean) ==
  /\ \A p \in clean : /\ p \in w.left \/ p = w.at
                      /\ p \in DOMAIN w.known => d[p] # None /\ Stat[w.known[p]] = Stat[d[p]]
                      => Current(t, p, d)
  /\ w.at \in clean => w.stat = d[w.at]

Known(t, items, tasks, walks, d, clean) ==
  /\ \A r \in DOMAIN t : t[r].place \in clean => TrueRow(t[r], d)
  /\ \A item \in items : TrueItem(item, t, d, clean)
  /\ \A f \in tasks : TrueTask(f, t, d, clean)
  /\ \A w \in walks : TrueWalk(w, t, d, clean)

\* What is new must be true; what is no longer clean, or under way, does not matter.
LEMMA KnownGrows ==
  ASSUME NEW t, NEW items, NEW tasks, NEW walks, NEW d, NEW clean,
         Known(t, items, tasks, walks, d, clean),
         NEW moreItems, NEW moreTasks, NEW moreWalks, NEW stillClean, stillClean \subseteq clean,
         \A item \in moreItems : item \in items \/ TrueItem(item, t, d, clean),
         \A f \in moreTasks : f \in tasks \/ TrueTask(f, t, d, clean),
         \A w \in moreWalks : w \in walks \/ TrueWalk(w, t, d, clean)
  PROVE  Known(t, moreItems, moreTasks, moreWalks, d, stillClean)
<1>1. \A r \in DOMAIN t : t[r].place \in stillClean => TrueRow(t[r], d)
  BY DEF Known
<1>2. ASSUME NEW item \in moreItems PROVE TrueItem(item, t, d, stillClean)
  <2>1. TrueItem(item, t, d, clean)
    BY DEF Known
  <2> QED BY <2>1 DEF TrueItem, TrueHash
<1>3. ASSUME NEW f \in moreTasks PROVE TrueTask(f, t, d, stillClean)
  <2>1. TrueTask(f, t, d, clean)
    BY DEF Known
  <2> QED BY <2>1 DEF TrueTask
<1>4. ASSUME NEW w \in moreWalks PROVE TrueWalk(w, t, d, stillClean)
  <2>1. TrueWalk(w, t, d, clean)
    BY DEF Known
  <2> QED BY <2>1 DEF TrueWalk
<1> QED BY <1>1, <1>2, <1>3, <1>4 DEF Known

\* What is known survives changes of the disk at places that are no longer clean.
LEMMA KnownElsewhere ==
  ASSUME NEW t, NEW items, NEW tasks, NEW walks, NEW d, NEW clean,
         Known(t, items, tasks, walks, d, clean),
         NEW now, NEW stillClean, stillClean \subseteq clean,
         \A p \in stillClean : now[p] = d[p]
  PROVE  Known(t, items, tasks, walks, now, stillClean)
<1>1. Known(t, items, tasks, walks, d, stillClean)
  BY KnownGrows
<1>2. \A p \in stillClean : Current(t, p, d) <=> Current(t, p, now)
  BY DEF Current
<1>3. \A r \in DOMAIN t : t[r].place \in stillClean => TrueRow(t[r], now)
  BY <1>1 DEF Known, TrueRow
<1>4. ASSUME NEW item \in items PROVE TrueItem(item, t, now, stillClean)
  <2>1. TrueItem(item, t, d, stillClean)
    BY <1>1 DEF Known
  <2> QED BY <1>2, <2>1 DEF TrueItem, TrueFind, TrueHash
<1>5. ASSUME NEW f \in tasks PROVE TrueTask(f, t, now, stillClean)
  <2>1. TrueTask(f, t, d, stillClean)
    BY <1>1 DEF Known
  <2> QED BY <2>1 DEF TrueTask
<1>6. ASSUME NEW w \in walks PROVE TrueWalk(w, t, now, stillClean)
  <2>1. TrueWalk(w, t, d, stillClean)
    BY <1>1 DEF Known
  <2> QED BY <1>2, <2>1 DEF TrueWalk
<1> QED BY <1>3, <1>4, <1>5, <1>6 DEF Known

(* How a write may change a table: a row at a clean place is true, and has *)
(* what is on the disk if it has a new place or a new stat; a row that     *)
(* moves to a clean place comes from one, with the hash that the file      *)
(* there has, and no worker is to read it.                                 *)
TrueRows(t, u, d, clean) ==
  \A r \in DOMAIN u : u[r].place \in clean =>
    /\ TrueRow(u[r], d)
    /\ \/ u[r].stat = d[u[r].place]
       \/ r \in DOMAIN t /\ t[r].place = u[r].place /\ t[r].stat = u[r].stat

TrueMoves(t, u, tasks, d, clean, stillClean) ==
  \A r \in DOMAIN t :
    /\ r \in DOMAIN u
    /\ u[r].place \in stillClean /\ u[r].place # t[r].place =>
         /\ t[r].place \in clean /\ u[r].stat = d[u[r].place]
         /\ t[r].sha256 # None /\ t[r].sha256 = Digest[u[r].stat]
         /\ \A f \in tasks : f.row # r

\* What is known survives such a change.
LEMMA KnownWritten ==
  ASSUME NEW t, NEW items, NEW tasks, NEW walks, NEW d, NEW clean,
         Known(t, items, tasks, walks, d, clean),
         NEW u, NEW stillClean, stillClean \subseteq clean,
         TrueRows(t, u, d, stillClean), TrueMoves(t, u, tasks, d, clean, stillClean)
  PROVE  Known(u, items, tasks, walks, d, stillClean)
<1>1. \A r \in DOMAIN u : u[r].place \in stillClean => TrueRow(u[r], d)
  BY DEF TrueRows
<1>2. \A p \in stillClean : Current(t, p, d) => Current(u, p, d)
  BY DEF Current, TrueRows
<1>3. ASSUME NEW item \in items PROVE TrueItem(item, u, d, stillClean)
  <2>1. TrueItem(item, t, d, clean)
    BY DEF Known
  <2>2. item.kind \in FileKinds /\ item.place \in stillClean => TrueFind(item, u, d)
    BY <1>2, <2>1 DEF TrueItem, TrueFind
  <2>3. ASSUME item.kind = "hashed" PROVE TrueHash(item, u, d, stillClean)
    <3> DEFINE r == item.row
    <3>1. TrueHash(item, t, d, clean) /\ r \in DOMAIN t /\ r \in DOMAIN u
      BY <2>1, <2>3 DEF TrueItem, TrueHash, TrueMoves
    <3>2. ASSUME u[r].place \in stillClean
          PROVE  u[r].stat = d[u[r].place] /\ item.sha256 = Digest[u[r].stat]
      <4>1. CASE u[r].place = t[r].place
        <5>1. t[r].stat = d[t[r].place] /\ item.sha256 = Digest[t[r].stat]
          BY <3>1, <3>2, <4>1 DEF TrueHash
        <5> QED BY <3>1, <3>2, <4>1, <5>1 DEF TrueRows
      <4>2. CASE u[r].place # t[r].place
        <5>1. /\ t[r].place \in clean /\ u[r].stat = d[u[r].place]
              /\ t[r].sha256 # None /\ t[r].sha256 = Digest[u[r].stat]
          BY <3>1, <3>2, <4>2 DEF TrueMoves
        <5>2. item.sha256 = Digest[t[r].stat]
          BY <3>1, <5>1 DEF TrueHash
        <5>3. t[r].sha256 = Digest[t[r].stat]
          BY <3>1, <5>1 DEF Known, TrueRow
        <5> QED BY <5>1, <5>2, <5>3
      <4> QED BY <4>1, <4>2
    <3> QED BY <3>1, <3>2 DEF TrueHash
  <2> QED BY <2>2, <2>3 DEF TrueItem
<1>4. ASSUME NEW f \in tasks PROVE TrueTask(f, u, d, stillClean)
  <2>1. TrueTask(f, t, d, clean) /\ f.row \in DOMAIN t
    BY DEF Known, TrueTask
  <2>2. f.row \in DOMAIN u
    BY <2>1 DEF TrueMoves
  <2>3. ASSUME u[f.row].place \in stillClean
        PROVE  u[f.row].place = f.place /\ u[f.row].stat = d[f.place]
    <3>1. u[f.row].place = t[f.row].place
      BY <2>1, <2>3 DEF TrueMoves
    <3>2. t[f.row].place = f.place /\ t[f.row].stat = d[f.place]
      BY <2>1, <2>3, <3>1 DEF TrueTask
    <3> QED BY <2>2, <2>3, <3>1, <3>2 DEF TrueRows
  <2> QED BY <2>2, <2>3 DEF TrueTask
<1>5. ASSUME NEW w \in walks PROVE TrueWalk(w, u, d, stillClean)
  <2>1. TrueWalk(w, t, d, clean)
    BY DEF Known
  <2> QED BY <1>2, <2>1 DEF TrueWalk
<1> QED BY <1>1, <1>3, <1>4, <1>5 DEF Known

-----------------------------------------------------------------------------
(* What is under way.                                                      *)

Of(items) == {items[i] : i \in DOMAIN items}
Batches(box) == {m \in DOMAIN box : box[m].type = "batch"}
Posted(box) == UNION {Of(box[m].items) : m \in Batches(box)}

AllPosted == UNION {Posted(outbox[j]) : j \in Jobs}
AllFound == UNION {Of(scan[s].work.batch) : s \in Scans}
AllHashed == UNION {Of(hash[h].batch) : h \in Slots}
UnderWay == Of(applying) \cup AllPosted \cup AllFound \cup AllHashed

Tasks == UNION {hash[h].todo : h \in Slots}
Walks == {scan[s].work : s \in Scans}
Clean == Places \ racy

KnownNow(t) == Known(t, UnderWay, Tasks, Walks, disk, Clean)

(* A hash pass ends by its last message, and an idle one has no more.      *)
PassOK(h) ==
  LET box == outbox[HashJob(h)]
      status == hash[h].status
  IN /\ status = "idle" => box = <<>>
     /\ status = "running" => \A m \in DOMAIN box : box[m].type = "batch"
     /\ status = "ended" =>
          /\ box # <<>> /\ box[Len(box)].type # "batch"
          /\ \A m \in DOMAIN box : m # Len(box) => box[m].type = "batch"
     /\ status # "running" => hash[h].todo = {} /\ hash[h].batch = <<>>

BytesInvariant ==
  /\ \A h \in Slots : PassOK(h)
  /\ \A t \in {rows, Committed} : KnownNow(t)

\* One more item in a batch.
LEMMA OneMore ==
  ASSUME NEW S, NEW items \in Seq(S), NEW item \in S
  PROVE  Of(Append(items, item)) \subseteq Of(items) \cup {item}
<1>1. /\ Len(items) \in Nat /\ DOMAIN items = 1..Len(items)
      /\ DOMAIN Append(items, item) = 1..(Len(items) + 1)
      /\ Append(items, item)[Len(items) + 1] = item
      /\ \A i \in 1..Len(items) : Append(items, item)[i] = items[i]
  BY AppendProperties, LenProperties
<1>2. ASSUME NEW i \in DOMAIN Append(items, item)
      PROVE  Append(items, item)[i] \in Of(items) \cup {item}
  <2>1. i \in 1..Len(items) \/ i = Len(items) + 1
    BY <1>1
  <2>2. CASE i \in 1..Len(items)
    BY <1>1, <2>2 DEF Of
  <2> QED BY <1>1, <2>1, <2>2
<1> QED BY <1>2 DEF Of

\* One more message in a box.
LEMMA OnePost ==
  ASSUME NEW S, NEW box \in Seq(S), NEW message \in S
  PROVE  /\ message.type # "batch" => Posted(Append(box, message)) \subseteq Posted(box)
         /\ Posted(Append(box, message)) \subseteq Posted(box) \cup Of(message.items)
<1> DEFINE more == Append(box, message)
<1>1. /\ Len(box) \in Nat /\ DOMAIN box = 1..Len(box) /\ DOMAIN more = 1..(Len(box) + 1)
      /\ more[Len(box) + 1] = message
      /\ \A i \in 1..Len(box) : more[i] = box[i]
  BY AppendProperties, LenProperties
<1> HIDE DEF more
<1>2. \A i \in Batches(more) : i \in Batches(box) \/ i = Len(box) + 1
  BY <1>1 DEF Batches
<1>3. \A i \in Batches(more) : \/ Of(more[i].items) \subseteq Posted(box)
                               \/ message.type = "batch" /\ more[i] = message
  BY <1>1, <1>2 DEF Batches, Posted
<1> QED BY <1>3 DEF Posted, more

\* A worker sends what it has collected.
LEMMA SentItems ==
  ASSUME NEW type, NEW ids, NEW box \in Seq(MessagesOf(type, ids)),
         NEW items \in Seq(ItemsOf(type, ids)), NEW size, NEW message \in {Done, Stopped}
  PROVE  /\ Posted(Flushed(box, items, size)) \subseteq Posted(box) \cup Of(items)
         /\ Of(Kept(items, size)) \subseteq Of(items)
         /\ Posted(Finished(box, items, message)) \subseteq Posted(box) \cup Of(items)
<1>1. Batch(items) \in MessagesOf(type, ids) /\ Batch(items).items = items
      /\ message \in MessagesOf(type, ids) /\ message.type # "batch"
  BY DEF Batch, MessagesOf, Done, Stopped
<1>2. Posted(Append(box, Batch(items))) \subseteq Posted(box) \cup Of(items)
  BY <1>1, OnePost
<1>3. Of(Kept(items, size)) \subseteq Of(items)
  BY DEF Kept, Of
<1>4. ASSUME NEW b \in Seq(MessagesOf(type, ids))
      PROVE  b \o <<message>> = Append(b, message) /\ Posted(Append(b, message)) \subseteq Posted(b)
  BY <1>1, OnePost
<1>5. Append(box, Batch(items)) \in Seq(MessagesOf(type, ids))
  BY <1>1, AppendProperties
<1> QED BY <1>2, <1>3, <1>4, <1>5 DEF Flushed, Finished

\* A message is taken off a box.
LEMMA TakenItems ==
  ASSUME NEW S, NEW box \in Seq(S), box # <<>>
  PROVE  /\ Posted(Tail(box)) \subseteq Posted(box)
         /\ Head(box).type = "batch" => Of(Head(box).items) \subseteq Posted(box)
<1>1. /\ Len(box) \in Nat \ {0} /\ DOMAIN box = 1..Len(box) /\ Head(box) = box[1]
      /\ DOMAIN Tail(box) = 1..(Len(box) - 1)
      /\ \A i \in 1..(Len(box) - 1) : Tail(box)[i] = box[i + 1]
  BY HeadTailProperties, LenProperties, EmptySeq
<1>2. \A i \in Batches(Tail(box)) : i + 1 \in Batches(box) /\ Tail(box)[i] = box[i + 1]
  BY <1>1 DEF Batches
<1>3. 1 \in DOMAIN box
  BY <1>1
<1>4. Head(box).type = "batch" => Of(Head(box).items) \subseteq Posted(box)
  BY <1>1, <1>3 DEF Batches, Posted
<1> QED BY <1>2, <1>4 DEF Posted

\* Where an item under way is.
LEMMA WhereItems ==
  /\ Of(applying) \subseteq UnderWay
  /\ \A j \in Jobs : Posted(outbox[j]) \subseteq UnderWay
  /\ \A s \in Scans : Of(scan[s].work.batch) \subseteq UnderWay
  /\ \A h \in Slots : Of(hash[h].batch) \subseteq UnderWay
<1>1. \A j \in Jobs : Posted(outbox[j]) \subseteq AllPosted
  BY DEF AllPosted
<1>2. \A s \in Scans : Of(scan[s].work.batch) \subseteq AllFound
  BY DEF AllFound
<1>3. \A h \in Slots : Of(hash[h].batch) \subseteq AllHashed
  BY DEF AllHashed
<1> QED BY <1>1, <1>2, <1>3 DEF UnderWay

\* What is under way after a step.
LEMMA NewItems ==
  ASSUME NEW more, Of(applying') \subseteq more,
         \A j \in Jobs : Posted(outbox'[j]) \subseteq more,
         \A s \in Scans : Of(scan'[s].work.batch) \subseteq more,
         \A h \in Slots : Of(hash'[h].batch) \subseteq more
  PROVE  UnderWay' \subseteq more
<1>1. /\ Of(applying)' = Of(applying')
      /\ \A j : Posted(outbox[j])' = Posted(outbox'[j])
      /\ \A s : Of(scan[s].work.batch)' = Of(scan'[s].work.batch)
      /\ \A h : Of(hash[h].batch)' = Of(hash'[h].batch)
  BY DEF Of, Posted, Batches
<1>2. /\ AllPosted' = UNION {Posted(outbox[j])' : j \in Jobs}
      /\ AllFound' = UNION {Of(scan[s].work.batch)' : s \in Scans}
      /\ AllHashed' = UNION {Of(hash[h].batch)' : h \in Slots}
  BY DEF AllPosted, AllFound, AllHashed
<1>3. AllPosted' \subseteq more
  BY <1>1, <1>2
<1>4. AllFound' \subseteq more
  BY <1>1, <1>2
<1>5. AllHashed' \subseteq more
  BY <1>1, <1>2
<1> QED BY <1>1, <1>3, <1>4, <1>5 DEF UnderWay

\* Nothing is under way in an empty sequence.
LEMMA EmptyItems == Of(<<>>) = {} /\ Posted(<<>>) = {}
BY DEF Of, Posted, Batches

\* A step that leaves the disk, and adds nothing to what is known that is not true.
LEMMA BytesGrow ==
  ASSUME BytesInvariant, disk' = disk, rows' \in {rows, Committed},
         Committed' \in {rows, Committed}, racy \subseteq racy',
         \A h \in Slots : PassOK(h)',
         \A t \in {rows, Committed} :
           /\ \A item \in UnderWay' : item \in UnderWay \/ TrueItem(item, t, disk, Clean)
           /\ \A f \in Tasks' : f \in Tasks \/ TrueTask(f, t, disk, Clean)
           /\ \A w \in Walks' : w \in Walks \/ TrueWalk(w, t, disk, Clean)
  PROVE  BytesInvariant'
<1>1. Clean' \subseteq Clean
  BY DEF Clean
<1>2. ASSUME NEW t \in {rows, Committed}
      PROVE  Known(t, UnderWay', Tasks', Walks', disk, Clean')
  <2>1. Known(t, UnderWay, Tasks, Walks, disk, Clean)
    BY DEF BytesInvariant, KnownNow
  <2> QED BY <1>1, <2>1, KnownGrows
<1>3. \A t \in {rows', Committed'} : Known(t, UnderWay', Tasks', Walks', disk', Clean')
  BY <1>2
<1> QED BY <1>3 DEF BytesInvariant, KnownNow

\* A pass of which a step changes nothing.
LEMMA PassKept ==
  ASSUME NEW h \in Slots, PassOK(h), hash'[h] = hash[h], outbox'[HashJob(h)] = outbox[HashJob(h)]
  PROVE  PassOK(h)'
BY DEF PassOK

-----------------------------------------------------------------------------
(* The workers.                                                            *)

\* With no open transaction the table is what is committed.
LEMMA RestingTables ==
  ASSUME applying = <<>>
  PROVE  /\ Committed = rows
         /\ UNCHANGED <<rows, txVars>> => Committed' = rows /\ rows' = rows
BY DEF Committed, txVars

\* A step of a scan worker adds true items, and goes on with a true walk.
LEMMA WalkerStep ==
  ASSUME IndexInvariant, BytesInvariant, NEW s \in Scans, Walking(s),
         UNCHANGED <<disk, rows, hash, txVars, racy>>,
         NEW box, outbox' = [outbox EXCEPT ![ScanJob(s)] = box],
         \A q \in Scans : q # s => scan'[q] = scan[q],
         NEW more,
         Posted(box) \subseteq Posted(outbox[ScanJob(s)]) \cup Of(scan[s].work.batch) \cup more,
         Of(scan'[s].work.batch) \subseteq Of(scan[s].work.batch) \cup more,
         \A item \in more : TrueItem(item, rows, disk, Clean),
         TrueWalk(scan'[s].work, rows, disk, Clean)
  PROVE  BytesInvariant'
<1>1. applying = <<>> /\ applying' = <<>>
  BY DEF Walking, AtRest, txVars
<1>2. Committed = rows /\ rows' = rows /\ Committed' = rows
  BY <1>1, RestingTables
<1>3. /\ outbox'[ScanJob(s)] = box
      /\ \A j \in Jobs : j # ScanJob(s) => outbox'[j] = outbox[j]
  BY JobTypes DEF IndexInvariant, FlowIn, OutboxIn
<1>4. ASSUME NEW h \in Slots PROVE PassOK(h)'
  <2>1. HashJob(h) \in Jobs /\ HashJob(h) # ScanJob(s)
    BY JobTypes
  <2> QED BY <1>3, <2>1, PassKept DEF BytesInvariant
<1>5. UnderWay' \subseteq UnderWay \cup more
  <2>1. \A j \in Jobs : Posted(outbox'[j]) \subseteq UnderWay \cup more
    BY <1>3, WhereItems
  <2>2. \A q \in Scans : Of(scan'[q].work.batch) \subseteq UnderWay \cup more
    BY WhereItems
  <2>3. Of(applying') \subseteq UnderWay \cup more
    BY <1>1, WhereItems
  <2>4. \A h \in Slots : Of(hash'[h].batch) \subseteq UnderWay \cup more
    BY WhereItems
  <2> QED BY <2>1, <2>2, <2>3, <2>4, NewItems
<1>6. Tasks' = Tasks
  BY DEF Tasks
<1>7. \A w \in Walks' : w \in Walks \/ w = scan'[s].work
  BY DEF Walks
<1>8. \A t \in {rows, Committed} :
        /\ \A item \in UnderWay' : item \in UnderWay \/ TrueItem(item, t, disk, Clean)
        /\ \A f \in Tasks' : f \in Tasks \/ TrueTask(f, t, disk, Clean)
        /\ \A w \in Walks' : w \in Walks \/ TrueWalk(w, t, disk, Clean)
  BY <1>2, <1>5, <1>6, <1>7
<1> QED BY <1>2, <1>4, <1>8, BytesGrow

\* What is known of the walk of a scan.
LEMMA WalkIsTrue ==
  ASSUME BytesInvariant, NEW s \in Scans
  PROVE  TrueWalk(scan[s].work, rows, disk, Clean)
BY DEF BytesInvariant, KnownNow, Known, Walks

\* A file that was dealt with, truly, joins the batch.
LEMMA ReportIsTrue ==
  ASSUME IndexInvariant, BytesInvariant, NEW s \in Scans, Walking(s),
         NEW left \in SUBSET scan[s].work.left,
         NEW item \in ItemsOf("scan", DOMAIN Committed),
         Report(s, left, item), ScanWorker, TrueItem(item, rows, disk, Clean)
  PROVE  BytesInvariant'
<1> DEFINE ids == DOMAIN Committed
           w == scan[s].work
           items == Append(w.batch, item)
           box == Flushed(outbox[ScanJob(s)], items, BatchSize)
<1>1. /\ w \in WorkOf(ids) /\ w.batch \in Seq(ItemsOf("scan", ids))
      /\ outbox[ScanJob(s)] \in Seq(MessagesOf("scan", ids))
      /\ scan[s] \in ScanOf(ids)
  BY WorkTypes
<1>2. items \in Seq(ItemsOf("scan", ids)) /\ Of(items) \subseteq Of(w.batch) \cup {item}
  BY <1>1, AppendProperties, OneMore
<1>3. /\ Posted(box) \subseteq Posted(outbox[ScanJob(s)]) \cup Of(items)
      /\ Of(Kept(items, BatchSize)) \subseteq Of(items)
  BY <1>1, <1>2, SentItems
<1>4. scan \in [Scans -> ScanOf(ids)]
  BY DEF IndexInvariant, FlowIn, ScansIn
<1>5. /\ \A q \in Scans : q # s => scan'[q] = scan[q]
      /\ scan'[s].work.left = left /\ scan'[s].work.at = None
      /\ scan'[s].work.batch = Kept(items, BatchSize)
      /\ scan'[s].work.known = w.known
  BY <1>1, <1>4 DEF Report, ScanOf, WorkOf
<1>6. TrueWalk(scan'[s].work, rows, disk, Clean)
  BY <1>5, WalkIsTrue, NoneIsNoPlace DEF TrueWalk, Clean
<1>7. outbox' = [outbox EXCEPT ![ScanJob(s)] = box]
  BY DEF Report
<1>8. UNCHANGED <<disk, rows, hash, txVars, racy>>
  BY DEF ScanWorker, WorkerOnly, history
<1> DEFINE more == {item}
<1>9. /\ Posted(box) \subseteq Posted(outbox[ScanJob(s)]) \cup Of(scan[s].work.batch) \cup more
      /\ Of(scan'[s].work.batch) \subseteq Of(scan[s].work.batch) \cup more
      /\ \A i \in more : TrueItem(i, rows, disk, Clean)
  BY <1>2, <1>3, <1>5
<1> HIDE DEF box, more, items
<1> QED BY <1>5, <1>6, <1>7, <1>8, <1>9, WalkerStep

\* A place that the walk comes by has a row that is right, or will be read.
LEMMA VisitIsTrue ==
  ASSUME IndexInvariant, BytesInvariant, NEW s \in Scans, NEW p \in Places, Visit(s, p)
  PROVE  BytesInvariant'
<1> DEFINE ids == DOMAIN Committed
           w == scan[s].work
           left == w.left \ {p}
           c == disk[p]
<1>1. /\ w \in WorkOf(ids) /\ scan[s] \in ScanOf(ids) /\ w.left \subseteq Places
      /\ outbox[ScanJob(s)] \in Seq(MessagesOf("scan", ids))
  BY WorkTypes
<1>2. /\ c \in Contents \cup {None} /\ Walking(s) /\ ScanWorker /\ p \in w.left
  BY DEF IndexInvariant, PlainTypes, Visit
<1>3. TrueWalk(w, rows, disk, Clean)
  BY WalkIsTrue
<1>4. CASE c # None /\ IsUnchanged(w, p, c)
  <2>1. Same(p, c) \in ItemsOf("scan", ids)
    BY <1>2, <1>4 DEF Same, ItemsOf
  <2>2. Report(s, left, Same(p, c))
    BY <1>4 DEF Visit
  <2>3. p \in Clean => Current(rows, p, disk)
    BY <1>2, <1>3, <1>4 DEF TrueWalk, IsUnchanged
  <2>4. TrueItem(Same(p, c), rows, disk, Clean)
    BY <2>3 DEF TrueItem, TrueFind, Same
  <2> QED BY <1>2, <2>1, <2>2, <2>4, ReportIsTrue
<1>5. CASE ~(c # None /\ IsUnchanged(w, p, c))
  <2>1. /\ scan' = [scan EXCEPT ![s].work.left = left, ![s].work.at = Pending(p, c),
                                ![s].work.stat = c]
        /\ UNCHANGED outbox
    BY <1>5 DEF Visit
  <2>2. scan \in [Scans -> ScanOf(ids)]
    BY DEF IndexInvariant, FlowIn, ScansIn
  <2>3. /\ \A q \in Scans : q # s => scan'[q] = scan[q]
        /\ scan'[s].work.left = left /\ scan'[s].work.at = Pending(p, c)
        /\ scan'[s].work.stat = c
        /\ scan'[s].work.batch = w.batch
        /\ scan'[s].work.known = w.known
    BY <1>1, <2>1, <2>2 DEF ScanOf, WorkOf
  <2>4. TrueWalk(scan'[s].work, rows, disk, Clean)
    <3>1. \A q \in Clean : q = Pending(p, c) => q = p
      BY NoneIsNoPlace DEF Pending, Clean
    <3> QED BY <1>2, <1>3, <2>3, <3>1 DEF TrueWalk
  <2>5. outbox' = [outbox EXCEPT ![ScanJob(s)] = outbox[ScanJob(s)]]
    BY <2>1, JobTypes DEF IndexInvariant, FlowIn, OutboxIn
  <2>6. UNCHANGED <<disk, rows, hash, txVars, racy>>
    BY <1>2 DEF ScanWorker, WorkerOnly, history
  <2> DEFINE more == {}
  <2>7. /\ Posted(outbox[ScanJob(s)])
             \subseteq Posted(outbox[ScanJob(s)]) \cup Of(scan[s].work.batch) \cup more
        /\ Of(scan'[s].work.batch) \subseteq Of(scan[s].work.batch) \cup more
        /\ \A i \in more : TrueItem(i, rows, disk, Clean)
    BY <2>3
  <2> HIDE DEF more
  <2> QED BY <1>2, <2>3, <2>4, <2>5, <2>6, <2>7, WalkerStep
<1> QED BY <1>4, <1>5

\* A file that is read is found to be what it was, where nothing changed.
LEMMA ReadFileIsTrue ==
  ASSUME IndexInvariant, BytesInvariant, NEW s \in Scans, ReadFile(s)
  PROVE  BytesInvariant'
<1> DEFINE w == scan[s].work
<1>1. PICK item \in ItemsOf("scan", DOMAIN Committed) :
        /\ Report(s, w.left, item) /\ ScanWorker
        /\ item.place = w.at /\ item.stat = w.stat
        /\ item.kind = "moved" => w.at \notin DOMAIN w.known /\ item.sha256 = Digest[disk[w.at]]
        /\ item.kind = "parsed" => item.read = disk[w.at]
        /\ item.kind # "same"
  BY ReadItem
<1>2. TrueWalk(w, rows, disk, Clean)
  BY WalkIsTrue
<1>3. TrueFind(item, rows, disk) \/ item.place \notin Clean
  BY <1>1, <1>2 DEF TrueFind, TrueWalk
<1>4. item.kind # "hashed"
  BY <1>1 DEF ItemsOf
<1>5. TrueItem(item, rows, disk, Clean)
  BY <1>3, <1>4 DEF TrueItem
<1>6. Walking(s) /\ w.left \in SUBSET w.left
  BY DEF ReadFile
<1> HIDE DEF w
<1> QED BY <1>1, <1>5, <1>6, ReportIsTrue DEF w

\* What a walk sends last was found before.
LEMMA WalkEndIsTrue ==
  ASSUME IndexInvariant, BytesInvariant, NEW s \in Scans, WalkEnds(s) \/ WalkStops(s)
  PROVE  BytesInvariant'
<1> DEFINE ids == DOMAIN Committed
           w == scan[s].work
<1>1. /\ w.batch \in Seq(ItemsOf("scan", ids)) /\ scan[s] \in ScanOf(ids)
      /\ outbox[ScanJob(s)] \in Seq(MessagesOf("scan", ids))
  BY WorkTypes
<1>2. /\ Walking(s)
      /\ scan' = [scan EXCEPT ![s].status = "ended", ![s].work = NoWork]
      /\ UNCHANGED <<disk, rows, hash, txVars, racy>>
  BY DEF WalkEnds, WalkStops, ScanWorker, WorkerOnly, history
<1>3. PICK items \in {<<>>, w.batch}, message \in {Done, Stopped} :
        outbox' = [outbox EXCEPT ![ScanJob(s)] = Finished(outbox[ScanJob(s)], items, message)]
  BY DEF WalkEnds, WalkStops, Leftover
<1> DEFINE box == Finished(outbox[ScanJob(s)], items, message)
           more == {}
<1>4. scan \in [Scans -> ScanOf(ids)]
  BY DEF IndexInvariant, FlowIn, ScansIn
<1>5. scan'[s].work = NoWork /\ \A q \in Scans : q # s => scan'[q] = scan[q]
  BY <1>1, <1>2, <1>4 DEF ScanOf
<1>6. TrueWalk(scan'[s].work, rows, disk, Clean)
  BY <1>5, NoneIsNoPlace DEF TrueWalk, NoWork, Clean
<1>7. items \in Seq(ItemsOf("scan", ids)) /\ Of(items) \subseteq Of(w.batch)
  <2>1. <<>> \in Seq(ItemsOf("scan", ids))
    OBVIOUS
  <2> QED BY <1>1, <2>1, EmptyItems
<1>8. Posted(box) \subseteq Posted(outbox[ScanJob(s)]) \cup Of(items)
  BY <1>1, <1>7, SentItems
<1>9. Of(scan'[s].work.batch) = {}
  BY <1>5, EmptyItems DEF NoWork
<1> HIDE DEF box
<1>10. /\ Posted(box) \subseteq Posted(outbox[ScanJob(s)]) \cup Of(scan[s].work.batch) \cup more
       /\ Of(scan'[s].work.batch) \subseteq Of(scan[s].work.batch) \cup more
       /\ \A i \in more : TrueItem(i, rows, disk, Clean)
  BY <1>7, <1>8, <1>9
<1> HIDE DEF more
<1> QED BY <1>2, <1>3, <1>5, <1>6, <1>10, WalkerStep DEF box

\* The other passes, and the scans, when a hash pass steps.
LEMMA PassStep ==
  ASSUME IndexInvariant, BytesInvariant, NEW h \in Slots, Hashing(h),
         UNCHANGED <<disk, rows, scan, txVars, racy>>,
         NEW box, outbox' = [outbox EXCEPT ![HashJob(h)] = box],
         NEW pass, hash' = [hash EXCEPT ![h] = pass],
         PassOK(h)', pass.todo \subseteq hash[h].todo,
         NEW more,
         Posted(box) \subseteq Posted(outbox[HashJob(h)]) \cup Of(hash[h].batch) \cup more,
         Of(pass.batch) \subseteq Of(hash[h].batch) \cup more,
         \A item \in more : TrueItem(item, rows, disk, Clean)
  PROVE  BytesInvariant'
<1>1. applying = <<>> /\ applying' = <<>>
  BY DEF Hashing, AtRest, txVars
<1>2. Committed = rows /\ rows' = rows /\ Committed' = rows
  BY <1>1, RestingTables
<1>3. /\ outbox'[HashJob(h)] = box
      /\ \A j \in Jobs : j # HashJob(h) => outbox'[j] = outbox[j]
  BY JobTypes DEF IndexInvariant, FlowIn, OutboxIn
<1>4. hash'[h] = pass /\ \A g \in Slots : g # h => hash'[g] = hash[g]
  BY DEF IndexInvariant, FlowIn, HashesIn
<1>5. ASSUME NEW g \in Slots PROVE PassOK(g)'
  <2>1. g # h => HashJob(g) \in Jobs /\ HashJob(g) # HashJob(h)
    BY JobTypes
  <2> QED BY <1>3, <1>4, <2>1, PassKept DEF BytesInvariant
<1>6. UnderWay' \subseteq UnderWay \cup more
  <2>1. \A j \in Jobs : Posted(outbox'[j]) \subseteq UnderWay \cup more
    BY <1>3, WhereItems
  <2>2. \A s \in Scans : Of(scan'[s].work.batch) \subseteq UnderWay \cup more
    BY WhereItems
  <2>3. Of(applying') \subseteq UnderWay \cup more
    BY <1>1, WhereItems
  <2>4. \A g \in Slots : Of(hash'[g].batch) \subseteq UnderWay \cup more
    BY <1>4, WhereItems
  <2> QED BY <2>1, <2>2, <2>3, <2>4, NewItems
<1>7. Tasks' \subseteq Tasks
  BY <1>4 DEF Tasks
<1>8. Walks' = Walks
  BY DEF Walks
<1>9. \A t \in {rows, Committed} :
        /\ \A item \in UnderWay' : item \in UnderWay \/ TrueItem(item, t, disk, Clean)
        /\ \A f \in Tasks' : f \in Tasks \/ TrueTask(f, t, disk, Clean)
        /\ \A w \in Walks' : w \in Walks \/ TrueWalk(w, t, disk, Clean)
  BY <1>2, <1>6, <1>7, <1>8
<1> QED BY <1>2, <1>5, <1>9, BytesGrow

\* The messages of a job that goes on are batches,
LEMMA StillBatches ==
  ASSUME NEW type, NEW ids, NEW box \in Seq(MessagesOf(type, ids)),
         NEW items \in Seq(ItemsOf(type, ids)), NEW size,
         \A m \in DOMAIN box : box[m].type = "batch"
  PROVE  \A m \in DOMAIN Flushed(box, items, size) :
           Flushed(box, items, size)[m].type = "batch"
<1> DEFINE more == Append(box, Batch(items))
<1>1. Batch(items) \in MessagesOf(type, ids) /\ Batch(items).type = "batch"
  BY DEF Batch, MessagesOf
<1>2. /\ Len(box) \in Nat /\ DOMAIN box = 1..Len(box)
      /\ DOMAIN more = 1..(Len(box) + 1) /\ more[Len(box) + 1] = Batch(items)
      /\ \A m \in 1..Len(box) : more[m] = box[m]
  BY <1>1, AppendProperties, LenProperties
<1> HIDE DEF more
<1>3. \A m \in DOMAIN more : more[m].type = "batch"
  BY <1>1, <1>2
<1> QED BY <1>3 DEF Flushed, more

\* and those of one that ends, up to the last one.
LEMMA LastMessage ==
  ASSUME NEW type, NEW ids, NEW box \in Seq(MessagesOf(type, ids)),
         NEW items \in Seq(ItemsOf(type, ids)), NEW message \in {Done, Stopped},
         \A m \in DOMAIN box : box[m].type = "batch"
  PROVE  LET last == Finished(box, items, message)
         IN /\ last # <<>> /\ last[Len(last)].type # "batch"
            /\ \A m \in DOMAIN last : m # Len(last) => last[m].type = "batch"
<1> DEFINE sent == IF items = <<>> THEN box ELSE Append(box, Batch(items))
           last == Append(sent, message)
<1>1. Batch(items) \in MessagesOf(type, ids) /\ Batch(items).type = "batch"
      /\ message \in MessagesOf(type, ids) /\ message.type # "batch"
  BY DEF Batch, MessagesOf, Done, Stopped
<1>2. sent \in Seq(MessagesOf(type, ids))
  BY <1>1, AppendProperties
<1>3. \A m \in DOMAIN sent : sent[m].type = "batch"
  <2>1. Flushed(box, items, 0) = Append(box, Batch(items))
    <3>1. Len(items) >= 0
      BY LenProperties
    <3> QED BY <3>1 DEF Flushed
  <2>2. \A m \in DOMAIN Flushed(box, items, 0) : Flushed(box, items, 0)[m].type = "batch"
    BY StillBatches
  <2> QED BY <2>1, <2>2
<1> HIDE DEF sent
<1>4. sent \o <<message>> = last
  BY <1>1, <1>2
<1>5. /\ Len(sent) \in Nat /\ DOMAIN sent = 1..Len(sent) /\ Len(last) = Len(sent) + 1
      /\ DOMAIN last = 1..(Len(sent) + 1) /\ last[Len(sent) + 1] = message
      /\ \A m \in 1..Len(sent) : last[m] = sent[m]
  BY <1>1, <1>2, AppendProperties, LenProperties
<1> HIDE DEF last
<1>6. last # <<>>
  BY <1>5
<1>7. last[Len(last)].type # "batch"
  BY <1>1, <1>5
<1>8. \A m \in DOMAIN last : m # Len(last) => last[m].type = "batch"
  BY <1>3, <1>5
<1> QED BY <1>4, <1>6, <1>7, <1>8 DEF Finished, sent

\* A hash is of what a clean place holds.
LEMMA HashNextIsTrue ==
  ASSUME IndexInvariant, BytesInvariant, NEW h \in Slots, HashNext(h)
  PROVE  BytesInvariant'
<1> DEFINE ids == DOMAIN Committed
<1>1. PICK file \in hash[h].todo :
        LET c == disk[file.place]
            items == Append(hash[h].batch, IF c \in Unreadable \cup {None}
                                           THEN HashError(file.row)
                                           ELSE Hashed(file.row, Digest[c]))
        IN /\ Hashing(h)
           /\ hash' = [hash EXCEPT ![h].todo = @ \ {file},
                                   ![h].batch = Kept(items, HashBatchSize)]
           /\ outbox' = [outbox EXCEPT ![HashJob(h)] = Flushed(@, items, HashBatchSize)]
           /\ HashWorker
  BY DEF HashNext
<1> DEFINE c == disk[file.place]
           item == IF c \in Unreadable \cup {None} THEN HashError(file.row)
                                                  ELSE Hashed(file.row, Digest[c])
           items == Append(hash[h].batch, item)
           pass == [hash[h] EXCEPT !.todo = hash[h].todo \ {file},
                                   !.batch = Kept(items, HashBatchSize)]
           box == Flushed(outbox[HashJob(h)], items, HashBatchSize)
           more == {item}
<1>2. /\ hash[h] \in HashOf(ids) /\ hash[h].todo \subseteq [row : ids, place : Places]
      /\ hash[h].batch \in Seq(ItemsOf("hash", ids))
      /\ outbox[HashJob(h)] \in Seq(MessagesOf("hash", ids))
  BY PassTypes
<1>3. file.row \in ids /\ c \in Contents \cup {None}
  BY <1>2 DEF IndexInvariant, PlainTypes
<1>4. item \in ItemsOf("hash", ids)
  BY <1>3, DigestTypes DEF HashError, Hashed, ItemsOf
<1>5. TrueItem(item, rows, disk, Clean)
  <2>1. TrueTask(file, rows, disk, Clean)
    BY DEF BytesInvariant, KnownNow, Known, Tasks
  <2>2. CASE c \in Unreadable \cup {None}
    BY <2>2 DEF TrueItem, HashError, FileKinds
  <2>3. CASE c \notin Unreadable \cup {None}
    <3>1. item = Hashed(file.row, Digest[c])
      BY <2>3
    <3>2. /\ Hashed(file.row, Digest[c]).kind = "hashed" /\ Hashed(file.row, Digest[c]).row = file.row
          /\ Hashed(file.row, Digest[c]).sha256 = Digest[c]
      BY DEF Hashed
    <3> HIDE DEF item
    <3> QED BY <2>1, <3>1, <3>2 DEF TrueItem, TrueHash, TrueTask, FileKinds
  <2> QED BY <2>2, <2>3
<1>6. hash' = [hash EXCEPT ![h] = pass]
  <2>1. hash \in [Slots -> HashOf(ids)]
    BY DEF IndexInvariant, FlowIn, HashesIn
  <2> HIDE DEF item
  <2> QED BY <1>1, <1>2, <2>1 DEF HashOf, item
<1>7. outbox' = [outbox EXCEPT ![HashJob(h)] = box]
  BY <1>1
<1>8. Hashing(h) /\ UNCHANGED <<disk, rows, scan, txVars, racy>>
  BY <1>1 DEF HashWorker, WorkerOnly, history
<1> HIDE DEF item
<1>9. /\ items \in Seq(ItemsOf("hash", ids))
      /\ Of(items) \subseteq Of(hash[h].batch) \cup {item}
  BY <1>2, <1>4, AppendProperties, OneMore
<1> HIDE DEF items
<1>10. /\ Posted(box) \subseteq Posted(outbox[HashJob(h)]) \cup Of(hash[h].batch) \cup more
       /\ Of(Kept(items, HashBatchSize)) \subseteq Of(hash[h].batch) \cup more
       /\ \A i \in more : TrueItem(i, rows, disk, Clean)
  BY <1>2, <1>5, <1>9, SentItems
<1>11. /\ pass.todo \subseteq hash[h].todo /\ pass.status = "running"
       /\ pass.batch = Kept(items, HashBatchSize)
  BY <1>2, <1>8 DEF HashOf, Hashing
<1>12. PassOK(h)'
  <2>1. \A m \in DOMAIN outbox[HashJob(h)] : outbox[HashJob(h)][m].type = "batch"
    BY <1>8 DEF BytesInvariant, PassOK, Hashing
  <2>2. \A m \in DOMAIN box : box[m].type = "batch"
    BY <1>2, <1>9, <2>1, StillBatches
  <2>3. outbox'[HashJob(h)] = box /\ hash'[h] = pass
    BY <1>6, <1>7, JobTypes DEF IndexInvariant, FlowIn, OutboxIn, HashesIn
  <2> HIDE DEF box, pass
  <2> QED BY <1>11, <2>2, <2>3 DEF PassOK
<1> HIDE DEF pass, box, more
<1> QED BY <1>6, <1>7, <1>8, <1>10, <1>11, <1>12, PassStep

\* What a hash pass sends last was read before.
LEMMA HashEndIsTrue ==
  ASSUME IndexInvariant, BytesInvariant, NEW h \in Slots, HashEnds(h) \/ HashStops(h)
  PROVE  BytesInvariant'
<1> DEFINE ids == DOMAIN Committed
           pass == [IdleHash EXCEPT !.status = "ended"]
<1>1. /\ hash[h].batch \in Seq(ItemsOf("hash", ids))
      /\ outbox[HashJob(h)] \in Seq(MessagesOf("hash", ids))
  BY PassTypes
<1>2. Hashing(h) /\ hash' = [hash EXCEPT ![h] = pass]
  BY DEF HashEnds, HashStops
<1>3. UNCHANGED <<disk, rows, scan, txVars, racy>>
  BY DEF HashEnds, HashStops, HashWorker, WorkerOnly, history
<1>4. PICK items \in {<<>>, hash[h].batch}, message \in {Done, Stopped} :
        outbox' = [outbox EXCEPT ![HashJob(h)] = Finished(outbox[HashJob(h)], items, message)]
  BY DEF HashEnds, HashStops, Leftover
<1> DEFINE box == Finished(outbox[HashJob(h)], items, message)
           more == {}
<1>5. pass.todo = {} /\ pass.batch = <<>> /\ pass.status = "ended"
  BY DEF IdleHash
<1>6. items \in Seq(ItemsOf("hash", ids)) /\ Of(items) \subseteq Of(hash[h].batch)
  <2>1. <<>> \in Seq(ItemsOf("hash", ids))
    OBVIOUS
  <2> QED BY <1>1, <2>1, EmptyItems
<1>7. Posted(box) \subseteq Posted(outbox[HashJob(h)]) \cup Of(items)
  BY <1>1, <1>6, SentItems
<1>8. Of(pass.batch) = {}
  BY <1>5, EmptyItems
<1>9. PassOK(h)'
  <2>1. \A m \in DOMAIN outbox[HashJob(h)] : outbox[HashJob(h)][m].type = "batch"
    BY <1>2 DEF BytesInvariant, PassOK, Hashing
  <2>2. /\ box # <<>> /\ box[Len(box)].type # "batch"
        /\ \A m \in DOMAIN box : m # Len(box) => box[m].type = "batch"
    BY <1>1, <1>6, <2>1, LastMessage
  <2>3. outbox'[HashJob(h)] = box /\ hash'[h] = pass
    BY <1>2, <1>4, JobTypes DEF IndexInvariant, FlowIn, OutboxIn, HashesIn
  <2> HIDE DEF box, pass
  <2> QED BY <1>5, <2>2, <2>3 DEF PassOK
<1> HIDE DEF box, pass
<1>10. /\ Posted(box) \subseteq Posted(outbox[HashJob(h)]) \cup Of(hash[h].batch) \cup more
       /\ Of(pass.batch) \subseteq Of(hash[h].batch) \cup more
       /\ \A i \in more : TrueItem(i, rows, disk, Clean)
  BY <1>6, <1>7, <1>8
<1>11. outbox' = [outbox EXCEPT ![HashJob(h)] = box]
  BY <1>4 DEF box
<1>12. pass.todo \subseteq hash[h].todo
  BY <1>5
<1> HIDE DEF more
<1> QED BY <1>2, <1>3, <1>9, <1>10, <1>11, <1>12, PassStep

-----------------------------------------------------------------------------
(* Claims.                                                                 *)

\* A scan begins with the stats of the rows.
LEMMA ClaimScanIsTrue ==
  ASSUME IndexInvariant, BytesInvariant, NEW s \in Scans,
         (\E f \in Folders : ClaimScan(s, f)) \/ ClaimRequeued(s)
  PROVE  BytesInvariant'
<1>1. PICK f : Dispatch(s, f)
  BY DEF ClaimScan, ClaimRequeued
<1>2. /\ applying = <<>> /\ applying' = <<>>
      /\ UNCHANGED <<disk, rows, hash, outbox, txVars, racy>>
  BY DEF ClaimScan, ClaimRequeued, txVars, history
<1>3. Committed = rows /\ rows' = rows /\ Committed' = rows
  BY <1>2, RestingTables
<1> DEFINE w == [NoWork EXCEPT !.known = KnownFiles(rows, f), !.candidates = MoveCandidates(rows),
                               !.left = {p \in Places : FolderOf[p] = f}]
<1>4. scan'[s].work = w /\ \A q \in Scans : q # s => scan'[q] = scan[q]
  BY <1>1 DEF Dispatch, IndexInvariant, FlowIn, ScansIn
<1>5. /\ w.known = KnownFiles(rows, f) /\ w.left = {p \in Places : FolderOf[p] = f}
      /\ w.at = None /\ w.batch = <<>>
  BY DEF NoWork
<1> HIDE DEF w
<1>6. TrueWalk(w, rows, disk, Clean)
  <2>1. SoundTable(rows)
    BY DEF IndexInvariant, Tables
  <2>2. ASSUME NEW p \in Clean, FolderOf[p] = f, NEW r \in DOMAIN rows, rows[r].place = p
        PROVE  p \in DOMAIN w.known /\ w.known[p] = rows[r].stat
    <3>1. RowAt(rows, p) \in DOMAIN rows /\ rows[RowAt(rows, p)].place = p
      BY <2>2, RowAtIsAt DEF Indexed, IsAt
    <3>2. RowAt(rows, p) = r
      BY <2>1, <2>2, <3>1 DEF SoundTable, PlacesDistinct
    <3> QED BY <1>5, <2>2, <3>2 DEF KnownFiles
  <2>3. ASSUME NEW p \in Clean, FolderOf[p] = f,
               p \in DOMAIN w.known => disk[p] # None /\ Stat[w.known[p]] = Stat[disk[p]]
        PROVE  Current(rows, p, disk)
    <3>1. ASSUME NEW r \in DOMAIN rows, rows[r].place = p PROVE rows[r].stat = disk[p]
      <4>1. disk[p] # None /\ Stat[rows[r].stat] = Stat[disk[p]]
        BY <2>2, <2>3, <3>1
      <4>2. TrueRow(rows[r], disk)
        BY <2>3, <3>1 DEF BytesInvariant, KnownNow, Known
      <4> QED BY <3>1, <4>1, <4>2 DEF TrueRow
    <3> QED BY <3>1 DEF Current
  <2> QED BY <1>5, <2>3, NoneIsNoPlace DEF TrueWalk, Clean
<1>7. UnderWay' \subseteq UnderWay
  <2>1. \A q \in Scans : Of(scan'[q].work.batch) \subseteq UnderWay
    BY <1>4, <1>5, EmptyItems, WhereItems
  <2>2. \A j \in Jobs : Posted(outbox'[j]) \subseteq UnderWay
    BY <1>2, WhereItems
  <2>3. \A h \in Slots : Of(hash'[h].batch) \subseteq UnderWay
    BY <1>2, WhereItems
  <2>4. Of(applying') \subseteq UnderWay
    BY <1>2, WhereItems
  <2> QED BY <2>1, <2>2, <2>3, <2>4, NewItems
<1>8. Tasks' = Tasks /\ \A v \in Walks' : v \in Walks \/ v = w
  BY <1>2, <1>4 DEF Tasks, Walks
<1>9. \A h \in Slots : PassOK(h)'
  BY <1>2, PassKept DEF BytesInvariant
<1>10. \A t \in {rows, Committed} :
         /\ \A item \in UnderWay' : item \in UnderWay \/ TrueItem(item, t, disk, Clean)
         /\ \A g \in Tasks' : g \in Tasks \/ TrueTask(g, t, disk, Clean)
         /\ \A v \in Walks' : v \in Walks \/ TrueWalk(v, t, disk, Clean)
  BY <1>3, <1>6, <1>7, <1>8
<1> QED BY <1>2, <1>3, <1>9, <1>10, BytesGrow

\* A hash pass begins with rows that have what is on the disk.
LEMMA ClaimHashIsTrue ==
  ASSUME IndexInvariant, BytesInvariant, NEW h \in Slots, ClaimHash(h)
  PROVE  BytesInvariant'
<1>1. PICK ids \in OldestUnhashed(rows, HashLimit) :
        hash' = [hash EXCEPT ![h] =
          [status |-> "running", batch |-> <<>>,
           todo |-> {[row |-> r, place |-> rows[r].place] : r \in ids}]]
  BY DEF ClaimHash
<1>2. /\ applying = <<>> /\ applying' = <<>> /\ hash[h].status = "idle"
      /\ UNCHANGED <<disk, rows, scan, outbox, txVars, racy>>
  BY DEF ClaimHash, AtRest, txVars, history
<1>3. Committed = rows /\ rows' = rows /\ Committed' = rows
  BY <1>2, RestingTables
<1>4. /\ hash'[h].status = "running" /\ hash'[h].batch = <<>>
      /\ hash'[h].todo = {[row |-> r, place |-> rows[r].place] : r \in ids}
      /\ \A g \in Slots : g # h => hash'[g] = hash[g]
  BY <1>1 DEF IndexInvariant, FlowIn, HashesIn
<1>5. \A f \in hash'[h].todo : TrueTask(f, rows, disk, Clean)
  <2>1. \A r \in ids : r \in DOMAIN rows /\ rows[r].status = "present" /\ rows[r].sha256 = None
    BY <1>1 DEF OldestUnhashed, Unhashed
  <2>2. \A r \in DOMAIN rows : rows[r].place \in Clean => TrueRow(rows[r], disk)
    BY DEF BytesInvariant, KnownNow, Known
  <2>3. ASSUME NEW r \in ids
        PROVE  TrueTask([row |-> r, place |-> rows[r].place], rows, disk, Clean)
    BY <2>1, <2>2 DEF TrueTask, TrueRow
  <2> QED BY <1>4, <2>3
<1>6. UnderWay' \subseteq UnderWay
  <2>1. \A q \in Scans : Of(scan'[q].work.batch) \subseteq UnderWay
    BY <1>2, WhereItems
  <2>2. \A j \in Jobs : Posted(outbox'[j]) \subseteq UnderWay
    BY <1>2, WhereItems
  <2>3. \A g \in Slots : Of(hash'[g].batch) \subseteq UnderWay
    BY <1>4, EmptyItems, WhereItems
  <2>4. Of(applying') \subseteq UnderWay
    BY <1>2, WhereItems
  <2> QED BY <2>1, <2>2, <2>3, <2>4, NewItems
<1>7. Walks' = Walks /\ \A f \in Tasks' : f \in Tasks \/ f \in hash'[h].todo
  BY <1>2, <1>4 DEF Tasks, Walks
<1>8. ASSUME NEW g \in Slots PROVE PassOK(g)'
  <2>1. CASE g = h
    <3>1. outbox'[HashJob(h)] = <<>>
      BY <1>2 DEF BytesInvariant, PassOK
    <3> QED BY <1>4, <2>1, <3>1 DEF PassOK
  <2>2. CASE g # h
    BY <1>2, <1>4, <2>2, PassKept DEF BytesInvariant
  <2> QED BY <2>1, <2>2
<1>9. \A t \in {rows, Committed} :
        /\ \A item \in UnderWay' : item \in UnderWay \/ TrueItem(item, t, disk, Clean)
        /\ \A f \in Tasks' : f \in Tasks \/ TrueTask(f, t, disk, Clean)
        /\ \A w \in Walks' : w \in Walks \/ TrueWalk(w, t, disk, Clean)
  BY <1>3, <1>5, <1>6, <1>7
<1> QED BY <1>2, <1>3, <1>8, <1>9, BytesGrow

-----------------------------------------------------------------------------
(* Messages, rollbacks, and the end of the process.                        *)

\* A message is taken off the box of job j.
LEMMA Popped ==
  ASSUME IndexInvariant, NEW j \in Jobs, outbox[j] # <<>>, Pop(j)
  PROVE  /\ outbox'[j] = Tail(outbox[j]) /\ \A i \in Jobs : i # j => outbox'[i] = outbox[i]
         /\ \A i \in Jobs : Posted(outbox'[i]) \subseteq UnderWay
         /\ Head(outbox[j]).type = "batch" => Of(Head(outbox[j]).items) \subseteq UnderWay
<1>1. /\ outbox'[j] = Tail(outbox[j]) /\ \A i \in Jobs : i # j => outbox'[i] = outbox[i]
      /\ outbox[j] \in Seq(MessagesOf(j.type, DOMAIN Committed))
  BY DEF Pop, IndexInvariant, FlowIn, OutboxIn
<1>2. /\ Posted(Tail(outbox[j])) \subseteq Posted(outbox[j])
      /\ Head(outbox[j]).type = "batch" => Of(Head(outbox[j]).items) \subseteq Posted(outbox[j])
  BY <1>1, TakenItems
<1> QED BY <1>1, <1>2, WhereItems

\* A batch that is taken leaves a pass as it is, the last message leaves it idle.
LEMMA PassPopped ==
  ASSUME IndexInvariant, NEW h \in Slots, PassOK(h), outbox[HashJob(h)] # <<>>,
         outbox'[HashJob(h)] = Tail(outbox[HashJob(h)]),
         IF Head(outbox[HashJob(h)]).type = "batch" THEN hash'[h] = hash[h]
                                                    ELSE hash'[h] = IdleHash
  PROVE  PassOK(h)'
<1> DEFINE box == outbox[HashJob(h)]
           n == Len(box)
<1>1. box \in Seq(MessagesOf("hash", DOMAIN Committed)) /\ hash[h] \in HashOf(DOMAIN Committed)
  BY PassTypes
<1>2. /\ n \in Nat \ {0} /\ DOMAIN box = 1..n /\ Head(box) = box[1]
      /\ Len(Tail(box)) = n - 1 /\ DOMAIN Tail(box) = 1..(n - 1)
      /\ \A m \in 1..(n - 1) : Tail(box)[m] = box[m + 1]
  BY <1>1, HeadTailProperties, LenProperties, EmptySeq
<1>3. hash[h].status \in {"running", "ended"}
  BY <1>1 DEF PassOK, HashOf
<1> HIDE DEF n
<1>4. CASE Head(box).type = "batch"
  <2>1. CASE hash[h].status = "running"
    <3>1. \A m \in DOMAIN Tail(box) : Tail(box)[m].type = "batch"
      BY <1>2, <2>1 DEF PassOK
    <3> QED BY <1>4, <2>1, <3>1 DEF PassOK
  <2>2. CASE hash[h].status = "ended"
    <3>1. /\ box[n].type # "batch" /\ n # 1
          /\ \A m \in DOMAIN box : m # n => box[m].type = "batch"
      BY <1>2, <1>4, <2>2 DEF PassOK, n
    <3>2. Tail(box) # <<>> /\ Tail(box)[n - 1] = box[n]
      BY <1>2, <3>1
    <3>3. \A m \in DOMAIN Tail(box) : m # n - 1 => Tail(box)[m].type = "batch"
      BY <1>2, <3>1
    <3> QED BY <1>2, <1>4, <2>2, <3>1, <3>2, <3>3 DEF PassOK
  <2> QED BY <1>3, <2>1, <2>2
<1>5. CASE Head(box).type # "batch"
  <2>1. hash[h].status = "ended" /\ n = 1
    <3>1. 1 \in DOMAIN box /\ box[1].type # "batch"
      BY <1>2, <1>5
    <3>2. hash[h].status # "running"
      BY <3>1 DEF PassOK
    <3>3. \A m \in DOMAIN box : m # n => box[m].type = "batch"
      BY <1>3, <3>2 DEF PassOK, n
    <3> QED BY <1>3, <3>1, <3>2, <3>3
  <2>2. Tail(box) = <<>>
    BY <1>1, <1>2, <2>1
  <2> QED BY <1>5, <2>2 DEF PassOK, IdleHash
<1> QED BY <1>4, <1>5

\* A batch becomes a transaction, and what it holds is what it was.
LEMMA TakeBatchIsTrue ==
  ASSUME IndexInvariant, BytesInvariant, NEW j \in Jobs, TakeBatch(j)
  PROVE  BytesInvariant'
<1>1. /\ applying = <<>> /\ outbox[j] # <<>> /\ Head(outbox[j]).type = "batch" /\ Pop(j)
      /\ applying' = Head(outbox[j]).items /\ savedRows' = rows
      /\ UNCHANGED <<disk, rows, scan, hash, racy>>
  BY DEF TakeBatch, Arrives, AtRest, history
<1>2. Committed = rows /\ rows' = rows /\ Committed' = rows
  BY <1>1 DEF Committed
<1>3. UnderWay' \subseteq UnderWay
  BY <1>1, Popped, WhereItems, NewItems
<1>4. Tasks' = Tasks /\ Walks' = Walks
  BY <1>1 DEF Tasks, Walks
<1>5. ASSUME NEW h \in Slots PROVE PassOK(h)'
  <2>1. CASE j = HashJob(h)
    BY <1>1, <2>1, Popped, PassPopped DEF BytesInvariant
  <2>2. CASE j # HashJob(h)
    BY <1>1, <2>2, JobTypes, Popped, PassKept DEF BytesInvariant
  <2> QED BY <2>1, <2>2
<1> QED BY <1>1, <1>2, <1>3, <1>4, <1>5, BytesGrow

\* A final message says nothing of the bytes.
LEMMA EndIsTrue ==
  ASSUME IndexInvariant, ScanInvariant, BytesInvariant, NEW j \in Jobs,
         \/ j.type = "scan" /\ ScanDone(j.id)
         \/ j.type = "hash" /\ HashDone(j.id)
         \/ JobStopped(j)
  PROVE  BytesInvariant'
<1>1. /\ applying = <<>> /\ outbox[j] # <<>> /\ Head(outbox[j]).type # "batch" /\ Pop(j)
      /\ UNCHANGED <<disk, rows, txVars, racy>>
      /\ j.type = "hash" => hash' = [hash EXCEPT ![j.id] = IdleHash]
      /\ j.type # "hash" => hash' = hash
      /\ j.type = "scan" => scan' = [scan EXCEPT ![j.id].status = "over"]
      /\ j.type # "scan" => scan' = scan
  BY JobTypes DEF ScanDone, HashDone, JobStopped, Arrives, AtRest, history
<1>2. Committed = rows /\ rows' = rows /\ Committed' = rows /\ applying' = applying
  BY <1>1, RestingTables DEF txVars
<1>3. \A s \in Scans : scan'[s].work = scan[s].work
  <2>1. scan \in [Scans -> ScanOf(DOMAIN Committed)]
    BY DEF IndexInvariant, FlowIn, ScansIn
  <2>2. \A s \in Scans : [scan[s] EXCEPT !.status = "over"].work = scan[s].work
    BY WorkTypes DEF ScanOf
  <2>3. scan' = scan \/ \E q \in Scans : scan' = [scan EXCEPT ![q].status = "over"]
    BY <1>1, JobTypes
  <2> QED BY <2>1, <2>2, <2>3
<1>4. \A h \in Slots : hash'[h] = IF j = HashJob(h) THEN IdleHash ELSE hash[h]
  BY <1>1, JobTypes DEF IndexInvariant, FlowIn, HashesIn
<1>5. UnderWay' \subseteq UnderWay
  <2>1. \A i \in Jobs : Posted(outbox'[i]) \subseteq UnderWay
    BY <1>1, Popped
  <2>2. \A h \in Slots : Of(hash'[h].batch) \subseteq UnderWay
    BY <1>4, EmptyItems, WhereItems DEF IdleHash
  <2>3. Of(applying') \subseteq UnderWay /\ \A s \in Scans : Of(scan'[s].work.batch) \subseteq UnderWay
    BY <1>2, <1>3, WhereItems
  <2> QED BY <2>1, <2>2, <2>3, NewItems
<1>6. Tasks' \subseteq Tasks
  <2>1. \A h \in Slots : hash'[h].todo \subseteq hash[h].todo
    BY <1>4 DEF IdleHash
  <2> QED BY <2>1 DEF Tasks
<1>7. Walks' = Walks
  BY <1>3 DEF Walks
<1>8. ASSUME NEW h \in Slots PROVE PassOK(h)'
  <2>1. CASE j = HashJob(h)
    BY <1>1, <1>4, <2>1, Popped, PassPopped DEF BytesInvariant
  <2>2. CASE j # HashJob(h)
    BY <1>1, <1>4, <2>2, JobTypes, Popped, PassKept DEF BytesInvariant
  <2> QED BY <2>1, <2>2
<1> QED BY <1>1, <1>2, <1>5, <1>6, <1>7, <1>8, BytesGrow

\* What is rolled back was known.
LEMMA AbortIsTrue ==
  ASSUME IndexInvariant, BytesInvariant, AbortBatch
  PROVE  BytesInvariant'
<1>1. /\ applying # <<>> /\ rows' = savedRows /\ applying' = <<>>
      /\ UNCHANGED <<disk, scan, hash, outbox, racy>>
  BY DEF AbortBatch, Arriving, history
<1>2. Committed = savedRows /\ rows' = Committed /\ Committed' = Committed
  BY <1>1 DEF Committed
<1>3. UnderWay' \subseteq UnderWay
  BY <1>1, EmptyItems, WhereItems, NewItems
<1>4. Tasks' = Tasks /\ Walks' = Walks
  BY <1>1 DEF Tasks, Walks
<1>5. \A h \in Slots : PassOK(h)'
  BY <1>1, PassKept DEF BytesInvariant
<1> QED BY <1>1, <1>2, <1>3, <1>4, <1>5, BytesGrow

\* What survives the process was known, and nothing else is left.
LEMMA DeathIsTrue ==
  ASSUME IndexInvariant, ScanInvariant, BytesInvariant, ProcessDies
  PROVE  BytesInvariant'
<1>1. /\ rows' = Committed /\ applying' = <<>>
      /\ scan' = [s \in Scans |-> Requeued(s)]
      /\ hash' = [h \in Slots |-> IdleHash]
      /\ outbox' = [j \in Jobs |-> <<>>]
      /\ UNCHANGED <<disk, racy>>
  BY DEF ProcessDies, history
<1>2. Committed' = Committed
  BY <1>1 DEF Committed
<1>3. \A s \in Scans : scan'[s].work = NoWork
  <2>1. ASSUME NEW s \in Scans PROVE Requeued(s).work = NoWork
    <3>1. LocalOK(s) /\ scan[s] \in ScanOf(DOMAIN Committed)
      BY WorkTypes DEF ScanInvariant
    <3> QED BY <3>1 DEF Requeued, HoldsSlot, LocalOK, ScanOf
  <2> QED BY <1>1, <2>1
<1>4. \A h \in Slots : hash'[h] = IdleHash /\ outbox'[HashJob(h)] = <<>>
  BY <1>1, JobTypes
<1>5. UnderWay' \subseteq UnderWay
  <2>1. \A s \in Scans : Of(scan'[s].work.batch) = {}
    BY <1>3, EmptyItems DEF NoWork
  <2>2. \A h \in Slots : Of(hash'[h].batch) = {}
    BY <1>4, EmptyItems DEF IdleHash
  <2>3. Of(applying') = {} /\ \A j \in Jobs : Posted(outbox'[j]) = {}
    BY <1>1, EmptyItems
  <2> QED BY <2>1, <2>2, <2>3, NewItems
<1>6. Tasks' = {}
  BY <1>4 DEF Tasks, IdleHash
<1>7. \A w \in Walks' : w = NoWork
  BY <1>3 DEF Walks
<1>8. \A t : TrueWalk(NoWork, t, disk, Clean)
  BY NoneIsNoPlace DEF TrueWalk, NoWork, Clean
<1>9. \A h \in Slots : PassOK(h)'
  BY <1>4 DEF PassOK, IdleHash
<1>10. \A t \in {rows, Committed} :
         /\ \A item \in UnderWay' : item \in UnderWay \/ TrueItem(item, t, disk, Clean)
         /\ \A f \in Tasks' : f \in Tasks \/ TrueTask(f, t, disk, Clean)
         /\ \A w \in Walks' : w \in Walks \/ TrueWalk(w, t, disk, Clean)
  BY <1>5, <1>6, <1>7, <1>8
<1> QED BY <1>1, <1>2, <1>9, <1>10, BytesGrow

\* A change of the disk: where somebody is at work it is no longer clean, and where
\* nobody is, a row that has its hash speaks of its own stat only, which is not the
\* new one of the file.
LEMMA DiskIsTrue ==
  ASSUME IndexInvariant, ScanInvariant, BytesInvariant, DiskChanges
  PROVE  BytesInvariant'
<1>1. PICK ps \in SUBSET Places : \E kind : /\ Changed(kind, ps)
                                            /\ \A p \in Places \ ps : disk'[p] = disk[p]
  BY DiskPlaces
<1>2. /\ AtRest /\ applying = <<>>
      /\ racy' = racy \cup {p \in ps : Races(p)}
      /\ UNCHANGED <<rows, scan, hash, outbox, applying, savedRows>>
  BY <1>1 DEF Changed, txVars, AtRest
<1>3. Committed = rows /\ rows' = rows /\ Committed' = rows
  BY <1>2 DEF Committed
<1>4. /\ UnderWay' = UnderWay /\ Tasks' = Tasks /\ Walks' = Walks
      /\ \A h \in Slots : PassOK(h)'
  <2>1. UnderWay' = UnderWay
    BY <1>2 DEF UnderWay, AllPosted, AllFound, AllHashed, Posted, Batches, Of
  <2>2. Tasks' = Tasks /\ Walks' = Walks
    BY <1>2 DEF Tasks, Walks
  <2>3. \A h \in Slots : PassOK(h)'
    BY <1>2, PassKept DEF BytesInvariant
  <2> QED BY <2>1, <2>2, <2>3
<1>5. Known(rows, UnderWay, Tasks, Walks, disk, Clean) /\ Clean' \subseteq Clean
  BY <1>2 DEF BytesInvariant, KnownNow, Clean
<1>6. Known(rows, UnderWay, Tasks, Walks, disk', Clean')
  <2>1. CASE SomeoneWorks
    <3>1. \A p \in Clean' : disk'[p] = disk[p]
      BY <1>1, <1>2, <2>1 DEF Clean, Races
    <3> QED BY <1>5, <3>1, KnownElsewhere
  <2>2. CASE ~SomeoneWorks
    <3>1. /\ \A s \in Scans : outbox[ScanJob(s)] = <<>> /\ scan[s].work = NoWork
          /\ \A h \in Slots : /\ outbox[HashJob(h)] = <<>>
                              /\ hash[h].todo = {} /\ hash[h].batch = <<>>
      <4>1. ASSUME NEW s \in Scans PROVE outbox[ScanJob(s)] = <<>> /\ scan[s].work = NoWork
        <5>1. LocalOK(s) /\ scan[s].status \in {"new", "queued", "running", "ended", "over"}
          BY WorkTypes DEF ScanInvariant, ScanOf
        <5>2. scan[s].status \in {"new", "over"}
          BY <2>2, <5>1 DEF SomeoneWorks, Active, HoldsSlot
        <5> QED BY <5>1, <5>2 DEF LocalOK, Box
      <4>2. ASSUME NEW h \in Slots
            PROVE  /\ outbox[HashJob(h)] = <<>>
                   /\ hash[h].todo = {} /\ hash[h].batch = <<>>
        <5>1. hash[h].status = "idle" /\ PassOK(h)
          BY <2>2 DEF SomeoneWorks, BytesInvariant
        <5> QED BY <5>1 DEF PassOK
      <4> QED BY <4>1, <4>2
    <3>2. UnderWay = {}
      <4>1. \A j \in Jobs : Posted(outbox[j]) = {}
        BY <3>1, JobTypes, EmptyItems
      <4>2. \A s \in Scans : Of(scan[s].work.batch) = {}
        BY <3>1, EmptyItems DEF NoWork
      <4>3. \A h \in Slots : Of(hash[h].batch) = {}
        BY <3>1, EmptyItems
      <4>4. AllPosted = {}
        BY <4>1 DEF AllPosted
      <4>5. AllFound = {}
        BY <4>2 DEF AllFound
      <4>6. AllHashed = {}
        BY <4>3 DEF AllHashed
      <4> QED BY <1>2, <4>4, <4>5, <4>6, EmptyItems DEF UnderWay
    <3>3. Tasks = {}
      BY <3>1 DEF Tasks
    <3>4. \A w \in Walks : TrueWalk(w, rows, disk', Clean')
      <4>1. \A w \in Walks : w = NoWork
        BY <3>1 DEF Walks
      <4>2. TrueWalk(NoWork, rows, disk', Clean')
        BY NoneIsNoPlace DEF TrueWalk, NoWork, Clean
      <4> QED BY <4>1, <4>2
    <3>5. ASSUME NEW r \in DOMAIN rows, rows[r].place \in Clean'
          PROVE  TrueRow(rows[r], disk')
      <4>1. TrueRow(rows[r], disk)
        BY <1>5, <3>5 DEF Known
      <4>2. rows[r].place \in ps => ~(rows[r].status = "present" /\ rows[r].sha256 = None)
        BY <1>2, <3>5 DEF Clean, Races, IsAt, Unhashed
      <4>3. rows[r].place \notin ps => disk'[rows[r].place] = disk[rows[r].place]
        BY <1>1, <3>5 DEF Clean
      <4>4. rows[r].place \in ps =>
              \/ disk'[rows[r].place] \in {None, rows[r].stat}
              \/ Stat[rows[r].stat] # Stat[disk'[rows[r].place]]
        BY <1>2, <3>5 DEF Clean, Races, Unnoticed, IsAt
      <4> QED BY <4>1, <4>2, <4>3, <4>4 DEF TrueRow
    <3> QED BY <3>2, <3>3, <3>4, <3>5 DEF Known
  <2> QED BY <2>1, <2>2
<1>7. \A t \in {rows', Committed'} : Known(t, UnderWay', Tasks', Walks', disk', Clean')
  BY <1>3, <1>4, <1>6
<1> QED BY <1>4, <1>7 DEF BytesInvariant, KnownNow

\* No step, no change.
LEMMA StutterIsTrue ==
  ASSUME BytesInvariant, UNCHANGED vars
  PROVE  BytesInvariant'
<1>1. UNCHANGED <<disk, rows, scan, hash, outbox, applying, savedRows, racy>>
  BY DEF vars, txVars, history
<1>2. UnderWay' = UnderWay
  BY <1>1 DEF UnderWay, AllPosted, AllFound, AllHashed, Posted, Batches, Of
<1>3. Tasks' = Tasks /\ Walks' = Walks /\ Committed' = Committed
  BY <1>1 DEF Tasks, Walks, Committed
<1>4. \A h \in Slots : PassOK(h)'
  BY <1>1, PassKept DEF BytesInvariant
<1> QED BY <1>1, <1>2, <1>3, <1>4, BytesGrow

-----------------------------------------------------------------------------
(* Writes.                                                                 *)

\* A write that leaves a row at a clean place true, on what was known to be.
LEMMA WriteIsTrue ==
  ASSUME IndexInvariant, BytesInvariant, applying # <<>>, NEW table, Writes(table),
         racy \subseteq racy', TrueRows(rows, table, disk, Places \ racy'),
         TrueMoves(rows, table, Tasks, disk, Clean, Places \ racy')
  PROVE  BytesInvariant'
<1>1. /\ rows' = table /\ applying' = Tail(applying)
      /\ UNCHANGED <<disk, scan, hash, outbox>>
      /\ Committed' \in {rows', Committed}
  BY DEF Writes, Committed
<1>2. UnderWay' \subseteq UnderWay
  <2>1. Of(Tail(applying)) \subseteq Of(applying)
    <3>1. applying \in Seq(ItemsOf(TxType, DOMAIN Committed))
      BY DEF IndexInvariant, FlowIn, ApplyingIn
    <3>2. /\ Len(applying) \in Nat /\ DOMAIN applying = 1..Len(applying)
          /\ DOMAIN Tail(applying) = 1..(Len(applying) - 1)
          /\ \A i \in 1..(Len(applying) - 1) : Tail(applying)[i] = applying[i + 1]
      BY <3>1, HeadTailProperties, LenProperties, EmptySeq
    <3>3. \A i \in DOMAIN Tail(applying) :
            i + 1 \in DOMAIN applying /\ Tail(applying)[i] = applying[i + 1]
      BY <3>2
    <3> QED BY <3>3 DEF Of
  <2> QED BY <1>1, <2>1, WhereItems, NewItems
<1>3. Tasks' = Tasks /\ Walks' = Walks
  BY <1>1 DEF Tasks, Walks
<1>4. \A h \in Slots : PassOK(h)'
  BY <1>1, PassKept DEF BytesInvariant
<1>5. Clean' \subseteq Clean /\ Clean' = Places \ racy'
  BY DEF Clean
<1>6. ASSUME NEW t, Known(t, UnderWay, Tasks, Walks, disk, Clean')
      PROVE  Known(t, UnderWay', Tasks', Walks', disk', Clean')
  BY <1>1, <1>2, <1>3, <1>6, KnownGrows
<1>7. Known(table, UnderWay, Tasks, Walks, disk, Clean')
  <2>1. Known(rows, UnderWay, Tasks, Walks, disk, Clean)
    BY DEF BytesInvariant, KnownNow
  <2>2. TrueRows(rows, table, disk, Clean') /\ TrueMoves(rows, table, Tasks, disk, Clean, Clean')
    BY <1>5
  <2> QED BY <1>5, <2>1, <2>2, KnownWritten
<1>8. Known(Committed, UnderWay, Tasks, Walks, disk, Clean')
  <2>1. Known(Committed, UnderWay, Tasks, Walks, disk, Clean)
    BY DEF BytesInvariant, KnownNow
  <2> QED BY <1>5, <2>1, KnownGrows
<1>9. \A t \in {rows', Committed'} : Known(t, UnderWay', Tasks', Walks', disk', Clean')
  BY <1>1, <1>6, <1>7, <1>8
<1> QED BY <1>4, <1>9 DEF BytesInvariant, KnownNow

\* The item at hand is under way, and so true.
LEMMA ItemIsTrue ==
  ASSUME IndexInvariant, BytesInvariant, applying # <<>>
  PROVE  TrueItem(Item, rows, disk, Clean)
<1>1. 1 \in DOMAIN applying /\ applying[1] = Item
  <2>1. applying \in Seq(ItemsOf(TxType, DOMAIN Committed))
    BY DEF IndexInvariant, FlowIn, ApplyingIn
  <2> QED BY <2>1, LenProperties, EmptySeq DEF Item
<1>2. Item \in UnderWay
  BY <1>1, WhereItems DEF Of
<1> QED BY <1>2 DEF BytesInvariant, KnownNow, Known

\* What is known of the rows.
LEMMA RowsAreTrue ==
  ASSUME BytesInvariant
  PROVE  \A r \in DOMAIN rows : rows[r].place \in Clean => TrueRow(rows[r], disk)
BY DEF BytesInvariant, KnownNow, Known

\* A sweep changes the status of rows only, and makes none present.
LEMMA SweepIsTrue ==
  ASSUME IndexInvariant, BytesInvariant, Sweep
  PROVE  BytesInvariant'
<1> DEFINE table == MarkMissing(rows, scan[sweeping].folder, scan[sweeping].startedAt)
<1>1. /\ applying = <<>> /\ applying' = <<>> /\ rows' = table
      /\ UNCHANGED <<disk, scan, hash, outbox, racy>>
  BY DEF Sweep, txVars, history
<1>2. rows \in Seq(Rows)
  BY DEF IndexInvariant, Tables, SoundTable
<1>3. /\ DOMAIN table = DOMAIN rows
      /\ \A r \in DOMAIN rows :
           /\ table[r].place = rows[r].place /\ table[r].stat = rows[r].stat
           /\ table[r].sha256 = rows[r].sha256 /\ table[r].frame = rows[r].frame
           /\ table[r].parseError = rows[r].parseError
           /\ table[r].status = "missing" \/ table[r] = rows[r]
  <2> DEFINE f == scan[sweeping].folder
             at == scan[sweeping].startedAt
  <2> HIDE DEF f, at
  <2>1. LET u == MarkMissing(rows, f, at)
        IN /\ DOMAIN u = DOMAIN rows
           /\ \A r \in DOMAIN rows :
                /\ u[r].place = rows[r].place /\ u[r].stat = rows[r].stat
                /\ u[r].sha256 = rows[r].sha256 /\ u[r].frame = rows[r].frame
                /\ u[r].parseError = rows[r].parseError
                /\ u[r].status = "missing" \/ u[r] = rows[r]
    BY <1>2, MissingRows
  <2> QED BY <2>1 DEF f, at
<1> HIDE DEF table
<1>4. Committed' = table
  BY <1>1 DEF Committed
<1>5. TrueRows(rows, table, disk, Clean) /\ TrueMoves(rows, table, Tasks, disk, Clean, Clean)
  <2>1. ASSUME NEW r \in DOMAIN table, table[r].place \in Clean
        PROVE  TrueRow(table[r], disk) /\ table[r].stat = rows[r].stat
    <3>1. TrueRow(rows[r], disk)
      BY <1>3, <2>1, RowsAreTrue
    <3> QED BY <1>3, <2>1, <3>1 DEF TrueRow
  <2> QED BY <1>3, <2>1 DEF TrueRows, TrueMoves
<1>6. Known(table, UnderWay, Tasks, Walks, disk, Clean)
  <2>1. Known(rows, UnderWay, Tasks, Walks, disk, Clean)
    BY DEF BytesInvariant, KnownNow
  <2> QED BY <1>5, <2>1, KnownWritten
<1>7. /\ UnderWay' = UnderWay /\ Tasks' = Tasks /\ Walks' = Walks /\ Clean' = Clean
      /\ \A h \in Slots : PassOK(h)'
  <2>1. UnderWay' = UnderWay
    BY <1>1 DEF UnderWay, AllPosted, AllFound, AllHashed, Posted, Batches, Of
  <2>2. Tasks' = Tasks /\ Walks' = Walks /\ Clean' = Clean
    BY <1>1 DEF Tasks, Walks, Clean
  <2>3. \A h \in Slots : PassOK(h)'
    BY <1>1, PassKept DEF BytesInvariant
  <2> QED BY <2>1, <2>2, <2>3
<1>8. \A t \in {rows', Committed'} : Known(t, UnderWay', Tasks', Walks', disk', Clean')
  BY <1>1, <1>4, <1>6, <1>7
<1> QED BY <1>7, <1>8 DEF BytesInvariant, KnownNow

\* The row of a place where a file is seen.
LEMMA UpsertedRow ==
  ASSUME NEW t, SoundTable(t), NEW p \in Places, NEW c \in Contents, NEW at \in Nat,
         NEW r \in DOMAIN UpsertDiscovered(t, p, c, at),
         UpsertDiscovered(t, p, c, at)[r].place = p
  PROVE  LET row == UpsertDiscovered(t, p, c, at)[r]
         IN /\ row.stat = c
            /\ \/ /\ r \in DOMAIN t /\ t[r].place = p
                  /\ row.frame = t[r].frame /\ row.parseError = t[r].parseError
                  /\ row.sha256 = IF Stat[t[r].stat] = Stat[c] THEN t[r].sha256 ELSE None
               \/ row.sha256 = None /\ row.frame = None
<1> DEFINE u == UpsertDiscovered(t, p, c, at)
<1>1. t \in Seq(Rows) /\ PlacesDistinct(t)
  BY DEF SoundTable
<1>2. CASE Indexed(t, p)
  <2> DEFINE q == RowAt(t, p)
  <2>1. q \in DOMAIN t /\ t[q].place = p /\ t[q] \in Rows
    BY <1>1, <1>2, RowAtIsAt, TableTypes
  <2>2. u = [t EXCEPT ![q] = SeenAgain(t[q], c, at)]
    BY <1>2 DEF UpsertDiscovered
  <2> HIDE DEF q, u
  <2>3. r = q /\ u[r] = SeenAgain(t[q], c, at)
    BY <1>1, <2>1, <2>2 DEF PlacesDistinct, u
  <2>4. LET row == SeenAgain(t[q], c, at)
        IN /\ row.stat = c /\ row.frame = t[q].frame /\ row.parseError = t[q].parseError
           /\ row.sha256 = IF Stat[t[q].stat] = Stat[c] THEN t[q].sha256 ELSE None
    BY <2>1 DEF SeenAgain, Rows
  <2> QED BY <2>1, <2>3, <2>4 DEF u
<1>3. CASE ~Indexed(t, p)
  <2> DEFINE new == NewRow(p, c, at)
  <2>1. new.stat = c /\ new.sha256 = None /\ new.frame = None /\ new \in Rows
    BY DEF NewRow, Rows, Statuses, NoRow
  <2>2. u = Append(t, new)
    BY <1>3 DEF UpsertDiscovered
  <2> HIDE DEF u, new
  <2>3. /\ u[Len(t) + 1] = new /\ DOMAIN t = 1..Len(t)
        /\ DOMAIN u = 1..(Len(t) + 1) /\ Len(t) \in Nat
        /\ \A i \in 1..Len(t) : u[i] = t[i]
    BY <1>1, <2>1, <2>2, AppendProperties, LenProperties
  <2>4. r = Len(t) + 1
    BY <1>3, <2>3 DEF Indexed, IsAt, u
  <2> QED BY <2>1, <2>3, <2>4 DEF u
<1> QED BY <1>2, <1>3

\* The row of a place of which the header was read, or was not.
LEMMA RecordedRow ==
  ASSUME NEW t, SoundTable(t), NEW p, Indexed(t, p), NEW d
  PROVE  /\ LET u == RecordFrame(t, p, d)
            IN /\ DOMAIN u = DOMAIN t
               /\ \A r \in DOMAIN t : /\ u[r].place = t[r].place /\ u[r].stat = t[r].stat
                                      /\ u[r].sha256 = t[r].sha256
                                      /\ t[r].place = p => u[r].frame = d
         /\ LET u == RecordParseError(t, p)
            IN /\ DOMAIN u = DOMAIN t
               /\ \A r \in DOMAIN t : /\ u[r].place = t[r].place /\ u[r].stat = t[r].stat
                                      /\ u[r].sha256 = t[r].sha256
                                      /\ t[r].place = p => u[r].parseError
<1> DEFINE q == RowAt(t, p)
<1>1. /\ q \in DOMAIN t /\ t[q].place = p /\ t[q] \in Rows
      /\ \A r \in DOMAIN t : t[r].place = p => r = q
  BY RowAtIsAt, TableTypes DEF SoundTable, PlacesDistinct
<1>2. RecordFrame(t, p, d) = [t EXCEPT ![q] = [t[q] EXCEPT !.frame = d, !.parseError = FALSE]]
  BY <1>1, TableTypes DEF RecordFrame, SoundTable
<1>3. RecordParseError(t, p) = [t EXCEPT ![q] = [t[q] EXCEPT !.parseError = TRUE]]
  BY DEF RecordParseError
<1> DEFINE a == [t[q] EXCEPT !.frame = d, !.parseError = FALSE]
           b == [t[q] EXCEPT !.parseError = TRUE]
<1>4. /\ a.place = t[q].place /\ a.stat = t[q].stat /\ a.sha256 = t[q].sha256 /\ a.frame = d
      /\ b.place = t[q].place /\ b.stat = t[q].stat /\ b.sha256 = t[q].sha256 /\ b.parseError
  BY <1>1 DEF Rows
<1> HIDE DEF q, a, b
<1>5. LET u == [t EXCEPT ![q] = a]
      IN /\ DOMAIN u = DOMAIN t
         /\ \A r \in DOMAIN t : /\ u[r].place = t[r].place /\ u[r].stat = t[r].stat
                                /\ u[r].sha256 = t[r].sha256
                                /\ t[r].place = p => u[r].frame = d
  BY <1>1, <1>4
<1>6. LET u == [t EXCEPT ![q] = b]
      IN /\ DOMAIN u = DOMAIN t
         /\ \A r \in DOMAIN t : /\ u[r].place = t[r].place /\ u[r].stat = t[r].stat
                                /\ u[r].sha256 = t[r].sha256
                                /\ t[r].place = p => u[r].parseError
  BY <1>1, <1>4
<1> QED BY <1>2, <1>3, <1>5, <1>6 DEF a, b

\* A hash goes to its row, and what it makes of the other rows of its group
\* concerns their status only.
LEMMA HashedRows ==
  ASSUME NEW t, SoundTable(t), NEW r \in DOMAIN t, NEW h \in Digests
  PROVE  LET u == RecordHash(t, r, h)
         IN /\ DOMAIN u = DOMAIN t
            /\ \A q \in DOMAIN t :
                 /\ u[q].place = t[q].place /\ u[q].stat = t[q].stat
                 /\ u[q].frame = t[q].frame /\ u[q].parseError = t[q].parseError
                 /\ u[q].sha256 = IF q = r THEN h ELSE t[q].sha256
                 /\ u[q] = t[q] \/ u[q].sha256 = h
<1> DEFINE u == RecordHash(t, r, h)
           group == HashGroup(t, r, h)
           first == Canonical(t, group)
<1>1. DOMAIN u = DOMAIN t
  BY DEF RecordHash
<1>2. \A q \in DOMAIN t :
        \/ q \notin group /\ u[q] = t[q]
        \/ /\ q = first
           /\ u[q] = [t[q] EXCEPT !.sha256 = h, !.status = "present", !.duplicateOf = NoRow]
        \/ /\ q \in group \ {first}
           /\ u[q] = [t[q] EXCEPT !.sha256 = h, !.status = "duplicate", !.duplicateOf = first]
  BY DEF RecordHash
<1>3. r \in group /\ group \in SUBSET DOMAIN t /\ \A q \in group : q = r \/ t[q].sha256 = h
  BY DEF HashGroup
<1> HIDE DEF u, group
<1>4. first \in group
  BY <1>3, CanonicalIsOldest DEF SoundTable
<1> HIDE DEF first
<1>5. ASSUME NEW q \in DOMAIN t
      PROVE  /\ u[q].place = t[q].place /\ u[q].stat = t[q].stat
             /\ u[q].frame = t[q].frame /\ u[q].parseError = t[q].parseError
             /\ u[q].sha256 = IF q = r THEN h ELSE t[q].sha256
             /\ u[q] = t[q] \/ u[q].sha256 = h
  <2>1. t[q] \in Rows
    BY TableTypes DEF SoundTable
  <2>2. CASE q \notin group
    BY <1>2, <1>3, <1>4, <2>2
  <2>3. CASE q \in group
    <3>1. PICK status, link :
            u[q] = [t[q] EXCEPT !.sha256 = h, !.status = status, !.duplicateOf = link]
      BY <1>2, <2>3
    <3> QED BY <1>3, <2>1, <2>3, <3>1 DEF Rows
  <2> QED BY <2>2, <2>3
<1> QED BY <1>1, <1>5 DEF u

\* The file that a scan has found, at a clean place, is still there.
LEMMA DiscoveredIsTrue ==
  ASSUME IndexInvariant, BytesInvariant, WriteDiscovered
  PROVE  BytesInvariant'
<1> DEFINE p == Item.place
           t == UpsertDiscovered(rows, p, Item.stat, SeenAt)
<1>1. PICK table : /\ Write(table) /\ SoundTable(table)
                   /\ ChangesOnly(rows, table, p) /\ KeepsPlaces(rows, table)
                   /\ SeenHere(table, p, Item.stat, SeenAt)
  BY DiscoveredTable
<1>2. /\ applying # <<>> /\ Item.kind \in FileKinds
      /\ Write(CASE Item.kind = "parsed" -> RecordFrame(t, p, Item.read)
                 [] Item.kind = "failed" -> RecordParseError(t, p)
                 [] OTHER -> t)
  BY DEF WriteDiscovered, Arriving, FellThrough, FileKinds
<1>3. table = CASE Item.kind = "parsed" -> RecordFrame(t, p, Item.read)
                [] Item.kind = "failed" -> RecordParseError(t, p)
                [] OTHER -> t
  BY <1>1, <1>2 DEF Write, Writes
<1>4. p \in Places /\ Item.stat \in Contents /\ SeenAt \in Nat
  BY <1>2, ItemTypes DEF FileKinds
<1>5. SoundTable(rows)
  BY DEF IndexInvariant, Tables
<1>6. SoundTable(t) /\ SeenHere(t, p, Item.stat, SeenAt) /\ KeepsPlaces(rows, t)
  BY <1>4, <1>5, UpsertSound
<1>7. Indexed(t, p)
  BY <1>6 DEF SeenHere, Indexed
<1>8. ASSUME NEW r \in DOMAIN t, t[r].place = p
      PROVE  /\ t[r].stat = Item.stat
             /\ \/ /\ r \in DOMAIN rows /\ rows[r].place = p
                   /\ t[r].frame = rows[r].frame /\ t[r].parseError = rows[r].parseError
                   /\ t[r].sha256 = IF Stat[rows[r].stat] = Stat[Item.stat]
                                    THEN rows[r].sha256 ELSE None
                \/ t[r].sha256 = None /\ t[r].frame = None
  BY <1>4, <1>5, <1>8, UpsertedRow
<1> HIDE DEF t
<1>9. ASSUME NEW r \in DOMAIN table, table[r].place = p
      PROVE  /\ r \in DOMAIN t /\ t[r].place = p
             /\ table[r].stat = t[r].stat /\ table[r].sha256 = t[r].sha256
             /\ \/ Item.kind = "parsed" /\ table[r].frame = Item.read
                \/ Item.kind = "failed" /\ table[r].parseError
                \/ Item.kind \in {"same", "moved"} /\ table[r] = t[r]
  <2>1. CASE Item.kind = "parsed"
    BY <1>3, <1>6, <1>7, <1>9, <2>1, RecordedRow
  <2>2. CASE Item.kind = "failed"
    BY <1>3, <1>6, <1>7, <1>9, <2>2, RecordedRow
  <2>3. CASE Item.kind \in {"same", "moved"}
    BY <1>3, <1>9, <2>3
  <2> QED BY <1>2, <2>1, <2>2, <2>3 DEF FileKinds
<1>10. p \in Clean => TrueFind(Item, rows, disk)
  BY <1>2, ItemIsTrue DEF TrueItem
<1>11. ASSUME NEW r \in DOMAIN table, table[r].place \in Clean
       PROVE  /\ TrueRow(table[r], disk)
              /\ \/ table[r].stat = disk[table[r].place]
                 \/ /\ r \in DOMAIN rows /\ rows[r].place = table[r].place
                    /\ rows[r].stat = table[r].stat
  <2>1. CASE table[r].place # p
    <3>1. r \in DOMAIN rows /\ table[r] = rows[r]
      BY <1>1, <2>1 DEF ChangesOnly
    <3> QED BY <1>11, <3>1, RowsAreTrue
  <2>2. CASE table[r].place = p
    <3>1. TrueFind(Item, rows, disk) /\ Item.stat = disk[p]
      BY <1>10, <1>11, <2>2 DEF TrueFind
    <3>2. /\ r \in DOMAIN t /\ t[r].place = p /\ t[r].stat = Item.stat
          /\ table[r].stat = t[r].stat /\ table[r].sha256 = t[r].sha256
      BY <1>8, <1>9, <2>2
    <3>3. table[r].sha256 \in {None, Digest[table[r].stat]}
      <4>1. CASE r \in DOMAIN rows /\ rows[r].place = p
        <5>1. TrueRow(rows[r], disk) /\ disk[p] # None
          BY <1>4, <1>11, <2>2, <3>1, <4>1, RowsAreTrue, IndexerAssumption
        <5>2. Stat[rows[r].stat] = Stat[Item.stat] => rows[r].stat = Item.stat
          BY <3>1, <4>1, <5>1 DEF TrueRow
        <5> QED BY <1>8, <3>2, <4>1, <5>1, <5>2 DEF TrueRow
      <4>2. CASE ~(r \in DOMAIN rows /\ rows[r].place = p)
        BY <1>8, <3>2, <4>2
      <4> QED BY <4>1, <4>2
    <3>4. \/ table[r].frame = None \/ table[r].parseError
          \/ Digest[table[r].frame] = Digest[table[r].stat]
      <4>1. CASE Item.kind = "parsed"
        <5>1. table[r].frame = Item.read
          BY <1>9, <2>2, <4>1
        <5> QED BY <3>1, <3>2, <4>1, <5>1 DEF TrueFind
      <4>2. CASE Item.kind = "failed"
        BY <1>9, <2>2, <4>2
      <4>3. CASE Item.kind \in {"same", "moved"}
        <5>1. table[r] = t[r] /\ Current(rows, p, disk)
          BY <1>9, <2>2, <3>1, <4>3 DEF TrueFind
        <5>2. CASE r \in DOMAIN rows /\ rows[r].place = p
          <6>1. TrueRow(rows[r], disk) /\ rows[r].stat = disk[p]
            BY <1>11, <2>2, <5>1, <5>2, RowsAreTrue DEF Current
          <6> QED BY <1>8, <3>1, <3>2, <5>1, <6>1 DEF TrueRow
        <5>3. CASE ~(r \in DOMAIN rows /\ rows[r].place = p)
          BY <1>8, <3>2, <5>1, <5>3
        <5> QED BY <5>2, <5>3
      <4> QED BY <1>2, <4>1, <4>2, <4>3 DEF FileKinds
    <3> QED BY <2>2, <3>1, <3>2, <3>3, <3>4 DEF TrueRow
  <2> QED BY <2>1, <2>2
<1>12. racy' = racy /\ Writes(table)
  BY <1>1 DEF Write
<1>13. TrueRows(rows, table, disk, Clean)
  BY <1>11 DEF TrueRows
<1>14. TrueMoves(rows, table, Tasks, disk, Clean, Clean)
  BY <1>1 DEF TrueMoves, KeepsPlaces
<1>15. Clean = Places \ racy' /\ racy \subseteq racy'
  BY <1>12 DEF Clean
<1> QED BY <1>2, <1>12, <1>13, <1>14, <1>15, WriteIsTrue

\* A row that moves to a place that stays clean is of the bytes found there.
LEMMA MovedIsTrue ==
  ASSUME IndexInvariant, BytesInvariant, WriteMoved
  PROVE  BytesInvariant'
<1> DEFINE q == Item.row
           p == Item.place
           h == Item.sha256
           moved == Reparent(rows, q, p, Item.stat, h, SeenAt)
           table == RecordHash(moved, q, h)
           clean == Places \ racy'
<1>1. /\ applying # <<>> /\ Item.kind = "moved" /\ Writes(table)
      /\ rows[q].status = "missing" /\ ~PathTaken(rows, q, p)
      /\ racy' = IF Doubtful(q, h) THEN racy \cup {p} ELSE racy
  BY DEF WriteMoved, Arriving, StillMissing
<1>2. /\ q \in DOMAIN rows /\ p \in Places /\ Item.stat \in Contents
      /\ h \in Digests /\ h # None /\ SeenAt \in Nat
  <2>1. None \notin Digests
    BY IndexerAssumption
  <2> QED BY <1>1, <2>1, ItemTypes
<1>3. SoundTable(rows) /\ rows[q] \in Rows
  BY <1>2, TableTypes DEF IndexInvariant, Tables, SoundTable
<1>4. SoundTable(moved) /\ DOMAIN moved = DOMAIN rows
  BY <1>1, <1>2, <1>3, ReparentSound
<1>5. /\ \A r \in DOMAIN rows : r # q => moved[r] = rows[r]
      /\ moved[q].place = p /\ moved[q].stat = Item.stat
      /\ moved[q].frame = rows[q].frame /\ moved[q].parseError = rows[q].parseError
  <2> DEFINE row == [rows[q] EXCEPT !.place = p, !.stat = Item.stat, !.sha256 = h,
                                    !.status = "present", !.lastSeenAt = SeenAt,
                                    !.duplicateOf = NoRow]
  <2>1. moved = [rows EXCEPT ![q] = row]
    BY <1>2, <1>3, TableTypes DEF Reparent, SoundTable
  <2>2. /\ row.place = p /\ row.stat = Item.stat
        /\ row.frame = rows[q].frame /\ row.parseError = rows[q].parseError
    BY <1>3 DEF Rows
  <2> HIDE DEF row, moved
  <2> QED BY <1>2, <2>1, <2>2
<1> HIDE DEF moved
<1>6. /\ DOMAIN table = DOMAIN moved
      /\ \A r \in DOMAIN moved :
           /\ table[r].place = moved[r].place /\ table[r].stat = moved[r].stat
           /\ table[r].frame = moved[r].frame /\ table[r].parseError = moved[r].parseError
           /\ table[r].sha256 = IF r = q THEN h ELSE moved[r].sha256
           /\ table[r] = moved[r] \/ table[r].sha256 = h
  BY <1>2, <1>4, HashedRows
<1> HIDE DEF table
<1>7. racy \subseteq racy' /\ clean \subseteq Clean
  BY <1>1 DEF Clean
<1>8. ASSUME p \in clean
      PROVE  /\ rows[q].place \in Clean /\ rows[q].sha256 = h
             /\ \A f \in Tasks : f.row # q
             /\ Item.stat = disk[p] /\ h = Digest[disk[p]]
             /\ TrueRow(rows[q], disk)
  <2>1. ~Doubtful(q, h)
    BY <1>1, <1>8
  <2>2. rows[q].place \in Clean /\ rows[q].sha256 = h
    BY <1>3, <2>1 DEF Doubtful, Clean, Rows
  <2>3. \A f \in Tasks : f.row # q
    BY <2>1 DEF Doubtful, Tasks
  <2>4. TrueFind(Item, rows, disk)
    BY <1>1, <1>7, <1>8, ItemIsTrue DEF TrueItem, FileKinds
  <2> QED BY <1>1, <1>2, <2>2, <2>3, <2>4, RowsAreTrue DEF TrueFind
<1>9. ASSUME NEW r \in DOMAIN table, table[r].place \in clean
      PROVE  /\ TrueRow(table[r], disk)
             /\ \/ table[r].stat = disk[table[r].place]
                \/ /\ r \in DOMAIN rows /\ rows[r].place = table[r].place
                   /\ rows[r].stat = table[r].stat
  <2>1. CASE r # q
    <3>1. moved[r] = rows[r] /\ r \in DOMAIN rows
      BY <1>4, <1>5, <1>6, <2>1
    <3>2. TrueRow(rows[r], disk)
      BY <1>6, <1>7, <1>9, <2>1, <3>1, RowsAreTrue
    <3>3. TrueRow(table[r], disk)
      BY <1>2, <1>6, <1>9, <2>1, <3>1, <3>2 DEF TrueRow
    <3> QED BY <1>6, <1>9, <3>1, <3>3
  <2>2. CASE r = q
    <3>1. table[q].place = p /\ p \in clean
      BY <1>4, <1>5, <1>6, <1>9, <2>2
    <3>2. table[q].stat = disk[p] /\ table[q].sha256 = h /\ h = Digest[disk[p]]
      BY <1>4, <1>5, <1>6, <1>8, <2>2, <3>1
    <3>3. \/ table[q].frame = None \/ table[q].parseError
          \/ Digest[table[q].frame] = h
      <4>1. h = Digest[rows[q].stat]
        BY <1>2, <1>8, <3>1 DEF TrueRow
      <4>2. table[q].frame = rows[q].frame /\ table[q].parseError = rows[q].parseError
        BY <1>2, <1>4, <1>5, <1>6
      <4> QED BY <1>8, <3>1, <4>1, <4>2 DEF TrueRow
    <3> QED BY <1>2, <2>2, <3>1, <3>2, <3>3 DEF TrueRow
  <2> QED BY <2>1, <2>2
<1>10. TrueRows(rows, table, disk, clean)
  BY <1>9 DEF TrueRows
<1>11. TrueMoves(rows, table, Tasks, disk, Clean, clean)
  <2>1. ASSUME NEW r \in DOMAIN rows, table[r].place \in clean, table[r].place # rows[r].place
        PROVE  /\ rows[r].place \in Clean /\ table[r].stat = disk[table[r].place]
               /\ rows[r].sha256 # None /\ rows[r].sha256 = Digest[table[r].stat]
               /\ \A f \in Tasks : f.row # r
    <3>1. r = q
      BY <1>4, <1>5, <1>6, <2>1
    <3>2. table[q].place = p /\ p \in clean /\ table[q].stat = Item.stat
      BY <1>4, <1>5, <1>6, <2>1, <3>1
    <3> QED BY <1>2, <1>8, <3>1, <3>2
  <2> QED BY <1>4, <1>6, <2>1 DEF TrueMoves
<1> HIDE DEF q, p, h
<1> QED BY <1>1, <1>7, <1>10, <1>11, WriteIsTrue

\* A hash is recorded for the bytes it is of.
LEMMA WriteHashIsTrue ==
  ASSUME IndexInvariant, BytesInvariant, WriteHash
  PROVE  BytesInvariant'
<1> DEFINE q == Item.row
           h == Item.sha256
           u == RecordHash(rows, q, h)
<1>1. /\ applying # <<>> /\ Item.kind \in {"hashed", "hashError"}
      /\ Write(IF Item.kind = "hashed" THEN u ELSE rows)
  BY DEF WriteHash, Arriving
<1>2. q \in DOMAIN rows /\ (Item.kind = "hashed" => h \in Digests)
  BY <1>1, ItemTypes
<1>3. SoundTable(rows)
  BY DEF IndexInvariant, Tables
<1>4. racy \subseteq racy' /\ Clean = Places \ racy'
  BY <1>1 DEF Write, Clean
<1>5. CASE Item.kind = "hashed"
  <2>1. Writes(u) /\ h \in Digests
    BY <1>1, <1>2, <1>5 DEF Write
  <2>2. /\ DOMAIN u = DOMAIN rows
        /\ \A r \in DOMAIN rows :
             /\ u[r].place = rows[r].place /\ u[r].stat = rows[r].stat
             /\ u[r].frame = rows[r].frame /\ u[r].parseError = rows[r].parseError
             /\ u[r].sha256 = IF r = q THEN h ELSE rows[r].sha256
             /\ u[r] = rows[r] \/ u[r].sha256 = h
    BY <1>2, <1>3, <2>1, HashedRows
  <2> HIDE DEF u
  <2>3. TrueHash(Item, rows, disk, Clean)
    BY <1>1, <1>5, ItemIsTrue DEF TrueItem
  <2>4. h # None
    <3>1. None \notin Digests
      BY IndexerAssumption
    <3> QED BY <2>1, <3>1
  <2>5. ASSUME NEW r \in DOMAIN rows, rows[r].place \in Clean
        PROVE  TrueRow(u[r], disk)
    <3>1. TrueRow(rows[r], disk)
      BY <2>5, RowsAreTrue
    <3>2. r = q => h = Digest[rows[r].stat]
      BY <2>3, <2>5 DEF TrueHash
    <3> QED BY <2>2, <2>4, <3>1, <3>2 DEF TrueRow
  <2>6. TrueRows(rows, u, disk, Clean)
    BY <2>2, <2>5 DEF TrueRows
  <2>7. TrueMoves(rows, u, Tasks, disk, Clean, Clean)
    BY <2>2 DEF TrueMoves
  <2> QED BY <1>1, <1>4, <2>1, <2>6, <2>7, WriteIsTrue
<1>6. CASE Item.kind # "hashed"
  <2>1. Writes(rows)
    BY <1>1, <1>6 DEF Write
  <2>2. TrueRows(rows, rows, disk, Clean) /\ TrueMoves(rows, rows, Tasks, disk, Clean, Clean)
    BY RowsAreTrue DEF TrueRows, TrueMoves
  <2> QED BY <1>1, <1>4, <2>1, <2>2, WriteIsTrue
<1> QED BY <1>5, <1>6

-----------------------------------------------------------------------------
(* The invariant of the bytes, and what a sweep leaves.                    *)

\* Nothing is known yet.
LEMMA BytesInit == Init => BytesInvariant
<1> SUFFICES ASSUME Init PROVE BytesInvariant
  OBVIOUS
<1>1. /\ rows = <<>> /\ Committed = <<>> /\ applying = <<>>
      /\ \A s \in Scans : scan[s].work = NoWork
      /\ \A h \in Slots : hash[h] = IdleHash
      /\ \A j \in Jobs : outbox[j] = <<>>
  BY DEF Init, Committed, NewScan
<1>2. \A h \in Slots : PassOK(h)
  BY <1>1, JobTypes DEF PassOK, IdleHash
<1>3. UnderWay = {}
  <2>1. \A j \in Jobs : Posted(outbox[j]) = {}
    BY <1>1, EmptyItems
  <2>2. \A s \in Scans : Of(scan[s].work.batch) = {}
    BY <1>1, EmptyItems DEF NoWork
  <2>3. \A h \in Slots : Of(hash[h].batch) = {}
    BY <1>1, EmptyItems DEF IdleHash
  <2>4. AllPosted = {}
    BY <2>1 DEF AllPosted
  <2>5. AllFound = {}
    BY <2>2 DEF AllFound
  <2>6. AllHashed = {}
    BY <2>3 DEF AllHashed
  <2> QED BY <1>1, <2>4, <2>5, <2>6, EmptyItems DEF UnderWay
<1>4. Tasks = {}
  BY <1>1 DEF Tasks, IdleHash
<1>5. \A w \in Walks : TrueWalk(w, rows, disk, Clean)
  <2>1. \A w \in Walks : w = NoWork
    BY <1>1 DEF Walks
  <2>2. TrueWalk(NoWork, rows, disk, Clean)
    BY NoneIsNoPlace DEF TrueWalk, NoWork, Clean
  <2> QED BY <2>1, <2>2
<1>6. KnownNow(rows)
  BY <1>1, <1>3, <1>4, <1>5 DEF KnownNow, Known
<1> QED BY <1>1, <1>2, <1>6 DEF BytesInvariant

\* Every step keeps the invariant.
LEMMA BytesStep ==
  IndexInvariant /\ ScanInvariant /\ BytesInvariant /\ [Next]_vars => BytesInvariant'
<1> SUFFICES ASSUME IndexInvariant, ScanInvariant, BytesInvariant, [Next]_vars
             PROVE  BytesInvariant'
  OBVIOUS
<1>1. CASE DiskChanges
  BY <1>1, DiskIsTrue
<1>2. CASE Claim
  <2>1. CASE \E s \in Scans : ClaimRequeued(s) \/ \E f \in Folders : ClaimScan(s, f)
    BY <2>1, ClaimScanIsTrue
  <2>2. CASE \E h \in Slots : ClaimHash(h)
    BY <2>2, ClaimHashIsTrue
  <2> QED BY <1>2, <2>1, <2>2 DEF Claim, ClaimQueued
<1>3. CASE WorkerStops
  BY <1>3, WalkEndIsTrue, HashEndIsTrue DEF WorkerStops
<1>4. CASE HandlerGoesOn
  BY <1>4, DiscoveredIsTrue, MovedIsTrue, AbortIsTrue, WriteHashIsTrue, SweepIsTrue
     DEF HandlerGoesOn
<1>5. CASE ProcessDies
  BY <1>5, DeathIsTrue
<1>6. ASSUME NEW j \in Jobs, Works(j) PROVE BytesInvariant'
  <2>1. CASE j.type = "scan" /\ ScanWorks(j.id)
    BY <2>1, JobTypes, VisitIsTrue, ReadFileIsTrue, WalkEndIsTrue DEF ScanWorks
  <2>2. CASE j.type = "hash" /\ HashWorks(j.id)
    BY <2>2, JobTypes, HashNextIsTrue, HashEndIsTrue DEF HashWorks
  <2> QED BY <1>6, <2>1, <2>2 DEF Works
<1>7. ASSUME NEW j \in Jobs, Handles(j) PROVE BytesInvariant'
  BY <1>7, TakeBatchIsTrue, EndIsTrue DEF Handles
<1>8. CASE UNCHANGED vars
  BY <1>8, StutterIsTrue
<1> QED BY <1>1, <1>2, <1>3, <1>4, <1>5, <1>6, <1>7, <1>8 DEF Next

\* A sweep of a calm scan: the row of a file says what is on the disk, and so its
\* hash and its frame do.
LEMMA SweepKnows ==
  ASSUME IndexInvariant, IndexInvariant', ScanInvariant, BytesInvariant, BytesInvariant',
         sweeping \in calm, Sweep, NEW r \in DOMAIN rows',
         FolderOf[rows'[r].place] = scan[sweeping].folder,
         rows'[r].place \notin racy, disk[rows'[r].place] # None
  PROVE  LET row == rows'[r]
             bytes == Digest[disk[row.place]]
         IN /\ row.sha256 \in {None, bytes}
            /\ row.frame = None \/ row.parseError \/ Digest[row.frame] = bytes
<1> DEFINE p == rows'[r].place
<1>2. rows' \in Seq(Rows) /\ PlacesDistinct(rows') /\ racy' = racy /\ disk' = disk
  BY DEF IndexInvariant, Tables, SoundTable, Sweep, history
<1>3. p \in Places
  BY <1>2, TableTypes
<1>4. rows'[r].stat = disk[p]
  <2>1. PICK q \in DOMAIN rows' : IsAt(rows', q, p) /\ rows'[q].stat = disk[p]
    BY <1>3, SweepSees
  <2>2. q = r
    BY <1>2, <2>1 DEF PlacesDistinct, IsAt
  <2> QED BY <2>1, <2>2
<1>5. TrueRow(rows'[r], disk)
  BY <1>2, <1>3 DEF BytesInvariant, KnownNow, Known, Clean
<1> QED BY <1>4, <1>5 DEF TrueRow

\* What is known of the bytes at clean places is true at any moment of the indexer
\* (scan-job.ts; hash-job.ts; files.ts): the invariant behind the theorem below.
THEOREM BytesInvariantHolds == Spec => [](IndexInvariant /\ ScanInvariant /\ BytesInvariant)
<1>1. Init => IndexInvariant /\ ScanInvariant /\ BytesInvariant
  BY InvariantInit, ScanInit, BytesInit
<1>2. IndexInvariant /\ ScanInvariant /\ BytesInvariant /\ [Next]_vars =>
        IndexInvariant' /\ ScanInvariant' /\ BytesInvariant'
  BY NextStep, ScanStep, BytesStep
<1> QED BY <1>1, <1>2, PTL DEF Spec

\* When a calm scan has completed, the hashes and the frames that the rows of its
\* folder record are of what the files hold, frames beside a parse error left out,
\* except where a file was edited and kept the size and the modification time of its
\* row, where it changed while a job was at work or its row waited for a hash, and
\* where a row of such a file moved (hash-job.ts; scan-job.ts, isUnchanged and
\* detectMove; files.ts, upsertDiscovered, recordHash and reparentMoved).
THEOREM CalmScansKnowTheBytes == Spec => CalmScanKnowsTheBytes
<1> DEFINE A == \A r \in DOMAIN rows' :
                  LET row == rows'[r]
                      bytes == Digest[disk[row.place]]
                  IN /\ FolderOf[row.place] = scan[sweeping].folder
                     /\ row.place \notin racy /\ disk[row.place] # None
                     => /\ row.sha256 \in {None, bytes}
                        /\ row.frame = None \/ row.parseError \/ Digest[row.frame] = bytes
<1>1. /\ IndexInvariant /\ ScanInvariant /\ BytesInvariant
      /\ IndexInvariant' /\ ScanInvariant' /\ BytesInvariant' /\ [Next]_vars
      => [(sweeping \in calm /\ Sweep) => A]_vars
  BY SweepKnows
<1>2. Spec => [][(sweeping \in calm /\ Sweep) => A]_vars
  <2> HIDE DEF A
  <2> QED BY <1>1, BytesInvariantHolds, PTL DEF Spec
<1> QED BY <1>2 DEF CalmScanKnowsTheBytes

=============================================================================
