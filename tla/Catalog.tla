------------------------------- MODULE Catalog -------------------------------
(* The files rows, and the frame row that hangs on each, as the repository  *)
(* keeps them (db/src/repositories/files.ts, frames.ts): every query and    *)
(* every update, as an operator on a table.                                 *)
(*                                                                          *)
(* A table is a sequence of rows. The index of a row is its id: ids are     *)
(* UUIDv7, which follow the order of insertion, and no row is ever deleted. *)
(* A place is a watch folder with a path below it, the unique index of the  *)
(* table. A content is what a file holds together with its size and         *)
(* modification time in milliseconds, its Stat. Rows, snapshots and items   *)
(* name the content that a stat was taken of, but have the stat only: no    *)
(* comparison sees more of it, and two contents may share one.              *)
EXTENDS Naturals, Sequences, FiniteSets

CONSTANTS
  Places,     \* (watch_folder_id, relative_path)
  FolderOf,   \* the watch folder of each place
  Contents,
  Stat,       \* the size and modification time of each content
  Digest,     \* the SHA-256 of each content
  Size,       \* the size in bytes of each content
  None        \* SQL's NULL, and an empty place on the disk

Folders == {FolderOf[p] : p \in Places}
Digests == {Digest[c] : c \in Contents}
Statuses == {"present", "missing", "duplicate"}

Rows == [place : Places, stat : Contents, sha256 : Digests \cup {None},
         status : Statuses, duplicateOf : Nat, firstSeenAt : Nat,
         lastSeenAt : Nat, frame : Contents \cup {None}, parseError : BOOLEAN]

(* duplicateOf of a row that is no duplicate: ids start at 1.               *)
NoRow == 0

IsAt(t, r, p) == r \in DOMAIN t /\ t[r].place = p
Indexed(t, p) == \E r \in DOMAIN t : IsAt(t, r, p)
RowAt(t, p) == CHOOSE r \in DOMAIN t : IsAt(t, r, p)

-----------------------------------------------------------------------------
(* Discovery: upsertDiscovered, recordParseError, upsertByFileId.           *)

NewRow(p, c, at) ==
  [place |-> p, stat |-> c, sha256 |-> None, status |-> "present",
   duplicateOf |-> NoRow, firstSeenAt |-> at, lastSeenAt |-> at,
   frame |-> None, parseError |-> FALSE]

\* A bug: a missing file that comes back as it was stays missing
RestoreIfChanged(row, c, at) ==
  [row EXCEPT !.lastSeenAt = at,
              !.stat = c,
              !.sha256 = IF Stat[row.stat] = Stat[c] THEN @ ELSE None,
              !.status = IF @ = "duplicate" \/ Stat[row.stat] = Stat[c] THEN @ ELSE "present"]

\* A bug: a file that changed keeps its hash
HashStays(row, c, at) ==
  [row EXCEPT !.lastSeenAt = at,
              !.stat = c,
              !.status = IF @ = "duplicate" THEN @ ELSE "present"]

(* A row that is seen again: its hash goes if the size or the modification  *)
(* time is another. A duplicate keeps its status whatever became of its     *)
(* content; any other row is present again.                                 *)
SeenAgain(row, c, at) ==
  [row EXCEPT !.lastSeenAt = at,
              !.stat = c,
              !.sha256 = IF Stat[row.stat] = Stat[c] THEN @ ELSE None,
              !.status = IF @ = "duplicate" THEN @ ELSE "present"]

UpsertDiscovered(t, p, c, at) ==
  IF Indexed(t, p) THEN [t EXCEPT ![RowAt(t, p)] = SeenAgain(@, c, at)]
                   ELSE Append(t, NewRow(p, c, at))

(* The header of the file at p was read as content c.                       *)
RecordFrame(t, p, c) ==
  [t EXCEPT ![RowAt(t, p)].frame = c, ![RowAt(t, p)].parseError = FALSE]

(* It could not be read: the row says so. A frame it has stays.             *)
RecordParseError(t, p) == [t EXCEPT ![RowAt(t, p)].parseError = TRUE]

MarkMissing(t, folder, cutoff) ==
  [r \in DOMAIN t |->
     IF /\ FolderOf[t[r].place] = folder
        /\ t[r].status = "present"
        /\ t[r].lastSeenAt < cutoff
     THEN [t[r] EXCEPT !.status = "missing"]
     ELSE t[r]]

(* The snapshot a scan compares with: the stat of each indexed path.        *)
KnownFiles(t, folder) ==
  LET ids == {r \in DOMAIN t : FolderOf[t[r].place] = folder}
  IN [p \in {t[r].place : r \in ids} |-> t[RowAt(t, p)].stat]

-----------------------------------------------------------------------------
(* Hashes and duplicates: listUnhashed, recordHash.                         *)

Unhashed(t) == {r \in DOMAIN t : t[r].status = "present" /\ t[r].sha256 = None}

(* The answers listUnhashed(limit) may give: oldest first, ties in any      *)
(* order.                                                                   *)
OldestUnhashed(t, limit) ==
  {ids \in SUBSET Unhashed(t) :
     /\ Cardinality(ids) = limit \/ (ids = Unhashed(t) /\ Cardinality(ids) < limit)
     /\ \A r \in ids, q \in Unhashed(t) \ ids : t[r].firstSeenAt <= t[q].firstSeenAt}

Older(t, r, q) ==
  \/ t[r].firstSeenAt < t[q].firstSeenAt
  \/ t[r].firstSeenAt = t[q].firstSeenAt /\ r < q

HashGroup(t, r, h) ==
  {r} \cup {q \in DOMAIN t : t[q].sha256 = h /\ t[q].status \in {"present", "duplicate"}}

\* A bug: the newest copy is kept
NewestFirst(t, group) == CHOOSE r \in group : \A q \in group \ {r} : Older(t, q, r)

Canonical(t, group) == CHOOSE r \in group : \A q \in group \ {r} : Older(t, r, q)

RecordHash(t, r, h) ==
  LET group == HashGroup(t, r, h)
      first == Canonical(t, group)
  IN [q \in DOMAIN t |->
        CASE q \notin group -> t[q]
          [] q = first -> [t[q] EXCEPT !.sha256 = h, !.status = "present",
                                       !.duplicateOf = NoRow]
          [] OTHER -> [t[q] EXCEPT !.sha256 = h, !.status = "duplicate",
                                   !.duplicateOf = first]]

-----------------------------------------------------------------------------
(* Moves: listMissingWithHash, reparentMoved.                               *)

MoveCandidates(t) ==
  {[row |-> r, size |-> Size[t[r].stat], sha256 |-> t[r].sha256] :
     r \in {q \in DOMAIN t : t[q].status = "missing" /\ t[q].sha256 # None}}

\* A bug: the rows are not looked at
PathIgnored(t, r, p) == FALSE

(* The unique index refuses to put row r at a place that has another row.   *)
PathTaken(t, r, p) == \E q \in DOMAIN t \ {r} : t[q].place = p

\* A bug: the moved file is taken for a new one
ReparentAsNew(t, r, p, c, h, at) ==
  [t EXCEPT ![r] = [NewRow(p, c, at) EXCEPT !.sha256 = h]]

Reparent(t, r, p, c, h, at) ==
  [t EXCEPT ![r].place = p, ![r].stat = c, ![r].sha256 = h,
            ![r].status = "present", ![r].lastSeenAt = at,
            ![r].duplicateOf = NoRow]
=============================================================================
