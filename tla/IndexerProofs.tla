---------------------------- MODULE IndexerProofs ----------------------------
(***************************************************************************)
(* Proofs about the indexer, for any places, contents, pools, batches and  *)
(* numbers of scans, changes, stops and restarts.                          *)
(*                                                                         *)
(* They start with what the operators on the files table preserve: a sound *)
(* table stays sound under every query and update of the repository, keeps *)
(* its rows with their age and frame, and is changed at one place, or in   *)
(* one column, only.                                                       *)
(*                                                                         *)
(* The inductive invariant says of the table that it is sound, as it is    *)
(* and as a rollback would leave it, and of everything under way (the      *)
(* snapshots of the workers, their batches, the messages and the open      *)
(* transaction) that it speaks of committed rows only, and that what a     *)
(* scan sends is never what a hash pass sends.                             *)
(***************************************************************************)
EXTENDS Indexer, Integers, WellFoundedInduction, SequenceTheorems,
        FiniteSetTheorems, TLAPS

PlacesDistinct(t) == \A r, q \in DOMAIN t : t[r].place = t[q].place => r = q

LinksPointBack(t) ==
  \A r \in DOMAIN t :
    LET link == t[r].duplicateOf
    IN /\ link # NoRow <=> t[r].status = "duplicate"
       /\ link # NoRow => link \in DOMAIN t /\ Older(t, link, r)

SoundTable(t) == t \in Seq(Rows) /\ PlacesDistinct(t) /\ LinksPointBack(t)

(* What is never lost of a table.                                          *)
Keeps(t, u) ==
  \A r \in DOMAIN t : /\ r \in DOMAIN u
                      /\ u[r].firstSeenAt = t[r].firstSeenAt
                      /\ t[r].frame # None => u[r].frame # None

(* Only rows that are now at p differ.                                     *)
ChangesOnly(t, u, p) ==
  \A r \in DOMAIN u : \/ u[r].place = p
                      \/ r \in DOMAIN t /\ u[r] = t[r]

KeepsPlaces(t, u) == \A r \in DOMAIN t : r \in DOMAIN u /\ u[r].place = t[r].place

(* A row keeps its place unless it is missing.                             *)
MovesMissing(t, u) ==
  \A r \in DOMAIN t : r \in DOMAIN u /\ (u[r].place = t[r].place \/ t[r].status = "missing")

(* A row at p says that a scan at that time found content c there.         *)
SeenHere(t, p, c, at) ==
  \E r \in DOMAIN t : /\ IsAt(t, r, p)
                      /\ t[r].stat = c /\ t[r].lastSeenAt = at /\ t[r].status # "missing"

-----------------------------------------------------------------------------
(* Tables as sequences.                                                    *)

\* The parts of a row.
LEMMA TableTypes ==
  ASSUME NEW t \in Seq(Rows)
  PROVE  /\ Len(t) \in Nat /\ DOMAIN t = 1..Len(t)
         /\ \A r \in DOMAIN t :
              /\ r \in Nat \ {0} /\ t[r] \in Rows
              /\ t[r].place \in Places /\ t[r].stat \in Contents
              /\ t[r].sha256 \in Digests \cup {None} /\ t[r].status \in Statuses
              /\ t[r].duplicateOf \in Nat
              /\ t[r].firstSeenAt \in Nat /\ t[r].lastSeenAt \in Nat
              /\ t[r].frame \in Contents \cup {None} /\ t[r].parseError \in BOOLEAN
<1>1. Len(t) \in Nat /\ DOMAIN t = 1..Len(t) /\ \A r \in DOMAIN t : t[r] \in Rows
  BY LenProperties, ElementOfSeq
<1> QED BY <1>1 DEF Rows

\* A table with other rows at the same ids.
LEMMA SameLength ==
  ASSUME NEW t \in Seq(Rows), NEW u \in [DOMAIN t -> Rows]
  PROVE  u \in Seq(Rows) /\ Len(u) = Len(t) /\ DOMAIN u = DOMAIN t
<1>1. DOMAIN t = 1..Len(t) /\ Len(t) \in Nat
  BY TableTypes
<1> QED BY <1>1, SeqDef

\* A row found by its place is the row there.
LEMMA RowAtIsAt ==
  ASSUME NEW t, NEW p, Indexed(t, p)
  PROVE  RowAt(t, p) \in DOMAIN t /\ t[RowAt(t, p)].place = p
BY DEF Indexed, RowAt, IsAt

-----------------------------------------------------------------------------
(* Discovery.                                                              *)

\* A row that changes without a change of its place, age, link, frame or of
\* whether it is a duplicate leaves the table sound.
LEMMA RowChange ==
  ASSUME NEW t, SoundTable(t), NEW r \in DOMAIN t, NEW row \in Rows,
         row.place = t[r].place, row.firstSeenAt = t[r].firstSeenAt,
         row.duplicateOf = t[r].duplicateOf,
         row.status = "duplicate" <=> t[r].status = "duplicate",
         t[r].frame # None => row.frame # None
  PROVE  LET u == [t EXCEPT ![r] = row]
         IN /\ SoundTable(u) /\ DOMAIN u = DOMAIN t /\ Keeps(t, u)
            /\ ChangesOnly(t, u, row.place) /\ KeepsPlaces(t, u)
<1> DEFINE u == [t EXCEPT ![r] = row]
<1>0. t \in Seq(Rows) /\ PlacesDistinct(t) /\ LinksPointBack(t)
  BY DEF SoundTable
<1>1. u \in [DOMAIN t -> Rows]
  BY <1>0, TableTypes
<1>2. u \in Seq(Rows) /\ DOMAIN u = DOMAIN t
  BY <1>0, <1>1, SameLength
<1>3. \A q \in DOMAIN t : /\ u[q].place = t[q].place /\ u[q].firstSeenAt = t[q].firstSeenAt
                          /\ u[q].duplicateOf = t[q].duplicateOf
                          /\ u[q].status = "duplicate" <=> t[q].status = "duplicate"
                          /\ t[q].frame # None => u[q].frame # None
                          /\ q # r => u[q] = t[q]
  OBVIOUS
<1> HIDE DEF u
<1>4. PlacesDistinct(u)
  BY <1>0, <1>2, <1>3 DEF PlacesDistinct
<1>5. LinksPointBack(u)
  BY <1>0, <1>2, <1>3 DEF LinksPointBack, Older
<1>6. Keeps(t, u) /\ ChangesOnly(t, u, row.place) /\ KeepsPlaces(t, u)
  BY <1>2, <1>3 DEF Keeps, ChangesOnly, KeepsPlaces
<1> QED BY <1>2, <1>4, <1>5, <1>6 DEF SoundTable, u

\* upsertDiscovered updates the row of the place or adds one.
LEMMA UpsertSound ==
  ASSUME NEW t, SoundTable(t), NEW p \in Places, NEW c \in Contents, NEW at \in Nat
  PROVE  LET u == UpsertDiscovered(t, p, c, at)
         IN /\ SoundTable(u) /\ Keeps(t, u) /\ ChangesOnly(t, u, p)
            /\ KeepsPlaces(t, u) /\ SeenHere(u, p, c, at)
<1> DEFINE u == UpsertDiscovered(t, p, c, at)
           row == SeenAgain(t[RowAt(t, p)], c, at)
<1>0. t \in Seq(Rows) /\ PlacesDistinct(t) /\ LinksPointBack(t)
  BY DEF SoundTable
<1>1. CASE Indexed(t, p)
  <2>1. RowAt(t, p) \in DOMAIN t /\ t[RowAt(t, p)].place = p
    BY <1>1, RowAtIsAt
  <2>2. t[RowAt(t, p)] \in Rows /\ t[RowAt(t, p)].status \in Statuses
    BY <1>0, <2>1, TableTypes
  <2>3. /\ row \in Rows /\ row.stat = c /\ row.lastSeenAt = at /\ row.status # "missing"
        /\ row.place = p
    BY <2>1, <2>2 DEF SeenAgain, Rows, Statuses
  <2>4. /\ row.firstSeenAt = t[RowAt(t, p)].firstSeenAt
        /\ row.duplicateOf = t[RowAt(t, p)].duplicateOf
        /\ row.status = "duplicate" <=> t[RowAt(t, p)].status = "duplicate"
        /\ row.frame = t[RowAt(t, p)].frame
    BY <2>2 DEF SeenAgain, Rows, Statuses
  <2>5. u = [t EXCEPT ![RowAt(t, p)] = row]
    BY <1>1 DEF UpsertDiscovered
  <2> HIDE DEF u, row
  <2>6. /\ SoundTable(u) /\ Keeps(t, u) /\ ChangesOnly(t, u, p) /\ KeepsPlaces(t, u)
        /\ DOMAIN u = DOMAIN t
    BY <2>1, <2>3, <2>4, <2>5, RowChange
  <2>7. u[RowAt(t, p)] = row
    BY <2>1, <2>5
  <2> QED BY <2>1, <2>3, <2>6, <2>7 DEF SeenHere, IsAt, u
<1>2. CASE ~Indexed(t, p)
  <2> DEFINE new == NewRow(p, c, at)
  <2>1. /\ new \in Rows /\ new.place = p /\ new.stat = c /\ new.lastSeenAt = at
        /\ new.status = "present" /\ new.duplicateOf = NoRow
    BY DEF NewRow, Rows, Statuses, NoRow
  <2>2. u = Append(t, new)
    BY <1>2 DEF UpsertDiscovered
  <2> HIDE DEF u, new
  <2>3. /\ u \in Seq(Rows) /\ Len(u) = Len(t) + 1 /\ u[Len(t) + 1] = new
        /\ \A r \in 1..Len(t) : u[r] = t[r]
    BY <1>0, <2>1, <2>2, AppendProperties
  <2>4. DOMAIN t = 1..Len(t) /\ Len(t) \in Nat /\ DOMAIN u = 1..(Len(t) + 1)
    BY <1>0, <2>3, TableTypes
  <2>5. \A r \in DOMAIN t : t[r].place # p
    BY <1>2 DEF Indexed, IsAt
  <2>6. PlacesDistinct(u)
    BY <1>0, <2>1, <2>3, <2>4, <2>5 DEF PlacesDistinct
  <2>7. LinksPointBack(u)
    <3> SUFFICES ASSUME NEW r \in DOMAIN u
                 PROVE  /\ u[r].duplicateOf # NoRow <=> u[r].status = "duplicate"
                        /\ u[r].duplicateOf # NoRow =>
                             /\ u[r].duplicateOf \in DOMAIN u
                             /\ Older(u, u[r].duplicateOf, r)
      BY DEF LinksPointBack
    <3>1. CASE r \in DOMAIN t
      <4>1. u[r] = t[r]
        BY <2>3, <2>4, <3>1
      <4>2. /\ t[r].duplicateOf # NoRow <=> t[r].status = "duplicate"
            /\ t[r].duplicateOf # NoRow => t[r].duplicateOf \in DOMAIN t /\ Older(t, t[r].duplicateOf, r)
        BY <1>0, <3>1 DEF LinksPointBack
      <4> QED BY <2>3, <2>4, <3>1, <4>1, <4>2 DEF Older
    <3>2. CASE r = Len(t) + 1
      BY <2>1, <2>3, <3>2
    <3> QED BY <2>4, <3>1, <3>2
  <2>8. Keeps(t, u) /\ ChangesOnly(t, u, p) /\ KeepsPlaces(t, u)
    BY <2>1, <2>3, <2>4 DEF Keeps, ChangesOnly, KeepsPlaces
  <2>9. SeenHere(u, p, c, at)
    BY <2>1, <2>3, <2>4 DEF SeenHere, IsAt
  <2> QED BY <2>3, <2>6, <2>7, <2>8, <2>9 DEF SoundTable, u
<1> QED BY <1>1, <1>2

\* The frame of a header that was read, and a header that was not.
LEMMA RecordsSound ==
  ASSUME NEW t, SoundTable(t), NEW p \in Places, NEW c \in Contents, NEW d \in Contents,
         NEW at, SeenHere(t, p, c, at), None \notin Contents
  PROVE  /\ LET u == RecordFrame(t, p, d)
            IN /\ SoundTable(u) /\ Keeps(t, u) /\ ChangesOnly(t, u, p)
               /\ KeepsPlaces(t, u) /\ SeenHere(u, p, c, at)
         /\ LET u == RecordParseError(t, p)
            IN /\ SoundTable(u) /\ Keeps(t, u) /\ ChangesOnly(t, u, p)
               /\ KeepsPlaces(t, u) /\ SeenHere(u, p, c, at)
<1> DEFINE r == RowAt(t, p)
<1>1. t \in Seq(Rows) /\ PlacesDistinct(t)
  BY DEF SoundTable
<1>2. r \in DOMAIN t /\ t[r].place = p
  BY RowAtIsAt DEF SeenHere, Indexed
<1>3. t[r].stat = c /\ t[r].lastSeenAt = at /\ t[r].status # "missing"
  BY <1>1, <1>2 DEF SeenHere, PlacesDistinct, IsAt
<1>4. t[r] \in Rows
  BY <1>1, <1>2, TableTypes
<1> HIDE DEF r
<1>5. ASSUME NEW row \in Rows, row.place = p, row.firstSeenAt = t[r].firstSeenAt,
             row.duplicateOf = t[r].duplicateOf, row.status = t[r].status,
             row.stat = t[r].stat, row.lastSeenAt = t[r].lastSeenAt,
             t[r].frame # None => row.frame # None
      PROVE  LET u == [t EXCEPT ![r] = row]
             IN /\ SoundTable(u) /\ Keeps(t, u) /\ ChangesOnly(t, u, p)
                /\ KeepsPlaces(t, u) /\ SeenHere(u, p, c, at)
  <2> DEFINE u == [t EXCEPT ![r] = row]
  <2>1. /\ SoundTable(u) /\ DOMAIN u = DOMAIN t /\ Keeps(t, u)
        /\ ChangesOnly(t, u, p) /\ KeepsPlaces(t, u)
    BY <1>2, <1>5, RowChange
  <2>2. u[r] = row
    BY <1>2
  <2> QED BY <1>2, <1>3, <1>5, <2>1, <2>2 DEF SeenHere, IsAt
<1>6. RecordFrame(t, p, d) = [t EXCEPT ![r] = [t[r] EXCEPT !.frame = d, !.parseError = FALSE]]
  BY <1>1, <1>2, <1>4 DEF RecordFrame, r
<1>7. RecordParseError(t, p) = [t EXCEPT ![r] = [t[r] EXCEPT !.parseError = TRUE]]
  BY DEF RecordParseError, r
<1>8. [t[r] EXCEPT !.frame = d, !.parseError = FALSE] \in Rows
  BY <1>4 DEF Rows
<1>9. [t[r] EXCEPT !.parseError = TRUE] \in Rows
  BY <1>4 DEF Rows
<1>10. LET row == [t[r] EXCEPT !.frame = d, !.parseError = FALSE]
       IN /\ row.place = p /\ row.firstSeenAt = t[r].firstSeenAt
          /\ row.duplicateOf = t[r].duplicateOf /\ row.status = t[r].status
          /\ row.stat = t[r].stat /\ row.lastSeenAt = t[r].lastSeenAt /\ row.frame # None
  BY <1>2, <1>4 DEF Rows
<1>11. LET row == [t[r] EXCEPT !.parseError = TRUE]
       IN /\ row.place = p /\ row.firstSeenAt = t[r].firstSeenAt
          /\ row.duplicateOf = t[r].duplicateOf /\ row.status = t[r].status
          /\ row.stat = t[r].stat /\ row.lastSeenAt = t[r].lastSeenAt
          /\ row.frame = t[r].frame
  BY <1>2, <1>4 DEF Rows
<1> QED BY <1>5, <1>6, <1>7, <1>8, <1>9, <1>10, <1>11

\* Rows of one folder that were present and not seen become missing.
LEMMA MarkMissingSound ==
  ASSUME NEW t, SoundTable(t), NEW f, NEW cutoff
  PROVE  LET u == MarkMissing(t, f, cutoff)
         IN /\ SoundTable(u) /\ Keeps(t, u) /\ DOMAIN u = DOMAIN t
            /\ \A r \in DOMAIN t : u[r].place = t[r].place /\ u[r].stat = t[r].stat
<1> DEFINE u == MarkMissing(t, f, cutoff)
<1>0. t \in Seq(Rows) /\ PlacesDistinct(t) /\ LinksPointBack(t)
  BY DEF SoundTable
<1>1. DOMAIN u = DOMAIN t
  BY DEF MarkMissing
<1>2. ASSUME NEW r \in DOMAIN t
      PROVE  /\ u[r] \in Rows
             /\ u[r].place = t[r].place /\ u[r].stat = t[r].stat
             /\ u[r].firstSeenAt = t[r].firstSeenAt
             /\ u[r].duplicateOf = t[r].duplicateOf /\ u[r].frame = t[r].frame
             /\ u[r].status = "duplicate" <=> t[r].status = "duplicate"
  <2>1. t[r] \in Rows
    BY <1>0, TableTypes
  <2>2. \/ u[r] = t[r]
        \/ u[r] = [t[r] EXCEPT !.status = "missing"] /\ t[r].status = "present"
    BY DEF MarkMissing
  <2> HIDE DEF u
  <2> QED BY <2>1, <2>2 DEF Rows, Statuses
<1>3. u = [r \in DOMAIN t |-> u[r]]
  BY DEF MarkMissing
<1> HIDE DEF u
<1>4. u \in [DOMAIN t -> Rows]
  BY <1>2, <1>3
<1>5. u \in Seq(Rows)
  BY <1>0, <1>4, SameLength
<1>6. PlacesDistinct(u) /\ LinksPointBack(u)
  BY <1>0, <1>1, <1>2 DEF PlacesDistinct, LinksPointBack, Older
<1>7. Keeps(t, u)
  BY <1>1, <1>2 DEF Keeps
<1> QED BY <1>1, <1>2, <1>5, <1>6, <1>7 DEF SoundTable, u

-----------------------------------------------------------------------------
(* Hashes and duplicates.                                                  *)

\* Some numbers have a least one.
LEMMA LeastNat ==
  ASSUME NEW T \in SUBSET Nat, T # {}
  PROVE  \E x \in T : \A y \in T : x <= y
<1> DEFINE Less == OpToRel(<, Nat)
<1>1. IsWellFoundedOn(Less, Nat)
  BY NatLessThanWellFounded
<1>2. \A x, y \in Nat : x < y => <<x, y>> \in Less
  BY DEF OpToRel
<1> HIDE DEF Less
<1>3. PICK x \in T : \A y \in T : ~(<<y, x>> \in Less)
  BY <1>1, WFMin
<1>4. ASSUME NEW y \in T PROVE x <= y
  <2>1. x \in Nat /\ y \in Nat /\ ~(y < x)
    BY <1>2, <1>3
  <2> QED BY <2>1
<1> QED BY <1>4

\* The canonical row of a group is older than every other.
LEMMA CanonicalIsOldest ==
  ASSUME NEW t \in Seq(Rows), NEW group \in SUBSET DOMAIN t, group # {}
  PROVE  /\ Canonical(t, group) \in group
         /\ \A q \in group \ {Canonical(t, group)} : Older(t, Canonical(t, group), q)
<1>1. DOMAIN t \in SUBSET Nat /\ \A r \in DOMAIN t : t[r].firstSeenAt \in Nat
  BY TableTypes
<1> DEFINE ages == {t[r].firstSeenAt : r \in group}
<1>2. PICK age \in ages : \A a \in ages : age <= a
  <2>1. ages \in SUBSET Nat /\ ages # {}
    BY <1>1
  <2> HIDE DEF ages
  <2> QED BY <2>1, LeastNat
<1> DEFINE oldest == {r \in group : t[r].firstSeenAt = age}
<1>3. oldest \in SUBSET Nat /\ oldest # {}
  BY <1>1
<1>4. PICK r \in oldest : \A q \in oldest : r <= q
  BY <1>3, LeastNat
<1>5. ASSUME NEW q \in group \ {r} PROVE Older(t, r, q)
  <2>1. t[r].firstSeenAt <= t[q].firstSeenAt
    BY <1>2
  <2>2. t[r].firstSeenAt = t[q].firstSeenAt => r <= q
    BY <1>4
  <2> QED BY <1>1, <1>3, <2>1, <2>2 DEF Older
<1>6. \E m \in group : \A q \in group \ {m} : Older(t, m, q)
  BY <1>5
<1> QED BY <1>6 DEF Canonical

\* recordHash makes the oldest row of its group the canonical one and links the others to it.
LEMMA RecordHashSound ==
  ASSUME NEW t, SoundTable(t), NEW r \in DOMAIN t, NEW h \in Digests
  PROVE  LET u == RecordHash(t, r, h)
         IN /\ SoundTable(u) /\ Keeps(t, u) /\ DOMAIN u = DOMAIN t
            /\ \A q \in DOMAIN t :
                 /\ u[q].place = t[q].place /\ u[q].stat = t[q].stat
                 /\ u[q].lastSeenAt = t[q].lastSeenAt
                 /\ u[q].status = t[q].status \/ u[q].status # "missing"
<1> DEFINE u == RecordHash(t, r, h)
           group == HashGroup(t, r, h)
           first == Canonical(t, group)
<1>0. t \in Seq(Rows) /\ PlacesDistinct(t) /\ LinksPointBack(t)
  BY DEF SoundTable
<1>1. group \in SUBSET DOMAIN t /\ group # {}
  BY DEF HashGroup
<1>2. DOMAIN u = DOMAIN t /\ u = [q \in DOMAIN t |-> u[q]]
  BY DEF RecordHash
<1>3. \A q \in DOMAIN t :
        \/ q \notin group /\ u[q] = t[q]
        \/ /\ q = first
           /\ u[q] = [t[q] EXCEPT !.sha256 = h, !.status = "present", !.duplicateOf = NoRow]
        \/ /\ q \in group \ {first}
           /\ u[q] = [t[q] EXCEPT !.sha256 = h, !.status = "duplicate", !.duplicateOf = first]
  BY DEF RecordHash
<1> HIDE DEF u, group
<1>4. first \in group /\ \A q \in group \ {first} : Older(t, first, q)
  BY <1>0, <1>1, CanonicalIsOldest
<1> HIDE DEF first
<1>5. first \in DOMAIN t /\ first \in Nat /\ first # NoRow
  BY <1>0, <1>1, <1>4, TableTypes DEF NoRow
<1>6. ASSUME NEW q \in DOMAIN t
      PROVE  /\ u[q] \in Rows
             /\ u[q].place = t[q].place /\ u[q].stat = t[q].stat
             /\ u[q].lastSeenAt = t[q].lastSeenAt /\ u[q].firstSeenAt = t[q].firstSeenAt
             /\ u[q].frame = t[q].frame
             /\ u[q].status = t[q].status \/ u[q].status # "missing"
             /\ \/ u[q] = t[q]
                \/ u[q].status = "present" /\ u[q].duplicateOf = NoRow
                \/ /\ u[q].status = "duplicate" /\ u[q].duplicateOf = first
                   /\ Older(t, first, q)
  <2>1. t[q] \in Rows
    BY <1>0, TableTypes
  <2>2. CASE u[q] = t[q]
    BY <2>1, <2>2
  <2>3. CASE u[q] = [t[q] EXCEPT !.sha256 = h, !.status = "present", !.duplicateOf = NoRow]
    <3>1. [t[q] EXCEPT !.sha256 = h, !.status = "present", !.duplicateOf = NoRow] \in Rows
      BY <2>1 DEF Rows, Statuses, NoRow
    <3>2. /\ u[q].place = t[q].place /\ u[q].stat = t[q].stat
          /\ u[q].lastSeenAt = t[q].lastSeenAt /\ u[q].firstSeenAt = t[q].firstSeenAt
          /\ u[q].frame = t[q].frame
          /\ u[q].status = "present" /\ u[q].duplicateOf = NoRow
      BY <2>1, <2>3 DEF Rows
    <3> QED BY <2>3, <3>1, <3>2
  <2>4. CASE /\ q \in group \ {first}
             /\ u[q] = [t[q] EXCEPT !.sha256 = h, !.status = "duplicate", !.duplicateOf = first]
    BY <1>4, <1>5, <2>1, <2>4 DEF Rows, Statuses, NoRow
  <2> QED BY <1>3, <2>2, <2>3, <2>4
<1>7. u \in Seq(Rows)
  <2>1. u \in [DOMAIN t -> Rows]
    BY <1>2, <1>6
  <2> QED BY <1>0, <2>1, SameLength
<1>8. PlacesDistinct(u)
  BY <1>0, <1>2, <1>6 DEF PlacesDistinct
<1>9. LinksPointBack(u)
  <2>1. \A q, l \in DOMAIN t : Older(t, l, q) => Older(u, l, q)
    BY <1>6 DEF Older
  <2> QED BY <1>0, <1>2, <1>5, <1>6, <2>1 DEF LinksPointBack
<1>10. Keeps(t, u)
  BY <1>2, <1>6 DEF Keeps
<1> QED BY <1>2, <1>6, <1>7, <1>8, <1>9, <1>10 DEF SoundTable, u

-----------------------------------------------------------------------------
(* Moves.                                                                  *)

\* A missing row at a free place: the row that was moved stands for it.
LEMMA ReparentSound ==
  ASSUME NEW t, SoundTable(t), NEW r \in DOMAIN t, NEW p \in Places, NEW c \in Contents,
         NEW h \in Digests, NEW at \in Nat, t[r].status = "missing", ~PathTaken(t, r, p)
  PROVE  LET u == Reparent(t, r, p, c, h, at)
         IN /\ SoundTable(u) /\ Keeps(t, u) /\ DOMAIN u = DOMAIN t
            /\ ChangesOnly(t, u, p) /\ MovesMissing(t, u) /\ SeenHere(u, p, c, at)
<1> DEFINE u == Reparent(t, r, p, c, h, at)
<1>0. t \in Seq(Rows) /\ PlacesDistinct(t) /\ LinksPointBack(t)
  BY DEF SoundTable
<1>1. t[r] \in Rows
  BY <1>0, TableTypes
<1> DEFINE row == [t[r] EXCEPT !.place = p, !.stat = c, !.sha256 = h, !.status = "present",
                               !.lastSeenAt = at, !.duplicateOf = NoRow]
<1>2. u = [t EXCEPT ![r] = row]
  BY <1>0, <1>1, TableTypes DEF Reparent
<1>3. /\ row \in Rows /\ row.place = p /\ row.stat = c /\ row.status = "present"
      /\ row.lastSeenAt = at /\ row.duplicateOf = NoRow
      /\ row.firstSeenAt = t[r].firstSeenAt /\ row.frame = t[r].frame
  BY <1>1 DEF Rows, Statuses, NoRow
<1> HIDE DEF u, row
<1>4. DOMAIN u = DOMAIN t /\ u[r] = row /\ \A q \in DOMAIN t \ {r} : u[q] = t[q]
  BY <1>2
<1>5. u \in Seq(Rows)
  <2>1. u \in [DOMAIN t -> Rows]
    BY <1>0, <1>2, <1>3, TableTypes
  <2> QED BY <1>0, <2>1, SameLength
<1>6. \A q \in DOMAIN t \ {r} : t[q].place # p
  BY DEF PathTaken
<1>7. PlacesDistinct(u)
  BY <1>0, <1>3, <1>4, <1>6 DEF PlacesDistinct
<1>8. LinksPointBack(u)
  <2>1. \A q, l \in DOMAIN t : Older(t, l, q) => Older(u, l, q)
    BY <1>3, <1>4 DEF Older
  <2> QED BY <1>0, <1>3, <1>4, <2>1 DEF LinksPointBack
<1>9. Keeps(t, u) /\ ChangesOnly(t, u, p) /\ MovesMissing(t, u)
  BY <1>3, <1>4 DEF Keeps, ChangesOnly, MovesMissing
<1>10. SeenHere(u, p, c, at)
  BY <1>3, <1>4 DEF SeenHere, IsAt
<1> QED BY <1>4, <1>5, <1>7, <1>8, <1>9, <1>10 DEF SoundTable, u

\* Keeping is reflexive and transitive.
LEMMA KeepsAll ==
  /\ \A t : Keeps(t, t)
  /\ \A t, u, v : Keeps(t, u) /\ Keeps(u, v) => Keeps(t, v)
BY DEF Keeps

-----------------------------------------------------------------------------
(* What is under way, as far as it names rows among ids.                   *)

ItemsOf(type, ids) ==
  IF type = "scan"
  THEN [kind : {"same", "failed"}, place : Places, stat : Contents]
         \cup [kind : {"parsed"}, place : Places, stat : Contents, read : Contents]
         \cup [kind : {"moved"}, place : Places, stat : Contents, row : ids, sha256 : Digests]
  ELSE [kind : {"hashed"}, row : ids, sha256 : Digests] \cup [kind : {"hashError"}, row : ids]

MessagesOf(type, ids) ==
  [type : {"batch"}, items : Seq(ItemsOf(type, ids))] \cup [type : {"done", "stopped"}]

CandidatesOf(ids) == [row : ids, size : Nat, sha256 : Digests]

WorkOf(ids) ==
  {w \in [known : UNION {[ps -> Contents] : ps \in SUBSET Places},
          candidates : SUBSET CandidatesOf(ids),
          left : SUBSET Places, at : Places \cup {None}, stat : Contents \cup {None},
          batch : Seq(ItemsOf("scan", ids))] : w.at # None => w.stat # None}

ScanOf(ids) ==
  [status : {"new", "queued", "running", "ended", "over"},
   folder : Folders \cup {None}, startedAt : Nat, work : WorkOf(ids)]

HashOf(ids) ==
  [status : {"idle", "running", "ended"}, todo : SUBSET [row : ids, place : Places],
   batch : Seq(ItemsOf("hash", ids))]

TxType == IF txScan = NoJob THEN "hash" ELSE "scan"

ScansIn(ids) == scan \in [Scans -> ScanOf(ids)]
HashesIn(ids) == hash \in [Slots -> HashOf(ids)]
OutboxIn(ids) ==
  /\ outbox = [j \in Jobs |-> outbox[j]]
  /\ \A j \in Jobs : outbox[j] \in Seq(MessagesOf(j.type, ids))
ApplyingIn(ids) == applying \in Seq(ItemsOf(TxType, ids))

FlowIn(ids) == ScansIn(ids) /\ HashesIn(ids) /\ OutboxIn(ids) /\ ApplyingIn(ids)

PlainTypes ==
  /\ disk \in [Places -> Contents \cup {None}]
  /\ used \in [{"changes", "breaks"} -> Nat]
  /\ clock \in Nat /\ backlog \in Nat
  /\ txScan \in Scans \cup {NoJob} /\ sweeping \in Scans \cup {NoJob}
  /\ calm \subseteq Scans /\ racy \subseteq Places

Tables ==
  /\ SoundTable(rows) /\ SoundTable(savedRows)
  /\ applying # <<>> => Keeps(savedRows, rows)

IndexInvariant == PlainTypes /\ Tables /\ FlowIn(DOMAIN Committed)

-----------------------------------------------------------------------------
(* The invariant gives the properties of a state.                          *)

\* What the constants give for contents and places.
LEMMA DigestTypes ==
  /\ \A c \in Contents : Digest[c] \in Digests /\ c # None /\ Size[c] \in Nat
  /\ None \notin Contents
  /\ \A p \in Places : FolderOf[p] \in Folders
BY IndexerAssumption DEF Digests, Folders

\* Jobs are scans and hash passes, told apart by their type.
LEMMA JobTypes ==
  /\ \A s \in Scans : ScanJob(s) \in Jobs /\ ScanJob(s).type = "scan" /\ ScanJob(s).id = s
  /\ \A h \in Slots : HashJob(h) \in Jobs /\ HashJob(h).type = "hash" /\ HashJob(h).id = h
  /\ \A j \in Jobs : \/ j.type = "scan" /\ j.id \in Scans /\ j = ScanJob(j.id)
                     \/ j.type = "hash" /\ j.id \in Slots /\ j = HashJob(j.id)
  /\ \A s \in Scans : s \in Nat /\ s # NoJob
BY IndexerAssumption DEF Jobs, ScanJob, HashJob, Scans, NoJob

\* Items and messages that name rows among some ids name rows among more.
LEMMA ItemsGrow ==
  ASSUME NEW ids, NEW jds, ids \subseteq jds, NEW type
  PROVE  /\ ItemsOf(type, ids) \subseteq ItemsOf(type, jds)
         /\ Seq(ItemsOf(type, ids)) \subseteq Seq(ItemsOf(type, jds))
         /\ Seq(MessagesOf(type, ids)) \subseteq Seq(MessagesOf(type, jds))
<1>1. ItemsOf(type, ids) \subseteq ItemsOf(type, jds)
  BY DEF ItemsOf
<1>2. Seq(ItemsOf(type, ids)) \subseteq Seq(ItemsOf(type, jds))
  BY <1>1, SeqMonotonic
<1>3. MessagesOf(type, ids) \subseteq MessagesOf(type, jds)
  BY <1>2 DEF MessagesOf
<1> QED BY <1>1, <1>2, <1>3, SeqMonotonic

\* So does what the workers hold,
LEMMA WorkGrows ==
  ASSUME NEW ids, NEW jds, ids \subseteq jds
  PROVE  /\ ScanOf(ids) \subseteq ScanOf(jds) /\ HashOf(ids) \subseteq HashOf(jds)
         /\ WorkOf(ids) \subseteq WorkOf(jds)
<1>1. /\ Seq(ItemsOf("scan", ids)) \subseteq Seq(ItemsOf("scan", jds))
      /\ Seq(ItemsOf("hash", ids)) \subseteq Seq(ItemsOf("hash", jds))
  BY ItemsGrow
<1>2. CandidatesOf(ids) \subseteq CandidatesOf(jds)
  BY DEF CandidatesOf
<1>3. WorkOf(ids) \subseteq WorkOf(jds)
  BY <1>1, <1>2 DEF WorkOf
<1>4. ScanOf(ids) \subseteq ScanOf(jds)
  BY <1>3 DEF ScanOf
<1>5. HashOf(ids) \subseteq HashOf(jds)
  BY <1>1 DEF HashOf
<1> QED BY <1>3, <1>4, <1>5

\* and everything under way.
LEMMA FlowGrows ==
  ASSUME NEW ids, NEW jds, ids \subseteq jds, FlowIn(ids)
  PROVE  FlowIn(jds)
<1>1. ScansIn(jds) /\ HashesIn(jds)
  BY WorkGrows DEF FlowIn, ScansIn, HashesIn
<1>2. OutboxIn(jds)
  BY ItemsGrow DEF FlowIn, OutboxIn
<1>3. ApplyingIn(jds)
  BY ItemsGrow DEF FlowIn, ApplyingIn
<1> QED BY <1>1, <1>2, <1>3 DEF FlowIn

\* Committed rows are among the rows, and are a sound table themselves.
LEMMA CommittedRows ==
  ASSUME Tables
  PROVE  /\ SoundTable(Committed) /\ Keeps(Committed, rows)
         /\ DOMAIN Committed \subseteq DOMAIN rows
         /\ DOMAIN Committed \subseteq Nat
<1>1. SoundTable(Committed) /\ Keeps(Committed, rows)
  BY KeepsAll DEF Tables, Committed
<1>2. DOMAIN Committed \subseteq Nat
  BY <1>1, TableTypes DEF SoundTable
<1> QED BY <1>1, <1>2 DEF Keeps

\* The types, one row per place and the links are in the invariant.
LEMMA InvariantIsTyped == IndexInvariant => TypeOK
<1> SUFFICES ASSUME IndexInvariant PROVE TypeOK
  OBVIOUS
<1>1. FlowIn(Nat)
  BY CommittedRows, FlowGrows DEF IndexInvariant
<1>2. /\ ItemsOf("scan", Nat) \subseteq Items /\ ItemsOf("hash", Nat) \subseteq Items
      /\ \A type : ItemsOf(type, Nat) \subseteq Items
  BY DEF ItemsOf, Items
<1>3. \A type : Seq(ItemsOf(type, Nat)) \subseteq Seq(Items)
  BY <1>2, SeqMonotonic
<1>4. \A type : Seq(MessagesOf(type, Nat)) \subseteq Seq(Messages)
  <2> TAKE type
  <2>1. MessagesOf(type, Nat) \subseteq Messages
    BY <1>3 DEF MessagesOf, Messages
  <2> QED BY <2>1, SeqMonotonic
<1>5. outbox \in [Jobs -> Seq(Messages)] /\ applying \in Seq(Items)
  BY <1>1, <1>3, <1>4 DEF FlowIn, OutboxIn, ApplyingIn
<1>6. WorkOf(Nat) \subseteq Work
  BY <1>3 DEF WorkOf, Work, CandidatesOf
<1>7. scan \in [Scans -> [status : {"new", "queued", "running", "ended", "over"},
                          folder : Folders \cup {None}, startedAt : Nat, work : Work]]
  BY <1>1, <1>6 DEF FlowIn, ScansIn, ScanOf
<1>8. hash \in [Slots -> [status : {"idle", "running", "ended"},
                          todo : SUBSET [row : Nat, place : Places], batch : Seq(Items)]]
  BY <1>1, <1>3 DEF FlowIn, HashesIn, HashOf
<1> QED BY <1>5, <1>7, <1>8 DEF IndexInvariant, PlainTypes, Tables, SoundTable, TypeOK

\* The table is empty and nothing is under way.
LEMMA InvariantInit == Init => IndexInvariant
<1> SUFFICES ASSUME Init PROVE IndexInvariant
  OBVIOUS
<1>1. PlainTypes
  <2>1. used \in [{"changes", "breaks"} -> Nat]
    BY DEF Init
  <2> QED BY <2>1 DEF Init, PlainTypes, NoJob
<1>2. SoundTable(<<>>)
  <2>1. <<>> \in Seq(Rows) /\ DOMAIN <<>> = {}
    OBVIOUS
  <2> QED BY <2>1 DEF SoundTable, PlacesDistinct, LinksPointBack
<1>3. Tables
  BY <1>2 DEF Init, Tables, NoRows
<1>4. \A type, ids : /\ <<>> \in Seq(ItemsOf(type, ids))
                     /\ <<>> \in Seq(MessagesOf(type, ids))
  OBVIOUS
<1>5. NoWork \in WorkOf({})
  <2>1. NoFiles \in UNION {[ps -> Contents] : ps \in SUBSET Places}
    <3>1. NoFiles \in [{} -> Contents]
      BY DEF NoFiles
    <3> QED BY <3>1
  <2> QED BY <1>4, <2>1 DEF NoWork, WorkOf
<1>6. FlowIn({})
  <2>1. ScansIn({})
    BY <1>5 DEF Init, ScansIn, ScanOf, NewScan
  <2>2. HashesIn({})
    BY <1>4 DEF Init, HashesIn, HashOf, IdleHash
  <2>3. OutboxIn({}) /\ ApplyingIn({})
    BY <1>4 DEF Init, OutboxIn, ApplyingIn
  <2> QED BY <2>1, <2>2, <2>3 DEF FlowIn
<1>7. DOMAIN Committed = {}
  BY DEF Init, Committed
<1> QED BY <1>1, <1>3, <1>6, <1>7 DEF IndexInvariant

-----------------------------------------------------------------------------
(* Batches of a worker.                                                    *)

\* What a worker sends and keeps is of its kind.
LEMMA Sent ==
  ASSUME NEW type, NEW ids, NEW box \in Seq(MessagesOf(type, ids)),
         NEW items \in Seq(ItemsOf(type, ids)), NEW size,
         NEW message \in {Done, Stopped}
  PROVE  /\ Flushed(box, items, size) \in Seq(MessagesOf(type, ids))
         /\ Kept(items, size) \in Seq(ItemsOf(type, ids))
         /\ Finished(box, items, message) \in Seq(MessagesOf(type, ids))
<1>1. Batch(items) \in MessagesOf(type, ids) /\ message \in MessagesOf(type, ids)
  BY DEF Batch, MessagesOf, Done, Stopped
<1>2. Append(box, Batch(items)) \in Seq(MessagesOf(type, ids))
  BY <1>1, AppendProperties
<1>3. <<message>> \in Seq(MessagesOf(type, ids))
  BY <1>1
<1>4. (IF items = <<>> THEN box ELSE Append(box, Batch(items))) \in Seq(MessagesOf(type, ids))
  BY <1>2
<1>5. Finished(box, items, message) \in Seq(MessagesOf(type, ids))
  BY <1>3, <1>4, ConcatProperties DEF Finished
<1>6. <<>> \in Seq(ItemsOf(type, ids))
  OBVIOUS
<1> QED BY <1>2, <1>5, <1>6 DEF Flushed, Kept

\* A step of the scan worker that changes its work and its outbox within their types
\* keeps the invariant.
LEMMA ScanWorkerStep ==
  ASSUME IndexInvariant, NEW s \in Scans,
         NEW status \in {"running", "ended"}, NEW work \in WorkOf(DOMAIN Committed),
         NEW box \in Seq(MessagesOf("scan", DOMAIN Committed)),
         scan' = [scan EXCEPT ![s] = [scan[s] EXCEPT !.status = status, !.work = work]],
         outbox' = [outbox EXCEPT ![ScanJob(s)] = box],
         used' \in [{"changes", "breaks"} -> Nat],
         UNCHANGED <<disk, rows, clock, hash, backlog, txVars, sweeping, history>>
  PROVE  IndexInvariant'
<1>1. PlainTypes' /\ Tables' /\ Committed' = Committed
  BY DEF IndexInvariant, PlainTypes, Tables, Committed, txVars, history
<1> DEFINE ids == DOMAIN Committed
<1>2. scan[s] \in ScanOf(ids)
  BY DEF IndexInvariant, FlowIn, ScansIn
<1>3. [scan[s] EXCEPT !.status = status, !.work = work] \in ScanOf(ids)
  BY <1>2 DEF ScanOf
<1> HIDE DEF ids
<1>4. ScansIn(ids)'
  BY <1>1, <1>3 DEF IndexInvariant, FlowIn, ScansIn, ids
<1>5. HashesIn(ids)' /\ ApplyingIn(ids)'
  BY <1>1 DEF IndexInvariant, FlowIn, HashesIn, ApplyingIn, TxType, txVars, ids
<1>6. OutboxIn(ids)'
  <2>1. ScanJob(s) \in Jobs /\ ScanJob(s).type = "scan"
    BY JobTypes
  <2>2. \A j \in Jobs : outbox'[j] = IF j = ScanJob(s) THEN box ELSE outbox[j]
    BY <2>1 DEF IndexInvariant, FlowIn, OutboxIn
  <2>3. outbox' = [j \in Jobs |-> outbox'[j]]
    BY DEF IndexInvariant, FlowIn, OutboxIn
  <2> QED BY <1>1, <2>1, <2>2, <2>3 DEF IndexInvariant, FlowIn, OutboxIn, ids
<1> QED BY <1>1, <1>4, <1>5, <1>6 DEF IndexInvariant, FlowIn, ids

\* A step of a hash worker concerns its pass and its outbox.
LEMMA HashWorkerStep ==
  ASSUME IndexInvariant, NEW h \in Slots, NEW pass \in HashOf(DOMAIN Committed),
         NEW box \in Seq(MessagesOf("hash", DOMAIN Committed)),
         hash' = [hash EXCEPT ![h] = pass],
         outbox' = [outbox EXCEPT ![HashJob(h)] = box],
         used' \in [{"changes", "breaks"} -> Nat],
         UNCHANGED <<disk, rows, clock, scan, backlog, txVars, sweeping, history>>
  PROVE  IndexInvariant'
<1>1. PlainTypes' /\ Tables' /\ Committed' = Committed
  BY DEF IndexInvariant, PlainTypes, Tables, Committed, txVars, history
<1> DEFINE ids == DOMAIN Committed
<1> HIDE DEF ids
<1>4. HashesIn(ids)'
  BY <1>1 DEF IndexInvariant, FlowIn, HashesIn, ids
<1>5. ScansIn(ids)' /\ ApplyingIn(ids)'
  BY <1>1 DEF IndexInvariant, FlowIn, ScansIn, ApplyingIn, TxType, txVars, ids
<1>6. OutboxIn(ids)'
  <2>1. HashJob(h) \in Jobs /\ HashJob(h).type = "hash"
    BY JobTypes
  <2>2. \A j \in Jobs : outbox'[j] = IF j = HashJob(h) THEN box ELSE outbox[j]
    BY <2>1 DEF IndexInvariant, FlowIn, OutboxIn
  <2>3. outbox' = [j \in Jobs |-> outbox'[j]]
    BY DEF IndexInvariant, FlowIn, OutboxIn
  <2> QED BY <1>1, <2>1, <2>2, <2>3 DEF IndexInvariant, FlowIn, OutboxIn, ids
<1> QED BY <1>1, <1>4, <1>5, <1>6 DEF IndexInvariant, FlowIn, ids

-----------------------------------------------------------------------------
(* The workers.                                                            *)

\* The parts of what a scan worker holds.
LEMMA WorkTypes ==
  ASSUME IndexInvariant, NEW s \in Scans
  PROVE  LET w == scan[s].work
             ids == DOMAIN Committed
         IN /\ scan[s] \in ScanOf(ids) /\ w \in WorkOf(ids)
            /\ outbox[ScanJob(s)] \in Seq(MessagesOf("scan", ids))
            /\ w.left \subseteq Places /\ w.at \in Places \cup {None}
            /\ w.stat \in Contents \cup {None}
            /\ w.at # None => w.stat # None
            /\ w.batch \in Seq(ItemsOf("scan", ids))
            /\ w.candidates \subseteq CandidatesOf(ids)
            /\ w.known \in UNION {[ps -> Contents] : ps \in SUBSET Places}
<1>1. scan[s] \in ScanOf(DOMAIN Committed)
  BY DEF IndexInvariant, FlowIn, ScansIn
<1>2. scan[s].work \in WorkOf(DOMAIN Committed)
  BY <1>1 DEF ScanOf
<1>3. outbox[ScanJob(s)] \in Seq(MessagesOf("scan", DOMAIN Committed))
  BY JobTypes DEF IndexInvariant, FlowIn, OutboxIn
<1> QED BY <1>1, <1>2, <1>3 DEF WorkOf

\* Reporting an item within its type keeps the invariant.
LEMMA ReportStep ==
  ASSUME IndexInvariant, NEW s \in Scans, scan[s].status = "running",
         NEW left \in SUBSET Places, NEW item \in ItemsOf("scan", DOMAIN Committed),
         Report(s, left, item), ScanWorker
  PROVE  IndexInvariant'
<1> DEFINE ids == DOMAIN Committed
           w == scan[s].work
           items == Append(w.batch, item)
           work == [w EXCEPT !.left = left, !.at = None, !.stat = None,
                             !.batch = Kept(items, BatchSize)]
           box == Flushed(outbox[ScanJob(s)], items, BatchSize)
<1>1. w \in WorkOf(ids) /\ w.batch \in Seq(ItemsOf("scan", ids))
      /\ outbox[ScanJob(s)] \in Seq(MessagesOf("scan", ids))
      /\ scan[s] \in ScanOf(ids)
  BY WorkTypes
<1>2. items \in Seq(ItemsOf("scan", ids))
  BY <1>1, AppendProperties
<1>3. box \in Seq(MessagesOf("scan", ids)) /\ Kept(items, BatchSize) \in Seq(ItemsOf("scan", ids))
  BY <1>1, <1>2, Sent
<1>4. work \in WorkOf(ids)
  BY <1>1, <1>3 DEF WorkOf
<1>5. scan \in [Scans -> ScanOf(ids)]
  BY DEF IndexInvariant, FlowIn, ScansIn
<1>6. scan' = [scan EXCEPT ![s] = [scan[s] EXCEPT !.status = "running", !.work = work]]
  <2>1. [scan[s] EXCEPT !.work = work] = [scan[s] EXCEPT !.status = "running", !.work = work]
    BY <1>1 DEF ScanOf
  <2>2. scan' = [scan EXCEPT ![s] = [scan[s] EXCEPT !.work = work]]
    BY <1>1, <1>5 DEF Report, ScanOf, WorkOf
  <2> QED BY <2>1, <2>2
<1>7. outbox' = [outbox EXCEPT ![ScanJob(s)] = box]
  BY DEF Report
<1> QED BY <1>3, <1>4, <1>6, <1>7, ScanWorkerStep
        DEF ScanWorker, WorkerOnly, IndexInvariant, PlainTypes

\* A scan worker comes to a file.
LEMMA VisitStep ==
  ASSUME IndexInvariant, NEW s \in Scans, NEW p \in Places, Visit(s, p)
  PROVE  IndexInvariant'
<1> DEFINE ids == DOMAIN Committed
           w == scan[s].work
           left == w.left \ {p}
           c == disk[p]
<1>1. w \in WorkOf(ids) /\ scan[s] \in ScanOf(ids) /\ left \in SUBSET Places
      /\ outbox[ScanJob(s)] \in Seq(MessagesOf("scan", ids))
  BY WorkTypes
<1>2. c \in Contents \cup {None} /\ scan[s].status = "running" /\ ScanWorker
  BY DEF IndexInvariant, PlainTypes, Visit, Walking
<1>3. CASE c # None /\ IsUnchanged(w, p, c)
  <2>1. Same(p, c) \in ItemsOf("scan", ids)
    BY <1>2, <1>3 DEF Same, ItemsOf
  <2>2. Report(s, left, Same(p, c))
    BY <1>3 DEF Visit
  <2> QED BY <1>1, <1>2, <2>1, <2>2, ReportStep
<1>4. CASE ~(c # None /\ IsUnchanged(w, p, c))
  <2> DEFINE work == [w EXCEPT !.left = left, !.at = Pending(p, c), !.stat = c]
  <2>1. work \in WorkOf(ids)
    BY <1>1, <1>2 DEF WorkOf, Pending
  <2>2. scan \in [Scans -> ScanOf(ids)]
    BY DEF IndexInvariant, FlowIn, ScansIn
  <2>3. scan' = [scan EXCEPT ![s] = [scan[s] EXCEPT !.status = "running", !.work = work]]
    <3>1. [scan[s] EXCEPT !.work = work] = [scan[s] EXCEPT !.status = "running", !.work = work]
      BY <1>1, <1>2 DEF ScanOf
    <3>2. scan' = [scan EXCEPT ![s].work.left = left, ![s].work.at = Pending(p, c),
                               ![s].work.stat = c]
      BY <1>4 DEF Visit
    <3>3. scan' = [scan EXCEPT ![s] = [scan[s] EXCEPT !.work = work]]
      BY <1>1, <2>2, <3>2 DEF ScanOf, WorkOf
    <3> QED BY <3>1, <3>3
  <2>4. outbox' = [outbox EXCEPT ![ScanJob(s)] = outbox[ScanJob(s)]]
    BY <1>4, JobTypes DEF Visit, IndexInvariant, FlowIn, OutboxIn
  <2> QED BY <1>1, <1>2, <2>1, <2>3, <2>4, ScanWorkerStep
          DEF ScanWorker, WorkerOnly, IndexInvariant, PlainTypes
<1> QED BY <1>3, <1>4

\* Some candidate has the least row.
LEMMA LeastRow ==
  ASSUME NEW ids, ids \subseteq Nat, NEW T, T \subseteq CandidatesOf(ids), T # {}
  PROVE  (CHOOSE m \in T : \A n \in T : m.row <= n.row) \in T
<1>1. {n.row : n \in T} \in SUBSET Nat /\ {n.row : n \in T} # {}
  BY DEF CandidatesOf
<1>2. PICK r \in {n.row : n \in T} : \A q \in {n.row : n \in T} : r <= q
  BY <1>1, LeastNat
<1>3. \E k \in T : \A n \in T : k.row <= n.row
  BY <1>2
<1> QED BY <1>3

\* The item of a file that was opened: only what no row is known at has moved.
LEMMA ReadItem ==
  ASSUME IndexInvariant, NEW s \in Scans, ReadFile(s)
  PROVE  \E item \in ItemsOf("scan", DOMAIN Committed) :
           /\ Report(s, scan[s].work.left, item) /\ ScanWorker
           /\ item.place = scan[s].work.at /\ item.stat = scan[s].work.stat
           /\ item.kind = "moved" => /\ scan[s].work.at \notin DOMAIN scan[s].work.known
                                     /\ item.sha256 = Digest[disk[scan[s].work.at]]
           /\ item.kind = "parsed" => item.read = disk[scan[s].work.at]
           /\ item.kind # "same"
<1> DEFINE ids == DOMAIN Committed
           work == scan[s].work
           p == work.at
           c == work.stat
           d == disk[p]
           readable == d \notin Unreadable \cup {None}
           moves == IF p \in DOMAIN work.known \/ ~readable THEN {} ELSE DetectMove(work, c, d)
           m == CHOOSE m \in moves : \A n \in moves : m.row <= n.row
           item == CASE moves # {} -> Moved(p, c, m.row, m.sha256)
                     [] moves = {} /\ readable /\ d \notin Malformed -> Parsed(p, c, d)
                     [] OTHER -> Failed(p, c)
<1>1. /\ p \in Places /\ c \in Contents
      /\ d \in Contents \cup {None} /\ work.left \in SUBSET Places
      /\ moves \subseteq CandidatesOf(ids)
  <2>1. /\ work.left \subseteq Places /\ work.at \in Places \cup {None}
        /\ work.stat \in Contents \cup {None}
        /\ work.at # None => work.stat # None
        /\ work.candidates \subseteq CandidatesOf(ids)
    BY WorkTypes
  <2>2. work.at # None
    BY DEF ReadFile
  <2>3. disk \in [Places -> Contents \cup {None}]
    BY DEF IndexInvariant, PlainTypes
  <2>4. p \in Places /\ c \in Contents
    BY <2>1, <2>2
  <2>5. d \in Contents \cup {None}
    BY <2>3, <2>4
  <2>6. moves \subseteq work.candidates
    BY DEF DetectMove
  <2> HIDE DEF moves, d, work
  <2> QED BY <2>1, <2>2, <2>4, <2>5, <2>6
<1>2. ids \subseteq Nat
  BY CommittedRows DEF IndexInvariant
<1>3. item \in ItemsOf("scan", ids)
  <2>1. CASE moves # {}
    <3> HIDE DEF moves
    <3>1. m \in moves
      BY <1>1, <1>2, <2>1, LeastRow
    <3>2. m.row \in ids /\ m.sha256 \in Digests
      BY <1>1, <3>1 DEF CandidatesOf
    <3> HIDE DEF m
    <3>3. Moved(p, c, m.row, m.sha256) \in ItemsOf("scan", ids)
      BY <1>1, <3>2 DEF Moved, ItemsOf
    <3> QED BY <2>1, <3>3
  <2>2. CASE moves = {} /\ readable /\ d \notin Malformed
    <3>1. Parsed(p, c, d) \in ItemsOf("scan", ids)
      BY <1>1, <2>2 DEF Parsed, ItemsOf
    <3> QED BY <2>2, <3>1
  <2>3. CASE moves = {} /\ ~(readable /\ d \notin Malformed)
    <3>1. Failed(p, c) \in ItemsOf("scan", ids)
      BY <1>1 DEF Failed, ItemsOf
    <3> QED BY <2>3, <3>1
  <2> QED BY <2>1, <2>2, <2>3
<1>4. Report(s, work.left, item) /\ ScanWorker
  BY DEF ReadFile
<1>5. item.place = p /\ item.stat = c
  BY DEF Moved, Parsed, Failed
<1>6. /\ item.kind = "moved" => p \notin DOMAIN work.known
      /\ item.kind = "parsed" => item.read = d
      /\ item.kind # "same"
  BY DEF Moved, Parsed, Failed
<1>7. item.kind = "moved" => item.sha256 = Digest[d]
  <2>1. CASE moves # {}
    <3>1. m \in moves
      BY <1>1, <1>2, <2>1, LeastRow
    <3>2. moves \subseteq DetectMove(work, c, d)
      OBVIOUS
    <3> HIDE DEF moves, m
    <3>3. m.sha256 = Digest[d]
      BY <3>1, <3>2 DEF DetectMove
    <3> QED BY <2>1, <3>3 DEF Moved
  <2>2. CASE moves = {}
    BY <2>2 DEF Parsed, Failed
  <2> QED BY <2>1, <2>2
<1> HIDE DEF item
<1> QED BY <1>3, <1>4, <1>5, <1>6, <1>7

\* A scan worker reads a header.
LEMMA ReadFileStep ==
  ASSUME IndexInvariant, NEW s \in Scans, ReadFile(s)
  PROVE  IndexInvariant'
<1>1. PICK item \in ItemsOf("scan", DOMAIN Committed) :
        Report(s, scan[s].work.left, item) /\ ScanWorker
  BY ReadItem
<1>2. scan[s].status = "running" /\ scan[s].work.left \in SUBSET Places
  BY WorkTypes DEF ReadFile, Walking
<1> QED BY <1>1, <1>2, ReportStep

\* A scan that is not running holds nothing.
LEMMA EmptyWork == \A ids : NoWork \in WorkOf(ids)
<1> TAKE ids
<1>1. NoFiles \in UNION {[ps -> Contents] : ps \in SUBSET Places}
  <2>1. NoFiles \in [{} -> Contents]
    BY DEF NoFiles
  <2> QED BY <2>1
<1> QED BY <1>1 DEF NoWork, WorkOf

\* A walk that ends, or stops early, sends at most its last batch.
LEMMA WalkEndStep ==
  ASSUME IndexInvariant, NEW s \in Scans, WalkEnds(s) \/ WalkStops(s)
  PROVE  IndexInvariant'
<1> DEFINE ids == DOMAIN Committed
<1>1. /\ scan[s] \in ScanOf(ids) /\ scan[s].work.batch \in Seq(ItemsOf("scan", ids))
      /\ outbox[ScanJob(s)] \in Seq(MessagesOf("scan", ids))
  BY WorkTypes
<1>2. scan \in [Scans -> ScanOf(ids)]
  BY DEF IndexInvariant, FlowIn, ScansIn
<1>3. scan' = [scan EXCEPT ![s].status = "ended", ![s].work = NoWork]
  BY DEF WalkEnds, WalkStops
<1>4. scan' = [scan EXCEPT ![s] = [scan[s] EXCEPT !.status = "ended", !.work = NoWork]]
  BY <1>1, <1>2, <1>3 DEF ScanOf
<1>5. used' \in [{"changes", "breaks"} -> Nat]
      /\ UNCHANGED <<disk, rows, clock, hash, backlog, txVars, sweeping, history>>
  BY DEF WalkEnds, WalkStops, ScanWorker, WorkerOnly, Breaks, IndexInvariant, PlainTypes
<1>6. PICK items \in Seq(ItemsOf("scan", ids)), message \in {Done, Stopped} :
        outbox' = [outbox EXCEPT ![ScanJob(s)] = Finished(@, items, message)]
  <2>1. <<>> \in Seq(ItemsOf("scan", ids))
    OBVIOUS
  <2>2. CASE WalkEnds(s)
    BY <1>1, <2>2 DEF WalkEnds
  <2>3. CASE WalkStops(s)
    BY <1>1, <2>1, <2>3 DEF WalkStops, Leftover
  <2> QED BY <2>2, <2>3
<1>7. Finished(outbox[ScanJob(s)], items, message) \in Seq(MessagesOf("scan", ids))
  BY <1>1, Sent
<1> QED BY <1>4, <1>5, <1>6, <1>7, EmptyWork, ScanWorkerStep

\* The parts of what a hash worker holds.
LEMMA PassTypes ==
  ASSUME IndexInvariant, NEW h \in Slots
  PROVE  LET ids == DOMAIN Committed
         IN /\ hash[h] \in HashOf(ids) /\ hash[h].todo \subseteq [row : ids, place : Places]
            /\ hash[h].batch \in Seq(ItemsOf("hash", ids))
            /\ outbox[HashJob(h)] \in Seq(MessagesOf("hash", ids))
<1>1. hash[h] \in HashOf(DOMAIN Committed)
  BY DEF IndexInvariant, FlowIn, HashesIn
<1>2. outbox[HashJob(h)] \in Seq(MessagesOf("hash", DOMAIN Committed))
  BY JobTypes DEF IndexInvariant, FlowIn, OutboxIn
<1> QED BY <1>1, <1>2 DEF HashOf

\* A hash worker reads a file.
LEMMA HashNextStep ==
  ASSUME IndexInvariant, NEW h \in Slots, HashNext(h)
  PROVE  IndexInvariant'
<1> DEFINE ids == DOMAIN Committed
<1>1. PICK file \in hash[h].todo :
        LET c == disk[file.place]
            items == Append(hash[h].batch, IF c \in Unreadable \cup {None}
                                           THEN HashError(file.row)
                                           ELSE Hashed(file.row, Digest[c]))
        IN /\ hash' = [hash EXCEPT ![h].todo = @ \ {file},
                                   ![h].batch = Kept(items, HashBatchSize)]
           /\ outbox' = [outbox EXCEPT ![HashJob(h)] = Flushed(@, items, HashBatchSize)]
           /\ HashWorker
  BY DEF HashNext
<1> DEFINE c == disk[file.place]
           item == IF c \in Unreadable \cup {None} THEN HashError(file.row)
                                                  ELSE Hashed(file.row, Digest[c])
           items == Append(hash[h].batch, item)
           pass == [hash[h] EXCEPT !.todo = hash[h].todo \ {file},
                                   !.batch = Kept(items, HashBatchSize)]
           box == Flushed(outbox[HashJob(h)], items, HashBatchSize)
<1>2. /\ hash[h] \in HashOf(ids) /\ hash[h].todo \subseteq [row : ids, place : Places]
      /\ hash[h].batch \in Seq(ItemsOf("hash", ids))
      /\ outbox[HashJob(h)] \in Seq(MessagesOf("hash", ids))
  BY PassTypes
<1>3. file.row \in ids /\ c \in Contents \cup {None}
  BY <1>2 DEF IndexInvariant, PlainTypes
<1>4. item \in ItemsOf("hash", ids)
  BY <1>3, DigestTypes DEF HashError, Hashed, ItemsOf
<1> HIDE DEF item
<1>5. items \in Seq(ItemsOf("hash", ids))
  BY <1>2, <1>4, AppendProperties
<1>6. box \in Seq(MessagesOf("hash", ids))
      /\ Kept(items, HashBatchSize) \in Seq(ItemsOf("hash", ids))
  BY <1>2, <1>5, Sent
<1>7. pass \in HashOf(ids)
  BY <1>2, <1>6 DEF HashOf
<1>8. hash' = [hash EXCEPT ![h] = pass]
  <2>1. hash \in [Slots -> HashOf(ids)]
    BY DEF IndexInvariant, FlowIn, HashesIn
  <2> QED BY <1>1, <1>2, <2>1 DEF HashOf, item
<1>9. outbox' = [outbox EXCEPT ![HashJob(h)] = box]
  BY <1>1 DEF item
<1>10. used' \in [{"changes", "breaks"} -> Nat]
       /\ UNCHANGED <<disk, rows, clock, scan, backlog, txVars, sweeping, history>>
  BY <1>1 DEF HashWorker, WorkerOnly, IndexInvariant, PlainTypes
<1> HIDE DEF pass, box
<1> QED BY <1>6, <1>7, <1>8, <1>9, <1>10, HashWorkerStep

\* A hash worker ends or is stopped.
LEMMA HashEndStep ==
  ASSUME IndexInvariant, NEW h \in Slots, HashEnds(h) \/ HashStops(h)
  PROVE  IndexInvariant'
<1> DEFINE ids == DOMAIN Committed
           pass == [IdleHash EXCEPT !.status = "ended"]
<1>1. /\ hash[h].batch \in Seq(ItemsOf("hash", ids))
      /\ outbox[HashJob(h)] \in Seq(MessagesOf("hash", ids))
  BY PassTypes
<1>2. hash' = [hash EXCEPT ![h] = pass]
  BY DEF HashEnds, HashStops
<1>3. pass \in HashOf(ids)
  <2>1. <<>> \in Seq(ItemsOf("hash", ids))
    OBVIOUS
  <2> QED BY <2>1 DEF IdleHash, HashOf
<1>4. used' \in [{"changes", "breaks"} -> Nat]
      /\ UNCHANGED <<disk, rows, clock, scan, backlog, txVars, sweeping, history>>
  BY DEF HashEnds, HashStops, HashWorker, WorkerOnly, Breaks, IndexInvariant, PlainTypes
<1>5. PICK items \in Seq(ItemsOf("hash", ids)), message \in {Done, Stopped} :
        outbox' = [outbox EXCEPT ![HashJob(h)] = Finished(@, items, message)]
  <2>1. <<>> \in Seq(ItemsOf("hash", ids))
    OBVIOUS
  <2>2. CASE HashEnds(h)
    BY <1>1, <2>2 DEF HashEnds
  <2>3. CASE HashStops(h)
    BY <1>1, <2>1, <2>3 DEF HashStops, Leftover
  <2> QED BY <2>2, <2>3
<1>6. Finished(outbox[HashJob(h)], items, message) \in Seq(MessagesOf("hash", ids))
  BY <1>1, Sent
<1> QED BY <1>2, <1>3, <1>4, <1>5, <1>6, HashWorkerStep

-----------------------------------------------------------------------------
(* Dispatch.                                                               *)

\* The snapshots taken at dispatch name rows of the table.
LEMMA SnapshotTypes ==
  ASSUME IndexInvariant, NEW f, applying = <<>>
  PROVE  [NoWork EXCEPT !.known = KnownFiles(rows, f), !.candidates = MoveCandidates(rows),
                        !.left = {p \in Places : FolderOf[p] = f}]
           \in WorkOf(DOMAIN Committed)
<1>1. Committed = rows /\ rows \in Seq(Rows)
  BY DEF Committed, IndexInvariant, Tables, SoundTable
<1>2. KnownFiles(rows, f) \in UNION {[ps -> Contents] : ps \in SUBSET Places}
  <2> DEFINE ps == {rows[r].place : r \in {q \in DOMAIN rows : FolderOf[rows[q].place] = f}}
  <2>1. ps \subseteq Places
    BY <1>1, TableTypes
  <2>2. \A p \in ps : Indexed(rows, p)
    BY DEF Indexed, IsAt
  <2>3. \A p \in ps : rows[RowAt(rows, p)].stat \in Contents
    BY <1>1, <2>2, RowAtIsAt, TableTypes
  <2>4. KnownFiles(rows, f) = [p \in ps |-> rows[RowAt(rows, p)].stat]
    BY DEF KnownFiles
  <2> HIDE DEF ps
  <2>5. KnownFiles(rows, f) \in [ps -> Contents]
    BY <2>3, <2>4
  <2> QED BY <2>1, <2>5
<1>3. MoveCandidates(rows) \subseteq CandidatesOf(DOMAIN Committed)
  <2> SUFFICES ASSUME NEW r \in DOMAIN rows, rows[r].sha256 # None
               PROVE  [row |-> r, size |-> Size[rows[r].stat], sha256 |-> rows[r].sha256]
                        \in CandidatesOf(DOMAIN rows)
    BY <1>1 DEF MoveCandidates
  <2>1. Size[rows[r].stat] \in Nat /\ rows[r].sha256 \in Digests
    BY <1>1, TableTypes, DigestTypes
  <2> QED BY <2>1 DEF CandidatesOf
<1>4. NoWork \in WorkOf(DOMAIN Committed)
  BY EmptyWork
<1> QED BY <1>2, <1>3, <1>4 DEF WorkOf, NoWork

\* A job is claimed and gets its snapshots.
LEMMA ClaimStep ==
  ASSUME IndexInvariant, Claim
  PROVE  IndexInvariant'
<1> DEFINE ids == DOMAIN Committed
<1>1. ASSUME NEW s \in Scans, NEW f \in Folders \cup {None}, applying = <<>>, Dispatch(s, f),
             UNCHANGED <<rows, txVars>>
      PROVE  ScansIn(ids)'
  <2> DEFINE row == [status |-> "running", folder |-> f, startedAt |-> StartedAt(s),
                     work |-> [NoWork EXCEPT !.known = KnownFiles(rows, f),
                                             !.candidates = MoveCandidates(rows),
                                             !.left = {p \in Places : FolderOf[p] = f}]]
  <2>1. StartedAt(s) \in Nat
    BY WorkTypes DEF StartedAt, ScanOf, IndexInvariant, PlainTypes
  <2>2. row \in ScanOf(ids)
    BY <1>1, <2>1, SnapshotTypes DEF ScanOf
  <2>3. scan' = [scan EXCEPT ![s] = row] /\ scan \in [Scans -> ScanOf(ids)]
    BY <1>1 DEF Dispatch, IndexInvariant, FlowIn, ScansIn
  <2> HIDE DEF row, ids
  <2>4. scan' \in [Scans -> ScanOf(ids)]
    BY <2>2, <2>3
  <2>5. ids' = ids
    BY <1>1 DEF ids, Committed, txVars
  <2> QED BY <2>4, <2>5 DEF ScansIn
<1>2. ASSUME UNCHANGED <<rows, txVars, outbox>>
      PROVE  Tables' /\ Committed' = Committed /\ OutboxIn(ids)' /\ ApplyingIn(ids)'
  BY <1>2 DEF txVars, IndexInvariant, Tables, Committed, FlowIn, OutboxIn, ApplyingIn, TxType
<1>3. ASSUME NEW s \in Scans, NEW f \in Folders, ClaimScan(s, f) PROVE IndexInvariant'
  <2>1. Tables' /\ Committed' = Committed /\ OutboxIn(ids)' /\ ApplyingIn(ids)'
    BY <1>2, <1>3 DEF ClaimScan
  <2>2. PlainTypes'
    BY <1>3 DEF ClaimScan, IndexInvariant, PlainTypes, txVars
  <2>3. ScansIn(ids)'
    BY <1>1, <1>3 DEF ClaimScan
  <2>4. HashesIn(ids)'
    BY <1>3, <2>1 DEF ClaimScan, IndexInvariant, FlowIn, HashesIn
  <2> QED BY <2>1, <2>2, <2>3, <2>4 DEF IndexInvariant, FlowIn
<1>4. ASSUME NEW s \in Scans, ClaimRequeued(s) PROVE IndexInvariant'
  <2>1. Tables' /\ Committed' = Committed /\ OutboxIn(ids)' /\ ApplyingIn(ids)'
    BY <1>2, <1>4 DEF ClaimRequeued
  <2>2. PlainTypes'
    BY <1>4 DEF ClaimRequeued, IndexInvariant, PlainTypes, txVars, history
  <2>3. ScansIn(ids)'
    <3>1. scan[s].folder \in Folders \cup {None}
      BY WorkTypes DEF ScanOf
    <3> QED BY <1>1, <1>4, <3>1 DEF ClaimRequeued
  <2>4. HashesIn(ids)'
    BY <1>4, <2>1 DEF ClaimRequeued, IndexInvariant, FlowIn, HashesIn
  <2> QED BY <2>1, <2>2, <2>3, <2>4 DEF IndexInvariant, FlowIn
<1>5. ASSUME NEW h \in Slots, ClaimHash(h) PROVE IndexInvariant'
  <2>1. Tables' /\ Committed' = Committed /\ OutboxIn(ids)' /\ ApplyingIn(ids)'
    BY <1>2, <1>5 DEF ClaimHash
  <2>2. PlainTypes'
    <3>1. backlog' \in Nat
      BY <1>5 DEF ClaimHash, IndexInvariant, PlainTypes
    <3> QED BY <1>5, <3>1 DEF ClaimHash, IndexInvariant, PlainTypes, txVars, history
  <2>3. ScansIn(ids)'
    BY <1>5, <2>1 DEF ClaimHash, IndexInvariant, FlowIn, ScansIn
  <2>4. HashesIn(ids)'
    <3>1. PICK rs \in OldestUnhashed(rows, HashLimit) :
            hash' = [hash EXCEPT ![h] =
              [status |-> "running", batch |-> <<>>,
               todo |-> {[row |-> r, place |-> rows[r].place] : r \in rs}]]
      BY <1>5 DEF ClaimHash
    <3>2. Committed = rows /\ rows \in Seq(Rows) /\ rs \subseteq DOMAIN rows
      BY <1>5 DEF ClaimHash, AtRest, Committed, OldestUnhashed, Unhashed, IndexInvariant,
                  Tables, SoundTable
    <3>3. {[row |-> r, place |-> rows[r].place] : r \in rs} \subseteq [row : ids, place : Places]
      BY <3>2, TableTypes
    <3> DEFINE pass == [status |-> "running", batch |-> <<>>,
                        todo |-> {[row |-> r, place |-> rows[r].place] : r \in rs}]
    <3>4. pass \in HashOf(ids)
      <4>1. <<>> \in Seq(ItemsOf("hash", ids))
        OBVIOUS
      <4> QED BY <3>3, <4>1 DEF HashOf
    <3>5. hash \in [Slots -> HashOf(ids)] /\ hash' = [hash EXCEPT ![h] = pass]
      BY <3>1 DEF IndexInvariant, FlowIn, HashesIn
    <3> HIDE DEF pass, ids
    <3>6. hash' \in [Slots -> HashOf(ids)]
      BY <3>4, <3>5
    <3>7. ids' = ids
      BY <2>1 DEF ids
    <3> QED BY <3>6, <3>7 DEF HashesIn
  <2> QED BY <2>1, <2>2, <2>3, <2>4 DEF IndexInvariant, FlowIn
<1> QED BY <1>3, <1>4, <1>5 DEF Claim, ClaimQueued

-----------------------------------------------------------------------------
(* The disk, and messages that are no batches.                             *)

\* The table does not know of changes of the disk.
LEMMA DiskStep ==
  ASSUME IndexInvariant, DiskChanges
  PROVE  IndexInvariant'
<1>2. disk' \in [Places -> Contents \cup {None}]
  <2>1. disk \in [Places -> Contents \cup {None}]
    BY DEF IndexInvariant, PlainTypes
  <2>2. ASSUME NEW p \in Places, NEW c \in Contents, WriteFile(p, c)
        PROVE  disk' \in [Places -> Contents \cup {None}]
    BY <2>1, <2>2 DEF WriteFile
  <2>3. ASSUME NEW p \in Places, DeleteFile(p)
        PROVE  disk' \in [Places -> Contents \cup {None}]
    BY <2>1, <2>3 DEF DeleteFile
  <2>4. ASSUME NEW p \in Places, NEW q \in Places, MoveFile(p, q)
        PROVE  disk' \in [Places -> Contents \cup {None}]
    BY <2>1, <2>4 DEF MoveFile
  <2> QED BY <2>2, <2>3, <2>4 DEF DiskChanges
<1>3. /\ UNCHANGED <<rows, clock, scan, hash, backlog, outbox, txVars, sweeping>>
      /\ used' = [used EXCEPT !.changes = @ + 1]
      /\ calm' \subseteq calm /\ racy' \subseteq racy \cup Places
  <2>1. ASSUME NEW kind, NEW ps \in SUBSET Places, Changed(kind, ps)
        PROVE  /\ UNCHANGED <<rows, clock, scan, hash, backlog, outbox, txVars, sweeping>>
               /\ used' = [used EXCEPT !.changes = @ + 1]
               /\ calm' \subseteq calm /\ racy' \subseteq racy \cup Places
    BY <2>1 DEF Changed
  <2>2. \A p, q \in Places : {p} \in SUBSET Places /\ {p, q} \in SUBSET Places
    OBVIOUS
  <2> QED BY <2>1, <2>2 DEF DiskChanges, WriteFile, DeleteFile, MoveFile
<1>4. PlainTypes'
  <2>1. used' \in [{"changes", "breaks"} -> Nat]
    BY <1>3 DEF IndexInvariant, PlainTypes
  <2> QED BY <1>2, <1>3, <2>1 DEF IndexInvariant, PlainTypes, txVars
<1>5. Tables' /\ Committed' = Committed
  BY <1>3 DEF IndexInvariant, Tables, Committed, txVars
<1>6. FlowIn(DOMAIN Committed)'
  BY <1>3, <1>5 DEF IndexInvariant, FlowIn, ScansIn, HashesIn, OutboxIn, ApplyingIn, TxType, txVars
<1> QED BY <1>4, <1>5, <1>6 DEF IndexInvariant

\* Taking a message off an outbox leaves messages of its type.
LEMMA PopTypes ==
  ASSUME NEW ids, OutboxIn(ids), NEW j \in Jobs, outbox[j] # <<>>, Pop(j)
  PROVE  /\ outbox' = [i \in Jobs |-> outbox'[i]]
         /\ \A i \in Jobs : outbox'[i] \in Seq(MessagesOf(i.type, ids))
         /\ Head(outbox[j]) \in MessagesOf(j.type, ids)
<1>1. Head(outbox[j]) \in MessagesOf(j.type, ids) /\ Tail(outbox[j]) \in Seq(MessagesOf(j.type, ids))
  BY HeadTailProperties DEF OutboxIn
<1>2. \A i \in Jobs : outbox'[i] = IF i = j THEN Tail(outbox[j]) ELSE outbox[i]
  BY DEF Pop, OutboxIn
<1>3. outbox' = [i \in Jobs |-> outbox'[i]]
  BY DEF Pop, OutboxIn
<1> QED BY <1>1, <1>2, <1>3 DEF OutboxIn

\* A final message is taken.
LEMMA EndStep ==
  ASSUME IndexInvariant,
         \/ \E s \in Scans : ScanDone(s)
         \/ \E h \in Slots : HashDone(h)
         \/ \E j \in Jobs : JobStopped(j)
  PROVE  IndexInvariant' /\ Committed' = Committed
<1> DEFINE ids == DOMAIN Committed
<1>1. UNCHANGED <<disk, used, rows, clock, txVars, history>>
  BY DEF ScanDone, HashDone, JobStopped
<1>2. Tables' /\ Committed' = Committed /\ ApplyingIn(ids)'
  BY <1>1 DEF IndexInvariant, Tables, Committed, txVars, FlowIn, ApplyingIn, TxType
<1>3. PlainTypes'
  <2>1. backlog \in Nat /\ sweeping \in Scans \cup {NoJob}
    BY DEF IndexInvariant, PlainTypes
  <2>2. WithBacklog(backlog, rows) \in Nat
    BY <2>1 DEF WithBacklog
  <2>3. backlog' \in {backlog, WithBacklog(backlog, rows)} /\ sweeping' \in Scans \cup {NoJob}
    BY <2>1 DEF ScanDone, HashDone, JobStopped
  <2> QED BY <1>1, <2>1, <2>2, <2>3 DEF IndexInvariant, PlainTypes, txVars, history
<1>4. OutboxIn(ids)'
  <2>1. PICK j \in Jobs : outbox[j] # <<>> /\ Pop(j)
    BY JobTypes DEF ScanDone, HashDone, JobStopped, Arrives
  <2>2. OutboxIn(ids)
    BY DEF IndexInvariant, FlowIn
  <2> HIDE DEF ids
  <2>3. /\ outbox' = [i \in Jobs |-> outbox'[i]]
        /\ \A i \in Jobs : outbox'[i] \in Seq(MessagesOf(i.type, ids))
    BY <2>1, <2>2, PopTypes
  <2> QED BY <1>2, <2>3 DEF OutboxIn, ids
<1>5. ScansIn(ids)'
  <2>1. scan' = scan \/ \E s \in Scans : scan' = [scan EXCEPT ![s].status = "over"]
    BY JobTypes DEF ScanDone, HashDone, JobStopped
  <2>2. \A s \in Scans : [scan[s] EXCEPT !.status = "over"] \in ScanOf(ids)
    BY WorkTypes DEF ScanOf
  <2>3. scan \in [Scans -> ScanOf(ids)]
    BY DEF IndexInvariant, FlowIn, ScansIn
  <2> HIDE DEF ids
  <2>4. scan' \in [Scans -> ScanOf(ids)]
    BY <2>1, <2>2, <2>3
  <2> QED BY <1>2, <2>4 DEF ScansIn, ids
<1>6. HashesIn(ids)'
  <2>1. hash' = hash \/ \E h \in Slots : hash' = [hash EXCEPT ![h] = IdleHash]
    BY JobTypes DEF ScanDone, HashDone, JobStopped
  <2>2. IdleHash \in HashOf(ids)
    <3>1. <<>> \in Seq(ItemsOf("hash", ids))
      OBVIOUS
    <3> QED BY <3>1 DEF IdleHash, HashOf
  <2>3. hash \in [Slots -> HashOf(ids)]
    BY DEF IndexInvariant, FlowIn, HashesIn
  <2> HIDE DEF ids
  <2>4. hash' \in [Slots -> HashOf(ids)]
    BY <2>1, <2>2, <2>3
  <2> QED BY <1>2, <2>4 DEF HashesIn, ids
<1> QED BY <1>2, <1>3, <1>4, <1>5, <1>6 DEF IndexInvariant, FlowIn

-----------------------------------------------------------------------------
(* The open transaction.                                                   *)

\* A batch is taken: a transaction begins, or is empty.
LEMMA TakeBatchStep ==
  ASSUME IndexInvariant, NEW j \in Jobs, TakeBatch(j)
  PROVE  IndexInvariant' /\ Keeps(Committed, Committed')
<1> DEFINE ids == DOMAIN Committed
<1>1. /\ applying = <<>> /\ outbox[j] # <<>> /\ Head(outbox[j]).type = "batch" /\ Pop(j)
      /\ applying' = Head(outbox[j]).items
      /\ txScan' = IF j.type = "scan" THEN j.id ELSE NoJob
      /\ savedRows' = rows
      /\ UNCHANGED <<disk, used, rows, clock, scan, hash, backlog, sweeping, history>>
  BY DEF TakeBatch, Arrives, AtRest
<1>2. Tables' /\ Committed' = rows /\ Committed = rows
  BY <1>1, KeepsAll DEF IndexInvariant, Tables, Committed
<1>3. Keeps(Committed, Committed')
  BY <1>2, KeepsAll
<1>4. PlainTypes'
  BY <1>1, JobTypes DEF IndexInvariant, PlainTypes, history
<1>5. /\ outbox' = [i \in Jobs |-> outbox'[i]]
      /\ \A i \in Jobs : outbox'[i] \in Seq(MessagesOf(i.type, ids))
      /\ Head(outbox[j]) \in MessagesOf(j.type, ids)
  <2>1. OutboxIn(ids)
    BY DEF IndexInvariant, FlowIn
  <2> HIDE DEF ids
  <2> QED BY <1>1, <2>1, PopTypes
<1>6. applying' \in Seq(ItemsOf(j.type, ids))
  BY <1>1, <1>5 DEF MessagesOf, Done, Stopped
<1>7. TxType' = j.type
  BY <1>1, JobTypes DEF TxType
<1>8. FlowIn(ids)'
  BY <1>1, <1>2, <1>5, <1>6, <1>7 DEF IndexInvariant, FlowIn, ScansIn, HashesIn, OutboxIn, ApplyingIn
<1> QED BY <1>3, <1>2, <1>4, <1>8 DEF IndexInvariant

\* What the item at hand may be.
LEMMA ItemTypes ==
  ASSUME IndexInvariant, applying # <<>>
  PROVE  LET ids == DOMAIN savedRows
         IN /\ Item \in ItemsOf(TxType, ids) /\ Tail(applying) \in Seq(ItemsOf(TxType, ids))
            /\ ids \subseteq DOMAIN rows /\ Committed = savedRows
            /\ Item.kind \in {"same", "parsed", "failed", "moved"} =>
                 /\ TxType = "scan" /\ txScan \in Scans /\ SeenAt \in Nat
                 /\ Item.place \in Places /\ Item.stat \in Contents
            /\ Item.kind = "parsed" => Item.read \in Contents
            /\ Item.kind = "moved" => Item.row \in ids /\ Item.sha256 \in Digests
            /\ Item.kind \in {"hashed", "hashError"} => Item.row \in ids /\ TxType = "hash"
            /\ Item.kind = "hashed" => Item.sha256 \in Digests
<1> DEFINE ids == DOMAIN savedRows
<1>1. Committed = savedRows
  BY DEF Committed
<1>2. Item \in ItemsOf(TxType, ids) /\ Tail(applying) \in Seq(ItemsOf(TxType, ids))
  BY <1>1, HeadTailProperties DEF IndexInvariant, FlowIn, ApplyingIn, Item
<1>3. ids \subseteq DOMAIN rows
  BY <1>1, CommittedRows DEF IndexInvariant
<1>4. TxType = "scan" => txScan \in Scans /\ SeenAt \in Nat
  <2>1. TxType = "scan" => txScan \in Scans
    BY DEF TxType, IndexInvariant, PlainTypes
  <2> QED BY <2>1, WorkTypes DEF SeenAt, ScanOf
<1>5. TxType \in {"scan", "hash"}
  BY DEF TxType
<1> HIDE DEF ids
<1>6. CASE TxType = "scan"
  BY <1>1, <1>2, <1>3, <1>4, <1>6 DEF ItemsOf, ids
<1>7. CASE TxType = "hash"
  BY <1>1, <1>2, <1>3, <1>7 DEF ItemsOf, ids
<1> QED BY <1>5, <1>6, <1>7

\* Writing an item into a sound table that keeps the rows keeps the invariant.
LEMMA WriteStep ==
  ASSUME IndexInvariant, applying # <<>>, NEW table, SoundTable(table), Keeps(rows, table),
         Writes(table), racy' \subseteq Places
  PROVE  IndexInvariant' /\ Keeps(Committed, Committed')
<1>1. /\ rows' = table /\ applying' = Tail(applying)
      /\ \/ /\ applying' = <<>> /\ txScan' = NoJob /\ savedRows' = NoRows
         \/ /\ applying' # <<>> /\ txScan' = txScan /\ savedRows' = savedRows
      /\ UNCHANGED <<disk, used, clock, scan, hash, backlog, outbox, sweeping, calm>>
  BY DEF Writes
<1>2. Keeps(savedRows, table)
  BY KeepsAll DEF IndexInvariant, Tables
<1>3. Committed = savedRows /\ Keeps(Committed, Committed')
  BY <1>1, <1>2, KeepsAll DEF Committed
<1>4. SoundTable(<<>>)
  <2>1. <<>> \in Seq(Rows) /\ DOMAIN <<>> = {}
    OBVIOUS
  <2> QED BY <2>1 DEF SoundTable, PlacesDistinct, LinksPointBack
<1>5. Tables'
  BY <1>1, <1>2, <1>4 DEF IndexInvariant, Tables, NoRows
<1>6. PlainTypes'
  BY <1>1 DEF IndexInvariant, PlainTypes
<1>7. ApplyingIn(DOMAIN Committed)'
  <2>1. CASE applying' = <<>>
    BY <2>1 DEF ApplyingIn
  <2>2. CASE applying' # <<>>
    BY <1>1, <2>2, ItemTypes DEF ApplyingIn, TxType, Committed
  <2> QED BY <2>1, <2>2
<1> DEFINE ids == DOMAIN Committed
           jds == DOMAIN Committed'
<1>8. ids \subseteq jds
  BY <1>3 DEF Keeps
<1>9. ScansIn(DOMAIN Committed)' /\ HashesIn(DOMAIN Committed)' /\ OutboxIn(DOMAIN Committed)'
  <2>1. ScansIn(ids) /\ HashesIn(ids) /\ OutboxIn(ids)
    BY DEF IndexInvariant, FlowIn
  <2> HIDE DEF ids, jds
  <2>2. ScansIn(jds) /\ HashesIn(jds) /\ OutboxIn(jds)
    BY <1>8, <2>1, WorkGrows, ItemsGrow DEF ScansIn, HashesIn, OutboxIn
  <2> QED BY <1>1, <2>2 DEF ScansIn, HashesIn, OutboxIn, jds
<1> QED BY <1>3, <1>5, <1>6, <1>7, <1>9 DEF IndexInvariant, FlowIn

\* The table a discovered item leaves.
LEMMA DiscoveredTable ==
  ASSUME IndexInvariant, WriteDiscovered
  PROVE  \E table : /\ Write(table) /\ SoundTable(table) /\ Keeps(rows, table)
                    /\ ChangesOnly(rows, table, Item.place) /\ KeepsPlaces(rows, table)
                    /\ SeenHere(table, Item.place, Item.stat, SeenAt)
<1> DEFINE p == Item.place
           t == UpsertDiscovered(rows, p, Item.stat, SeenAt)
<1>1. applying # <<>> /\ Item.kind \in {"same", "parsed", "failed", "moved"}
  BY DEF WriteDiscovered, Arriving, FellThrough
<1>2. p \in Places /\ Item.stat \in Contents /\ SeenAt \in Nat
      /\ (Item.kind = "parsed" => Item.read \in Contents)
  BY <1>1, ItemTypes
<1>3. SoundTable(rows)
  BY DEF IndexInvariant, Tables
<1>4. /\ SoundTable(t) /\ Keeps(rows, t) /\ ChangesOnly(rows, t, p)
      /\ KeepsPlaces(rows, t) /\ SeenHere(t, p, Item.stat, SeenAt)
  BY <1>2, <1>3, UpsertSound
<1>5. Write(CASE Item.kind = "parsed" -> RecordFrame(t, p, Item.read)
              [] Item.kind = "failed" -> RecordParseError(t, p)
              [] OTHER -> t)
  BY DEF WriteDiscovered
<1> HIDE DEF t
<1>6. ASSUME NEW u, ChangesOnly(t, u, p), KeepsPlaces(t, u)
      PROVE  ChangesOnly(rows, u, p) /\ KeepsPlaces(rows, u)
  BY <1>4, <1>6 DEF ChangesOnly, KeepsPlaces
<1>7. CASE Item.kind = "parsed"
  <2>1. Write(RecordFrame(t, p, Item.read))
    BY <1>5, <1>7
  <2> DEFINE u == RecordFrame(t, p, Item.read)
  <2>2. /\ SoundTable(u) /\ Keeps(t, u) /\ ChangesOnly(t, u, p)
        /\ KeepsPlaces(t, u) /\ SeenHere(u, p, Item.stat, SeenAt)
    BY <1>2, <1>4, <1>7, RecordsSound, DigestTypes
  <2> HIDE DEF u
  <2> QED BY <1>4, <1>6, <2>1, <2>2, KeepsAll DEF u
<1>8. CASE Item.kind = "failed"
  <2>1. Write(RecordParseError(t, p))
    BY <1>5, <1>8
  <2> DEFINE u == RecordParseError(t, p)
  <2>2. /\ SoundTable(u) /\ Keeps(t, u) /\ ChangesOnly(t, u, p)
        /\ KeepsPlaces(t, u) /\ SeenHere(u, p, Item.stat, SeenAt)
    BY <1>2, <1>4, RecordsSound, DigestTypes
  <2> HIDE DEF u
  <2> QED BY <1>4, <1>6, <2>1, <2>2, KeepsAll DEF u
<1>9. CASE Item.kind \notin {"parsed", "failed"}
  BY <1>4, <1>5, <1>9
<1> QED BY <1>7, <1>8, <1>9

\* The table a moved file leaves: its row is at the new place, hashed again.
LEMMA MovedTable ==
  ASSUME IndexInvariant, WriteMoved
  PROVE  \E table, moved :
           /\ Writes(table) /\ SoundTable(table) /\ Keeps(rows, table)
           /\ SoundTable(moved) /\ ChangesOnly(rows, moved, Item.place)
           /\ MovesMissing(rows, moved) /\ SeenHere(moved, Item.place, Item.stat, SeenAt)
           /\ DOMAIN table = DOMAIN moved
           /\ \A q \in DOMAIN moved :
                /\ table[q].place = moved[q].place /\ table[q].stat = moved[q].stat
                /\ table[q].lastSeenAt = moved[q].lastSeenAt
                /\ table[q].status = moved[q].status \/ table[q].status # "missing"
<1> DEFINE moved == Reparent(rows, Item.row, Item.place, Item.stat, Item.sha256, SeenAt)
           table == RecordHash(moved, Item.row, Item.sha256)
<1>1. /\ applying # <<>> /\ Item.kind = "moved" /\ Writes(table)
      /\ rows[Item.row].status = "missing" /\ ~PathTaken(rows, Item.row, Item.place)
  BY DEF WriteMoved, Arriving, StillMissing
<1>2. /\ Item.row \in DOMAIN rows /\ Item.place \in Places /\ Item.stat \in Contents
      /\ Item.sha256 \in Digests /\ SeenAt \in Nat
  BY <1>1, ItemTypes
<1>3. SoundTable(rows)
  BY DEF IndexInvariant, Tables
<1>4. /\ SoundTable(moved) /\ Keeps(rows, moved) /\ DOMAIN moved = DOMAIN rows
      /\ ChangesOnly(rows, moved, Item.place) /\ MovesMissing(rows, moved)
      /\ SeenHere(moved, Item.place, Item.stat, SeenAt)
  BY <1>1, <1>2, <1>3, ReparentSound
<1> HIDE DEF moved
<1>5. /\ SoundTable(table) /\ Keeps(moved, table) /\ DOMAIN table = DOMAIN moved
      /\ \A q \in DOMAIN moved :
           /\ table[q].place = moved[q].place /\ table[q].stat = moved[q].stat
           /\ table[q].lastSeenAt = moved[q].lastSeenAt
           /\ table[q].status = moved[q].status \/ table[q].status # "missing"
  BY <1>2, <1>4, RecordHashSound
<1> HIDE DEF table
<1>6. Keeps(rows, table)
  BY <1>4, <1>5, KeepsAll
<1> QED BY <1>1, <1>4, <1>5, <1>6

\* A hash result finds its row, and moves none.
LEMMA HashedTable ==
  ASSUME IndexInvariant, WriteHash
  PROVE  \E table :
           /\ Write(table) /\ SoundTable(table) /\ Keeps(rows, table)
           /\ DOMAIN table = DOMAIN rows
           /\ \A q \in DOMAIN rows :
                /\ table[q].place = rows[q].place /\ table[q].stat = rows[q].stat
                /\ table[q].lastSeenAt = rows[q].lastSeenAt
                /\ table[q].status = rows[q].status \/ table[q].status # "missing"
<1> DEFINE table == IF Item.kind = "hashed" THEN RecordHash(rows, Item.row, Item.sha256) ELSE rows
<1>1. applying # <<>> /\ Item.kind \in {"hashed", "hashError"} /\ Write(table)
  BY DEF WriteHash, Arriving
<1>2. Item.row \in DOMAIN rows /\ (Item.kind = "hashed" => Item.sha256 \in Digests)
  BY <1>1, ItemTypes
<1>3. SoundTable(rows)
  BY DEF IndexInvariant, Tables
<1>4. CASE Item.kind = "hashed"
  <2> DEFINE u == RecordHash(rows, Item.row, Item.sha256)
  <2>1. Write(u)
    BY <1>1, <1>4
  <2>2. /\ SoundTable(u) /\ Keeps(rows, u) /\ DOMAIN u = DOMAIN rows
        /\ \A q \in DOMAIN rows :
             /\ u[q].place = rows[q].place /\ u[q].stat = rows[q].stat
             /\ u[q].lastSeenAt = rows[q].lastSeenAt
             /\ u[q].status = rows[q].status \/ u[q].status # "missing"
    BY <1>2, <1>3, <1>4, RecordHashSound
  <2> HIDE DEF u
  <2> QED BY <2>1, <2>2
<1>5. CASE Item.kind # "hashed"
  <2>1. Write(rows)
    BY <1>1, <1>5
  <2> QED BY <1>3, <2>1, KeepsAll
<1> QED BY <1>4, <1>5

\* A rollback leaves what was saved, which is sound.
LEMMA AbortStep ==
  ASSUME IndexInvariant, AbortBatch
  PROVE  IndexInvariant' /\ Committed' = Committed
<1>1. /\ applying # <<>> /\ rows' = savedRows
      /\ applying' = <<>> /\ txScan' = NoJob /\ savedRows' = NoRows
      /\ UNCHANGED <<disk, used, clock, scan, hash, backlog, outbox, sweeping, history>>
  BY DEF AbortBatch, Arriving
<1>2. Committed' = Committed
  BY <1>1 DEF Committed
<1>3. SoundTable(<<>>)
  <2>1. <<>> \in Seq(Rows) /\ DOMAIN <<>> = {}
    OBVIOUS
  <2> QED BY <2>1 DEF SoundTable, PlacesDistinct, LinksPointBack
<1>4. Tables' /\ PlainTypes'
  BY <1>1, <1>3 DEF IndexInvariant, Tables, PlainTypes, NoRows, history
<1>5. ApplyingIn(DOMAIN Committed)'
  BY <1>1 DEF ApplyingIn
<1>6. ScansIn(DOMAIN Committed)' /\ HashesIn(DOMAIN Committed)' /\ OutboxIn(DOMAIN Committed)'
  BY <1>1, <1>2 DEF IndexInvariant, FlowIn, ScansIn, HashesIn, OutboxIn
<1> QED BY <1>2, <1>4, <1>5, <1>6 DEF IndexInvariant, FlowIn

\* The sweep marks rows and keeps them all.
LEMMA SweepStep ==
  ASSUME IndexInvariant, Sweep
  PROVE  IndexInvariant' /\ Keeps(Committed, Committed')
<1> DEFINE table == MarkMissing(rows, scan[sweeping].folder, scan[sweeping].startedAt)
<1>1. /\ applying = <<>> /\ rows' = table /\ sweeping' = NoJob
      /\ UNCHANGED <<disk, used, clock, scan, hash, outbox, txVars, history>>
      /\ backlog' = WithBacklog(backlog, rows')
  BY DEF Sweep
<1>2. SoundTable(table) /\ Keeps(rows, table) /\ DOMAIN table = DOMAIN rows
  BY MarkMissingSound DEF IndexInvariant, Tables
<1> HIDE DEF table
<1>3. Committed = rows /\ Committed' = table
  BY <1>1 DEF Committed, txVars
<1>4. Tables'
  BY <1>1, <1>2 DEF IndexInvariant, Tables, txVars
<1>5. PlainTypes'
  <2>1. backlog' \in Nat
    BY <1>1 DEF WithBacklog, IndexInvariant, PlainTypes
  <2> QED BY <1>1, <2>1 DEF IndexInvariant, PlainTypes, txVars, history
<1>6. DOMAIN Committed' = DOMAIN Committed
  BY <1>2, <1>3
<1>7. FlowIn(DOMAIN Committed)'
  BY <1>1, <1>6 DEF IndexInvariant, FlowIn, ScansIn, HashesIn, OutboxIn, ApplyingIn, TxType, txVars
<1> QED BY <1>2, <1>3, <1>4, <1>5, <1>7 DEF IndexInvariant

\* What survives the process is what was committed.
LEMMA DeathStep ==
  ASSUME IndexInvariant, ProcessDies
  PROVE  IndexInvariant' /\ Committed' = Committed
<1> DEFINE ids == DOMAIN Committed
<1>1. /\ rows' = Committed /\ applying' = <<>> /\ txScan' = NoJob /\ savedRows' = NoRows
      /\ sweeping' = NoJob
      /\ scan' = [s \in Scans |-> Requeued(s)]
      /\ hash' = [h \in Slots |-> IdleHash]
      /\ outbox' = [j \in Jobs |-> <<>>]
      /\ backlog' = backlog + Cardinality({h \in Slots : hash[h].status # "idle"})
      /\ UNCHANGED <<disk, clock, history>>
  BY DEF ProcessDies
<1>2. Committed' = Committed
  BY <1>1 DEF Committed
<1>3. SoundTable(<<>>)
  <2>1. <<>> \in Seq(Rows) /\ DOMAIN <<>> = {}
    OBVIOUS
  <2> QED BY <2>1 DEF SoundTable, PlacesDistinct, LinksPointBack
<1>4. Tables'
  BY <1>1, <1>3, CommittedRows DEF IndexInvariant, Tables, NoRows
<1>5. PlainTypes'
  <2>1. backlog' \in Nat
    <3>1. IsFiniteSet(Slots)
      BY IndexerAssumption, FS_Interval DEF Slots
    <3>2. Cardinality({h \in Slots : hash[h].status # "idle"}) \in Nat
      BY <3>1, FS_Subset, FS_CardinalityType
    <3> QED BY <1>1, <3>2 DEF IndexInvariant, PlainTypes
  <2>2. used' \in [{"changes", "breaks"} -> Nat]
    BY DEF ProcessDies, Breaks, IndexInvariant, PlainTypes
  <2> QED BY <1>1, <2>1, <2>2 DEF IndexInvariant, PlainTypes, history
<1>6. FlowIn(ids)'
  <2>1. ScansIn(ids)'
    <3>1. \A s \in Scans : Requeued(s) \in ScanOf(ids)
      BY WorkTypes, EmptyWork DEF Requeued, ScanOf
    <3> HIDE DEF ids
    <3>2. scan' \in [Scans -> ScanOf(ids)]
      BY <1>1, <3>1
    <3> QED BY <1>2, <3>2 DEF ScansIn, ids
  <2>2. HashesIn(ids)'
    <3>1. <<>> \in Seq(ItemsOf("hash", ids))
      OBVIOUS
    <3>2. hash' \in [Slots -> HashOf(ids)]
      BY <1>1, <3>1 DEF IdleHash, HashOf
    <3> QED BY <1>2, <3>2 DEF HashesIn
  <2>3. OutboxIn(ids)'
    <3>1. \A j \in Jobs : outbox'[j] = <<>>
      BY <1>1
    <3> QED BY <1>1, <3>1 DEF OutboxIn
  <2>4. ApplyingIn(ids)'
    BY <1>1 DEF ApplyingIn
  <2> QED BY <2>1, <2>2, <2>3, <2>4 DEF FlowIn
<1> QED BY <1>2, <1>4, <1>5, <1>6 DEF IndexInvariant

-----------------------------------------------------------------------------
(* Every step keeps the invariant and what is committed.                   *)

\* A worker or the disk leaves the tables alone.
LEMMA IdleTables ==
  ASSUME UNCHANGED <<rows, txVars>>
  PROVE  Committed' = Committed
BY DEF Committed, txVars

\* Every step keeps the invariant and what was committed.
LEMMA NextStep ==
  IndexInvariant /\ [Next]_vars => IndexInvariant' /\ Keeps(Committed, Committed')
<1> SUFFICES ASSUME IndexInvariant, [Next]_vars
             PROVE  IndexInvariant' /\ Keeps(Committed, Committed')
  OBVIOUS
<1>1. CASE DiskChanges
  <2>1. UNCHANGED <<rows, txVars>>
    BY <1>1 DEF DiskChanges, WriteFile, DeleteFile, MoveFile, Changed
  <2> QED BY <1>1, <2>1, DiskStep, IdleTables, KeepsAll
<1>2. CASE Claim
  <2>1. UNCHANGED <<rows, txVars>>
    BY <1>2 DEF Claim, ClaimQueued, ClaimScan, ClaimRequeued, ClaimHash
  <2> QED BY <1>2, <2>1, ClaimStep, IdleTables, KeepsAll
<1>3. CASE WorkerStops
  <2>1. UNCHANGED <<rows, txVars>>
    BY <1>3 DEF WorkerStops, WalkStops, HashStops
  <2>2. IndexInvariant'
    BY <1>3, WalkEndStep, HashEndStep DEF WorkerStops
  <2> QED BY <2>1, <2>2, IdleTables, KeepsAll
<1>4. CASE HandlerGoesOn
  <2>0. racy \subseteq Places
    BY DEF IndexInvariant, PlainTypes
  <2>1. CASE WriteDiscovered
    BY <2>0, <2>1, DiscoveredTable, WriteStep DEF WriteDiscovered, Arriving, FellThrough, Write
  <2>2. CASE WriteMoved
    <3>1. applying # <<>> /\ Item.place \in Places /\ racy' \subseteq racy \cup {Item.place}
      BY <2>2, ItemTypes DEF WriteMoved, Arriving
    <3> QED BY <2>0, <2>2, <3>1, MovedTable, WriteStep
  <2>3. CASE WriteHash
    BY <2>0, <2>3, HashedTable, WriteStep DEF WriteHash, Arriving, Write
  <2>4. CASE AbortBatch
    BY <2>4, AbortStep, KeepsAll
  <2>5. CASE Sweep
    BY <2>5, SweepStep
  <2> QED BY <1>4, <2>1, <2>2, <2>3, <2>4, <2>5 DEF HandlerGoesOn
<1>5. CASE ProcessDies
  BY <1>5, DeathStep, KeepsAll
<1>6. ASSUME NEW j \in Jobs, Works(j) PROVE IndexInvariant' /\ Keeps(Committed, Committed')
  <2>1. UNCHANGED <<rows, txVars>>
    BY <1>6 DEF Works, ScanWorks, HashWorks, Visit, ReadFile, WalkEnds, HashNext, HashEnds,
                ScanWorker, HashWorker, WorkerOnly
  <2>2. CASE j.type = "scan" /\ ScanWorks(j.id)
    BY <2>1, <2>2, JobTypes, VisitStep, ReadFileStep, WalkEndStep, IdleTables, KeepsAll
       DEF ScanWorks
  <2>3. CASE j.type = "hash" /\ HashWorks(j.id)
    BY <2>1, <2>3, JobTypes, HashNextStep, HashEndStep, IdleTables, KeepsAll DEF HashWorks
  <2> QED BY <1>6, <2>2, <2>3 DEF Works
<1>7. ASSUME NEW j \in Jobs, Handles(j) PROVE IndexInvariant' /\ Keeps(Committed, Committed')
  <2>1. CASE TakeBatch(j)
    BY <2>1, TakeBatchStep
  <2>2. CASE ~TakeBatch(j)
    BY <1>7, <2>2, JobTypes, EndStep, KeepsAll DEF Handles
  <2> QED BY <2>1, <2>2
<1>8. CASE UNCHANGED vars
  <2>1. IndexInvariant'
    BY <1>8 DEF vars, history, IndexInvariant, PlainTypes, Tables, FlowIn, ScansIn, HashesIn,
                OutboxIn, ApplyingIn, TxType, Committed
  <2>2. Committed' = Committed
    BY <1>8 DEF vars, Committed
  <2> QED BY <2>1, <2>2, KeepsAll
<1> QED BY <1>1, <1>2, <1>3, <1>4, <1>5, <1>6, <1>7, <1>8 DEF Next

\* The table is sound, as it is and as a rollback would leave it, and all that is
\* under way names committed rows only (scan-job.ts, hash-job.ts, files.ts).
THEOREM IndexInvariantHolds == Spec => []IndexInvariant
BY InvariantInit, NextStep, PTL DEF Spec

\* Every variable of the indexer has its type (scan-job.ts, hash-job.ts, files.ts).
THEOREM TypeCorrect == Spec => []TypeOK
BY IndexInvariantHolds, InvariantIsTyped, PTL

\* Upserts, moves, rollbacks and restarts never leave two rows of one place
\* (schema/files.ts, the unique index; files.ts, reparentMoved).
THEOREM PlacesStayDistinct == Spec => []OneRowPerPlace
<1>1. IndexInvariant => OneRowPerPlace
  BY DEF IndexInvariant, Tables, SoundTable, PlacesDistinct, OneRowPerPlace
<1> QED BY <1>1, IndexInvariantHolds, PTL

\* The links of duplicates lead to older rows, whatever becomes of the row a
\* link leads to (files.ts, recordHash).
THEOREM LinksLeadBack == Spec => []DuplicatesPointBack
<1>1. IndexInvariant => DuplicatesPointBack
  BY DEF IndexInvariant, Tables, SoundTable, LinksPointBack, DuplicatesPointBack
<1> QED BY <1>1, IndexInvariantHolds, PTL

\* A committed row is kept with its age and its frame through moves, rollbacks
\* and deaths of the process (files.ts; orchestrator.ts, processDiscoveredBatch).
THEOREM CommittedRowsAreKept == Spec => RowsAreKept
<1>1. IndexInvariant /\ [Next]_vars =>
        [\A r \in DOMAIN Committed :
           /\ r \in DOMAIN Committed'
           /\ Committed'[r].firstSeenAt = Committed[r].firstSeenAt
           /\ (Committed[r].frame # None) => (Committed'[r].frame # None)]_vars
  BY NextStep DEF Keeps
<1> QED BY <1>1, IndexInvariantHolds, PTL DEF Spec, RowsAreKept

=============================================================================
