-------------------------------- MODULE Uuid --------------------------------
(***************************************************************************)
(* UUIDv7 ids and the rows they are stamped on: uuidv7() keeps the last    *)
(* millisecond and a counter, insertStamp() reads the clock once for       *)
(* created_at and uuidv7() reads it again for the id.  The clock advances  *)
(* by itself, is set back by a time correction, and outlives the process.  *)
(* An id is its millisecond and its counter: the random tail of 74 bits    *)
(* only tells apart the ids of different processes.                        *)
(***************************************************************************)
EXTENDS Integers, Sequences, FiniteSets

CONSTANTS
  SeedMax,                 \* 0x7FF: the largest seed
  CounterMax,              \* 0xFFF: the largest counter
  MaxClock,                \* bound: the latest reading of the clock
  MaxRows,                 \* bound: rows inserted
  MaxSetBacks,             \* bound: times the clock is set back
  MaxStarts                \* bound: starts of the process after the first

\* Half of the counter is headroom: a seed has its top bit clear.
ASSUME CounterAssumption ==
  CounterMax \in Nat /\ SeedMax \in 0..CounterMax

ASSUME BoundsAssumption ==
  /\ MaxClock \in Nat \ {0} /\ MaxRows \in Nat /\ MaxSetBacks \in Nat /\ MaxStarts \in Nat

VARIABLES
  clock,                   \* Date.now()
  lastMs,                  \* uuidv7.ts: the millisecond of the last id
  counter,                 \* uuidv7.ts: its counter
  stamp,                   \* insertStamp: created_at of the row under way, or Idle
  rows,                    \* history: the rows inserted, oldest first
  era,                     \* history: times the clock was set back
  starts                   \* history: starts of the process after the first

vars == <<clock, lastMs, counter, stamp, rows, era, starts>>

\* What reseedCounter may draw
Seeds == 0..SeedMax

NotStarted == -1
Idle == [at |-> -1, era |-> 0]
NoId == <<NotStarted, 0>>

TypeOK ==
  /\ clock \in 0..MaxClock
  /\ lastMs \in Int /\ lastMs >= NotStarted
  /\ counter \in 0..CounterMax
  /\ stamp \in {Idle} \cup [at: Nat, era: Nat]
  /\ rows \in Seq([createdAt: Nat, id: Nat \X (0..CounterMax), era: Nat, start: Nat])
  /\ era \in Nat /\ starts \in Nat

Init ==
  /\ clock \in 0..1
  /\ lastMs = NotStarted
  /\ counter = 0
  /\ stamp = Idle
  /\ rows = <<>>
  /\ era = 0
  /\ starts = 0

-----------------------------------------------------------------------------
(* The clock.                                                               *)

Tick ==
  /\ clock < MaxClock
  /\ clock' = clock + 1
  /\ UNCHANGED <<lastMs, counter, stamp, rows, era, starts>>

SetBack ==
  /\ era < MaxSetBacks
  /\ clock' \in 0..(clock - 1)
  /\ era' = era + 1
  /\ UNCHANGED <<lastMs, counter, stamp, rows, starts>>

-----------------------------------------------------------------------------
(* insertStamp(): the clock for created_at, then an id.                     *)

ReadCreatedAt ==
  /\ stamp = Idle /\ Len(rows) < MaxRows
  /\ stamp' = [at |-> clock, era |-> era]
  /\ UNCHANGED <<clock, lastMs, counter, rows, era, starts>>

\* Mutants: a clock that is followed backwards, a counter that wraps or overflows, a seed
\* without headroom
AnyOtherMillisecond ==
  /\ clock # lastMs
  /\ lastMs' = clock
  /\ counter' \in Seeds
WrappedCounter ==
  /\ clock <= lastMs /\ counter = CounterMax
  /\ lastMs' = lastMs
  /\ counter' \in Seeds
OverflowingCounter ==
  /\ clock <= lastMs
  /\ lastMs' = lastMs
  /\ counter' = counter + 1
SeededToTheTop ==
  /\ clock > lastMs
  /\ lastMs' = clock
  /\ counter' \in 0..CounterMax

NewMillisecond ==
  /\ clock > lastMs
  /\ lastMs' = clock
  /\ counter' \in Seeds

\* The same millisecond, or the clock went back: the last one is kept.
SameMillisecond ==
  /\ clock <= lastMs /\ counter < CounterMax
  /\ lastMs' = lastMs
  /\ counter' = counter + 1

\* The counter is used up: the next millisecond is borrowed.
BorrowMillisecond ==
  /\ clock <= lastMs /\ counter = CounterMax
  /\ lastMs' = lastMs + 1
  /\ counter' \in Seeds

uuidv7 == NewMillisecond \/ SameMillisecond \/ BorrowMillisecond

StampRow ==
  /\ stamp # Idle
  /\ uuidv7
  /\ rows' = Append(rows, [createdAt |-> stamp.at, id |-> <<lastMs', counter'>>,
                           era |-> stamp.era, start |-> starts])
  /\ stamp' = Idle
  /\ UNCHANGED <<clock, era, starts>>

\* The process ends and another starts, which takes more than a millisecond.
Restart ==
  /\ starts < MaxStarts /\ clock < MaxClock
  /\ starts' = starts + 1
  /\ clock' = clock + 1
  /\ lastMs' = NotStarted
  /\ counter' = 0
  /\ stamp' = Idle
  /\ UNCHANGED <<rows, era>>

Next == Tick \/ SetBack \/ ReadCreatedAt \/ StampRow \/ Restart

Spec == Init /\ [][Next]_vars

-----------------------------------------------------------------------------
(* Properties.                                                              *)

(* Every id is above all ids this process issued before it, in a burst that uses up the
   counter and across a clock that is set back.  (uuidv7.ts: "strictly increasing
   (lexically) per process"; "IDs never sort before already-issued ones")               *)
Ids == INSTANCE IncreasingIds WITH newest <- <<lastMs, counter>>, None <- NoId
ImplementsIncreasingIds == Ids!IdsSpec

\* The ORDER BY of claimNext within one priority: created_at, then id
ClaimedBefore(a, b) ==
  \/ a.createdAt < b.createdAt
  \/ a.createdAt = b.createdAt /\ Ids!Less(a.id, b.id)

(* Jobs are claimed in the order they were inserted unless the clock was set back between
   the two: rows of one millisecond follow their ids, though created_at and the id come
   from two readings of the clock and the id's millisecond may be a borrowed one.
   (scan-jobs.ts: "oldest (`created_at` ASC, UUIDv7 same-millisecond-stable)")         *)
ClaimOrderIsInsertOrder ==
  \A i, j \in 1..Len(rows) :
    i < j /\ rows[i].era = rows[j].era => ClaimedBefore(rows[i], rows[j])

(* The ids run ahead of the clock by less than one millisecond for every half counter of
   ids issued: each borrowed one costs the headroom a seed leaves.  With a seed of all
   twelve bits a burst could run arbitrarily far ahead.  Nothing is said once the clock was
   set back, which leaves the ids as far ahead as it was set.  (uuidv7.ts: "reseeded
   randomly at each new millisecond with the top bit cleared for increment headroom")   *)
Headroom == CounterMax - SeedMax + 1
Issued == {i \in DOMAIN rows : rows[i].start = starts}
BorrowedTimeIsEarned == era = 0 => (lastMs - clock) * Headroom <= Cardinality(Issued)
=============================================================================
