----------------------------- MODULE UuidProofs -----------------------------
(***************************************************************************)
(* Theorems about uuidv7() and the rows stamped with its ids, for counters *)
(* and seeds of any size and any number of rows, restarts and corrections  *)
(* of the clock.                                                           *)
(***************************************************************************)
EXTENDS Uuid, FiniteSetTheorems, TLAPS

-----------------------------------------------------------------------------
(* Types, and the ids of one process.                                       *)

\* What uuidv7() makes of a millisecond and a counter: an id that is above the last one,
\* whichever of its three branches is taken.
LEMMA IdsIncrease ==
  ASSUME TypeOK, uuidv7
  PROVE  /\ lastMs' \in Nat /\ lastMs' >= lastMs
         /\ counter' \in 0..CounterMax
         /\ Ids!Less(<<lastMs, counter>>, <<lastMs', counter'>>)
<1>1. CounterMax \in Nat /\ Seeds \subseteq 0..CounterMax
  BY CounterAssumption DEF Seeds
<1>2. lastMs \in Int /\ lastMs >= -1 /\ counter \in 0..CounterMax /\ clock \in Int /\ clock >= 0
  BY BoundsAssumption DEF TypeOK, NotStarted
<1>3. CASE NewMillisecond
  BY <1>1, <1>2, <1>3 DEF NewMillisecond, Ids!Less
<1>4. CASE SameMillisecond
  BY <1>1, <1>2, <1>4 DEF SameMillisecond, Ids!Less
<1>5. CASE BorrowMillisecond
  BY <1>1, <1>2, <1>5 DEF BorrowMillisecond, Ids!Less
<1> QED BY <1>3, <1>4, <1>5 DEF uuidv7

\* Every step keeps the types.
LEMMA TypeStep == TypeOK /\ [Next]_vars => TypeOK'
<1> SUFFICES ASSUME TypeOK, [Next]_vars PROVE TypeOK'
  OBVIOUS
<1> USE CounterAssumption, BoundsAssumption DEF TypeOK, NotStarted
<1>1. CASE Tick
  BY <1>1 DEF Tick
<1>2. CASE SetBack
  BY <1>2 DEF SetBack
<1>3. CASE ReadCreatedAt
  BY <1>3 DEF ReadCreatedAt
<1>4. CASE StampRow
  <2>1. lastMs' \in Nat /\ counter' \in 0..CounterMax
    BY <1>4, IdsIncrease DEF StampRow
  <2>2. stamp.at \in Nat /\ stamp.era \in Nat
    BY <1>4 DEF StampRow
  <2>3. [createdAt |-> stamp.at, id |-> <<lastMs', counter'>>, era |-> stamp.era, start |-> starts]
          \in [createdAt: Nat, id: Nat \X (0..CounterMax), era: Nat, start: Nat]
    BY <2>1, <2>2
  <2>4. rows' \in Seq([createdAt: Nat, id: Nat \X (0..CounterMax), era: Nat, start: Nat])
    BY <1>4, <2>3 DEF StampRow
  <2> QED BY <1>4, <2>1, <2>4 DEF StampRow
<1>5. CASE Restart
  BY <1>5 DEF Restart
<1>6. CASE UNCHANGED vars
  BY <1>6 DEF vars
<1> QED BY <1>1, <1>2, <1>3, <1>4, <1>5, <1>6 DEF Next

\* The counter stays within its twelve bits and the millisecond is never lost, through bursts
\* that use the counter up and clocks that are set back.
THEOREM TypeCorrect == Spec => []TypeOK
<1>1. Init => TypeOK
  BY CounterAssumption, BoundsAssumption DEF Init, TypeOK, NotStarted
<1> QED BY <1>1, TypeStep, PTL DEF Spec

\* uuidv7() implements what its callers may count on: within one process every id is above
\* all ids before it (uuidv7.ts: "strictly increasing (lexically) per process").
THEOREM UuidsIncrease == Spec => ImplementsIncreasingIds
<1>1. Init => Ids!IdsInit
  BY DEF Init, Ids!IdsInit, NoId
<1>2. ASSUME TypeOK, [Next]_vars
      PROVE  [Ids!Issue \/ Ids!NewProcess]_<<lastMs, counter>>
  <2>1. CASE StampRow
    <3>1. uuidv7
      BY <2>1 DEF StampRow
    <3>2. <<lastMs', counter'>> \in Int \X Int
      BY <3>1, <1>2, IdsIncrease, CounterAssumption
    <3>3. Ids!Less(<<lastMs, counter>>, <<lastMs', counter'>>)
      BY <3>1, <1>2, IdsIncrease
    <3> QED BY <3>2, <3>3 DEF Ids!Issue
  <2>2. CASE Restart
    BY <2>2 DEF Restart, Ids!NewProcess, NoId
  <2>3. CASE Tick \/ SetBack \/ ReadCreatedAt \/ UNCHANGED vars
    BY <2>3 DEF Tick, SetBack, ReadCreatedAt, vars
  <2> QED BY <1>2, <2>1, <2>2, <2>3 DEF Next
<1> QED BY <1>1, <1>2, TypeCorrect, PTL DEF Spec, ImplementsIncreasingIds, Ids!IdsSpec

-----------------------------------------------------------------------------
(* The order of claims.                                                     *)

\* The id is the newest of this process, or below it.
UpToLast(id) == Ids!Less(id, <<lastMs, counter>>) \/ id = <<lastMs, counter>>

\* What is known of a row and of the readings of the clock after it, of the same era: they
\* are no earlier, and later when the process is another one.
Precedes(row, at) ==
  /\ row.createdAt <= at
  /\ row.start < starts => row.createdAt < at

\* The inductive invariant: within an era the clock does not go back, a start of the process
\* takes more than a millisecond, and the ids of this process are up to the last one.
RowsAreBehind ==
  \A i \in 1..Len(rows) :
    /\ rows[i].era <= era
    /\ rows[i].start <= starts
    /\ rows[i].era = era => Precedes(rows[i], clock)
    /\ rows[i].start = starts => UpToLast(rows[i].id)
StampIsBehind ==
  stamp # Idle =>
    /\ stamp.era <= era
    /\ stamp.era = era => stamp.at <= clock
    /\ \A i \in 1..Len(rows) : rows[i].era = stamp.era => Precedes(rows[i], stamp.at)
ClaimInvariant == RowsAreBehind /\ StampIsBehind /\ ClaimOrderIsInsertOrder

\* An id up to the last one is below the next.
LEMMA BelowTheNext ==
  ASSUME TypeOK, uuidv7, NEW id \in Nat \X (0..CounterMax), UpToLast(id)
  PROVE  Ids!Less(id, <<lastMs', counter'>>)
<1>1. /\ lastMs \in Int /\ counter \in Int /\ id[1] \in Int /\ id[2] \in Int
      /\ lastMs' \in Int /\ counter' \in Int
  BY IdsIncrease, CounterAssumption DEF TypeOK
<1>2. Ids!Less(<<lastMs, counter>>, <<lastMs', counter'>>)
  BY IdsIncrease
<1>3. CASE id = <<lastMs, counter>>
  BY <1>2, <1>3
<1>4. CASE Ids!Less(id, <<lastMs, counter>>)
  BY <1>1, <1>2, <1>4 DEF Ids!Less
<1> QED BY <1>3, <1>4 DEF UpToLast

\* Every step keeps what the claim order rests on.
LEMMA ClaimStep == TypeOK /\ ClaimInvariant /\ [Next]_vars => ClaimInvariant'
<1> SUFFICES ASSUME TypeOK, ClaimInvariant, [Next]_vars PROVE ClaimInvariant'
  OBVIOUS
<1> DEFINE Row == [createdAt: Nat, id: Nat \X (0..CounterMax), era: Nat, start: Nat]
<1>a. clock \in Int /\ clock >= 0 /\ era \in Nat /\ starts \in Nat /\ rows \in Seq(Row)
  BY BoundsAssumption DEF TypeOK
<1> HIDE DEF Row
<1>b. Len(rows) \in Nat /\ \A i \in 1..Len(rows) : rows[i] \in Row
  BY <1>a
<1>c. \A i \in 1..Len(rows) : /\ rows[i].createdAt \in Nat /\ rows[i].era \in Nat
                              /\ rows[i].start \in Nat
                              /\ rows[i].id \in Nat \X (0..CounterMax)
  BY <1>b DEF Row
<1>d. stamp # Idle => stamp.at \in Nat /\ stamp.era \in Nat
  BY DEF TypeOK
<1>0. /\ clock \in Int /\ clock >= 0 /\ era \in Nat /\ starts \in Nat /\ Len(rows) \in Nat
      /\ \A i \in 1..Len(rows) : /\ rows[i].createdAt \in Nat /\ rows[i].era \in Nat
                                 /\ rows[i].start \in Nat
                                 /\ rows[i].id \in Nat \X (0..CounterMax)
      /\ stamp # Idle => stamp.at \in Nat /\ stamp.era \in Nat
  BY <1>a, <1>b, <1>c, <1>d
<1>1. CASE Tick
  <2>1. /\ clock' = clock + 1 /\ rows' = rows /\ stamp' = stamp /\ era' = era
        /\ starts' = starts /\ lastMs' = lastMs /\ counter' = counter
    BY <1>1 DEF Tick
  <2>2. ClaimOrderIsInsertOrder'
    BY <2>1 DEF ClaimInvariant, ClaimOrderIsInsertOrder
  <2>3. RowsAreBehind'
    <3>1. \A i \in 1..Len(rows) : Precedes(rows[i], clock) => Precedes(rows[i], clock + 1)
      BY <1>0 DEF Precedes
    <3>2. \A i \in 1..Len(rows) :
            /\ rows[i].era <= era /\ rows[i].start <= starts
            /\ rows[i].era = era => Precedes(rows[i], clock + 1)
            /\ rows[i].start = starts => UpToLast(rows[i].id)
      BY <3>1 DEF ClaimInvariant, RowsAreBehind
    <3> QED BY <2>1, <3>2 DEF RowsAreBehind, Precedes, UpToLast
  <2>4. StampIsBehind'
    BY <1>0, <2>1 DEF ClaimInvariant, RowsAreBehind, StampIsBehind, Precedes
  <2> QED BY <2>2, <2>3, <2>4 DEF ClaimInvariant
<1>2. CASE SetBack
  <2>1. /\ era' = era + 1 /\ rows' = rows /\ stamp' = stamp
        /\ starts' = starts /\ lastMs' = lastMs /\ counter' = counter
    BY <1>2 DEF SetBack
  <2>2. ClaimOrderIsInsertOrder'
    BY <2>1 DEF ClaimInvariant, ClaimOrderIsInsertOrder
  <2>3. RowsAreBehind'
    <3>1. \A i \in 1..Len(rows) : rows[i].era <= era + 1 /\ rows[i].era # era + 1
      BY <1>0 DEF ClaimInvariant, RowsAreBehind
    <3>2. \A i \in 1..Len(rows) :
            rows[i].start <= starts /\ (rows[i].start = starts => UpToLast(rows[i].id))
      BY DEF ClaimInvariant, RowsAreBehind
    <3> QED BY <2>1, <3>1, <3>2 DEF RowsAreBehind, UpToLast
  <2>4. StampIsBehind'
    BY <1>0, <2>1 DEF ClaimInvariant, RowsAreBehind, StampIsBehind, Precedes
  <2> QED BY <2>2, <2>3, <2>4 DEF ClaimInvariant
<1>3. CASE ReadCreatedAt
  <2>1. /\ stamp' = [at |-> clock, era |-> era] /\ rows' = rows /\ clock' = clock /\ era' = era
        /\ starts' = starts /\ lastMs' = lastMs /\ counter' = counter
    BY <1>3 DEF ReadCreatedAt
  <2>2. ClaimOrderIsInsertOrder'
    BY <2>1 DEF ClaimInvariant, ClaimOrderIsInsertOrder
  <2>3. RowsAreBehind'
    BY <1>0, <2>1 DEF ClaimInvariant, RowsAreBehind, Precedes, UpToLast
  <2>4. StampIsBehind'
    BY <1>0, <2>1 DEF ClaimInvariant, RowsAreBehind, StampIsBehind, Precedes
  <2> QED BY <2>2, <2>3, <2>4 DEF ClaimInvariant
<1>4. CASE StampRow
  <2> DEFINE new == [createdAt |-> stamp.at, id |-> <<lastMs', counter'>>,
                     era |-> stamp.era, start |-> starts]
             n == Len(rows)
  <2>1. /\ stamp # Idle /\ uuidv7 /\ rows' = Append(rows, new) /\ stamp' = Idle
        /\ clock' = clock /\ era' = era /\ starts' = starts
    BY <1>4 DEF StampRow
  <2>2. /\ Len(rows') = n + 1 /\ rows'[n + 1] = new
        /\ \A i \in 1..n : rows'[i] = rows[i]
    BY <2>1 DEF TypeOK
  <2>3. \A i \in 1..n : rows[i].start = starts => Ids!Less(rows[i].id, new.id)
    BY <1>0, <2>1, BelowTheNext DEF ClaimInvariant, RowsAreBehind
  <2> HIDE DEF n
  <2>4. \A i \in 1..n : rows[i].era = new.era => ClaimedBefore(rows[i], new)
    <3> SUFFICES ASSUME NEW i \in 1..n, rows[i].era = stamp.era
                 PROVE  ClaimedBefore(rows[i], new)
      OBVIOUS
    <3>1. Precedes(rows[i], stamp.at) /\ rows[i].start <= starts
      BY <2>1 DEF ClaimInvariant, RowsAreBehind, StampIsBehind, n
    <3>2. CASE rows[i].start < starts
      BY <3>1, <3>2 DEF Precedes, ClaimedBefore
    <3>3. CASE rows[i].start = starts
      BY <1>0, <2>1, <2>3, <3>1, <3>3 DEF Precedes, ClaimedBefore, n
    <3> QED BY <1>0, <3>1, <3>2, <3>3 DEF n
  <2>5. ClaimOrderIsInsertOrder'
    <3> SUFFICES ASSUME NEW i \in 1..(n + 1), NEW j \in 1..(n + 1), i < j,
                        rows'[i].era = rows'[j].era
                 PROVE  ClaimedBefore(rows'[i], rows'[j])
      BY <2>2 DEF ClaimOrderIsInsertOrder
    <3>1. n \in Nat /\ i \in 1..n
      BY <1>0 DEF n
    <3>2. CASE j = n + 1
      BY <2>2, <2>4, <3>1, <3>2
    <3>3. CASE j # n + 1
      BY <2>2, <3>1, <3>3 DEF ClaimInvariant, ClaimOrderIsInsertOrder, n
    <3> QED BY <3>2, <3>3
  <2>6. \A i \in 1..n :
          /\ rows'[i].era <= era' /\ rows'[i].start <= starts'
          /\ rows'[i].era = era' =>
               /\ rows'[i].createdAt <= clock'
               /\ rows'[i].start < starts' => rows'[i].createdAt < clock'
          /\ rows'[i].start = starts' => Ids!Less(rows'[i].id, <<lastMs', counter'>>)
    BY <2>1, <2>2, <2>3 DEF ClaimInvariant, RowsAreBehind, Precedes, n
  <2>7. /\ new.era <= era' /\ new.start = starts' /\ new.id = <<lastMs', counter'>>
        /\ new.era = era' => new.createdAt <= clock'
    BY <1>0, <2>1 DEF ClaimInvariant, StampIsBehind
  <2>8. n \in Nat
    BY <1>0 DEF n
  <2>9. \A i \in 1..Len(rows') : i \in 1..n \/ i = n + 1
    BY <2>2, <2>8
  <2>10. starts' \in Nat
    BY <1>0, <2>1
  <2> QED BY <2>1, <2>2, <2>5, <2>6, <2>7, <2>9, <2>10
     DEF ClaimInvariant, RowsAreBehind, StampIsBehind, Precedes, UpToLast
<1>5. CASE Restart
  <2>1. /\ starts' = starts + 1 /\ clock' = clock + 1 /\ stamp' = Idle
        /\ rows' = rows /\ era' = era
    BY <1>5 DEF Restart
  <2>2. ClaimOrderIsInsertOrder'
    BY <2>1 DEF ClaimInvariant, ClaimOrderIsInsertOrder
  <2>3. RowsAreBehind'
    BY <1>0, <2>1 DEF ClaimInvariant, RowsAreBehind, Precedes, UpToLast
  <2>4. StampIsBehind'
    BY <1>0, <2>1 DEF ClaimInvariant, RowsAreBehind, StampIsBehind, Precedes
  <2> QED BY <2>2, <2>3, <2>4 DEF ClaimInvariant
<1>6. CASE UNCHANGED vars
  <2>1. ClaimOrderIsInsertOrder'
    BY <1>6 DEF vars, ClaimInvariant, ClaimOrderIsInsertOrder
  <2> QED BY <1>6, <2>1 DEF vars, ClaimInvariant, RowsAreBehind, StampIsBehind, Precedes, UpToLast
<1> QED BY <1>1, <1>2, <1>3, <1>4, <1>5, <1>6 DEF Next

\* Jobs are claimed in the order they were inserted while the clock is not set back, through
\* bursts, borrowed milliseconds and restarts (scan-jobs.ts, claimNext).
THEOREM ClaimsFollowInserts == Spec => []ClaimOrderIsInsertOrder
<1>1. Init => ClaimInvariant
  BY DEF Init, ClaimInvariant, RowsAreBehind, StampIsBehind, ClaimOrderIsInsertOrder
<1>2. ClaimInvariant => ClaimOrderIsInsertOrder
  BY DEF ClaimInvariant
<1> QED BY <1>1, <1>2, ClaimStep, TypeCorrect, PTL DEF Spec

-----------------------------------------------------------------------------
(* Borrowed milliseconds.                                                   *)

\* The inductive invariant: a borrowed millisecond was paid for with the headroom of a seed,
\* and what the counter has used of its own since is not counted twice.
AheadIsEarned ==
  era = 0 /\ lastMs # NotStarted =>
    /\ (lastMs - clock) * Headroom + 1 <= Cardinality(Issued)
    /\ (lastMs - clock) * Headroom + (counter - SeedMax) + 1 <= Cardinality(Issued)

\* The ids of this process can be counted, and one more id makes one more.
LEMMA IssuedCount ==
  ASSUME TypeOK
  PROVE  /\ IsFiniteSet(Issued) /\ Cardinality(Issued) \in Nat
         /\ StampRow => Cardinality(Issued') = Cardinality(Issued) + 1
<1> DEFINE Row == [createdAt: Nat, id: Nat \X (0..CounterMax), era: Nat, start: Nat]
           n == Len(rows)
<1>1. rows \in Seq(Row) /\ n \in Nat /\ DOMAIN rows = 1..n
  BY DEF TypeOK
<1>2. IsFiniteSet(1..n)
  BY <1>1, FS_Interval
<1>3. Issued \in SUBSET (1..n)
  BY <1>1 DEF Issued
<1>4. IsFiniteSet(Issued)
  BY <1>2, <1>3, FS_Subset
<1>5. ASSUME StampRow PROVE Issued' = Issued \cup {n + 1}
  <2> DEFINE new == [createdAt |-> stamp.at, id |-> <<lastMs', counter'>>,
                     era |-> stamp.era, start |-> starts]
  <2>1. rows' = Append(rows, new) /\ starts' = starts
    BY <1>5 DEF StampRow
  <2>2. new.start = starts
    OBVIOUS
  <2> HIDE DEF new, Row
  <2>3. /\ Len(rows') = n + 1 /\ rows'[n + 1] = new /\ \A i \in 1..n : rows'[i] = rows[i]
        /\ DOMAIN rows' = 1..(n + 1)
    BY <1>1, <2>1
  <2>4. \A i \in 1..(n + 1) : i \in 1..n \/ i = n + 1
    BY <1>1
  <2>5. 1..n \subseteq 1..(n + 1) /\ n + 1 \in 1..(n + 1)
    BY <1>1
  <2> HIDE DEF n
  <2> QED BY <1>1, <2>1, <2>2, <2>3, <2>4, <2>5 DEF Issued
<1>6. n + 1 \notin Issued
  BY <1>1 DEF Issued
<1>7. StampRow => Cardinality(Issued') = Cardinality(Issued) + 1
  <2> HIDE DEF n
  <2> QED BY <1>4, <1>5, <1>6, FS_AddElement
<1> QED BY <1>4, <1>7, FS_CardinalityType

\* One millisecond more is one headroom more.
LEMMA OneMore ==
  ASSUME NEW d \in Int, NEW h \in Nat
  PROVE  d * h \in Int /\ (d + 1) * h = d * h + h /\ (d - 1) * h <= d * h
OBVIOUS

\* Every step keeps the account of borrowed milliseconds.
LEMMA AheadStep == TypeOK /\ AheadIsEarned /\ [Next]_vars => AheadIsEarned'
<1> SUFFICES ASSUME TypeOK, AheadIsEarned, [Next]_vars, era' = 0, lastMs' # NotStarted
             PROVE  /\ (lastMs' - clock') * Headroom + 1 <= Cardinality(Issued')
                    /\ (lastMs' - clock') * Headroom + (counter' - SeedMax) + 1
                         <= Cardinality(Issued')
  BY DEF AheadIsEarned
<1>1. /\ CounterMax \in Nat /\ SeedMax \in 0..CounterMax
      /\ Headroom = CounterMax - SeedMax + 1 /\ Headroom \in Nat
  BY CounterAssumption DEF Headroom
<1>2. /\ lastMs \in Int /\ lastMs >= -1 /\ counter \in 0..CounterMax /\ counter \in Int
      /\ clock \in Int /\ clock >= 0 /\ era \in Nat
      /\ Cardinality(Issued) \in Nat
  BY CounterAssumption, BoundsAssumption, IssuedCount DEF TypeOK, NotStarted
<1>3. CASE Tick
  <2>1. /\ clock' = clock + 1 /\ lastMs' = lastMs /\ counter' = counter /\ era' = era
        /\ Issued' = Issued
    BY <1>3 DEF Tick, Issued
  <2>2. lastMs' - clock' = (lastMs - clock) - 1 /\ lastMs - clock \in Int
    BY <1>2, <2>1
  <2> DEFINE d == lastMs - clock
  <2>3. d \in Int /\ (lastMs' - clock') * Headroom = (d - 1) * Headroom
    BY <2>2
  <2>4. d * Headroom \in Int /\ (d - 1) * Headroom \in Int
        /\ (d - 1) * Headroom <= d * Headroom
    <3> HIDE DEF d
    <3>1. d - 1 \in Int
      BY <2>3
    <3> QED BY <1>1, <2>3, <3>1, OneMore
  <2>5. d * Headroom + 1 <= Cardinality(Issued)
        /\ d * Headroom + (counter - SeedMax) + 1 <= Cardinality(Issued)
    BY <2>1 DEF AheadIsEarned
  <2> HIDE DEF d
  <2> QED BY <1>1, <1>2, <2>1, <2>3, <2>4, <2>5
<1>4. CASE SetBack
  BY <1>2, <1>4 DEF SetBack
<1>5. CASE ReadCreatedAt
  <2>1. UNCHANGED <<clock, lastMs, counter, era>> /\ Issued' = Issued
    BY <1>5 DEF ReadCreatedAt, Issued
  <2> QED BY <2>1 DEF AheadIsEarned
<1>6. CASE StampRow
  <2>1. /\ clock' = clock /\ era' = era /\ uuidv7
        /\ Cardinality(Issued') = Cardinality(Issued) + 1
    BY <1>6, IssuedCount DEF StampRow
  <2> DEFINE d == lastMs - clock
             c == Cardinality(Issued)
  <2>2. d \in Int /\ d * Headroom \in Int /\ (d + 1) * Headroom = d * Headroom + Headroom
    <3>1. d \in Int
      BY <1>2
    <3> HIDE DEF d
    <3> QED BY <1>1, <3>1, OneMore
  <2>3. CASE NewMillisecond
    <3>1. lastMs' = clock /\ counter' \in 0..SeedMax
      BY <2>3 DEF NewMillisecond, Seeds
    <3>2. (lastMs' - clock') = 0
      BY <1>2, <2>1, <3>1
    <3>3. (lastMs' - clock') * Headroom = 0
      BY <1>1, <3>2
    <3> HIDE DEF c, d
    <3> QED BY <1>1, <1>2, <2>1, <3>1, <3>3
  <2>4. lastMs # NotStarted \/ NewMillisecond
    BY <1>2, <2>1 DEF uuidv7, SameMillisecond, BorrowMillisecond, NotStarted
  <2>5. lastMs # NotStarted =>
          /\ d * Headroom + 1 <= c
          /\ d * Headroom + (counter - SeedMax) + 1 <= c
    BY <2>1 DEF AheadIsEarned
  <2>6. CASE SameMillisecond /\ lastMs # NotStarted
    <3>1. (lastMs' - clock') * Headroom = d * Headroom /\ counter' = counter + 1
      BY <2>1, <2>6 DEF SameMillisecond
    <3> HIDE DEF d
    <3> QED BY <1>1, <1>2, <2>1, <2>2, <2>5, <2>6, <3>1
  <2>7. CASE BorrowMillisecond /\ lastMs # NotStarted
    <3>1. lastMs' = lastMs + 1 /\ counter = CounterMax /\ counter' \in 0..SeedMax
      BY <2>7 DEF BorrowMillisecond, Seeds
    <3>2. lastMs' - clock' = d + 1
      BY <1>2, <2>1, <3>1
    <3>3. (lastMs' - clock') * Headroom = d * Headroom + Headroom
      BY <2>2, <3>2
    <3>4. d * Headroom + Headroom <= c
      <4> HIDE DEF d
      <4> QED BY <1>1, <1>2, <2>2, <2>5, <2>7, <3>1
    <3> HIDE DEF d
    <3> QED BY <1>1, <1>2, <2>1, <2>2, <3>1, <3>3, <3>4
  <2> QED BY <2>1, <2>3, <2>4, <2>6, <2>7 DEF uuidv7
<1>7. CASE Restart
  BY <1>7 DEF Restart
<1>8. CASE UNCHANGED vars
  <2>1. UNCHANGED <<clock, lastMs, counter, era>> /\ Issued' = Issued
    BY <1>8 DEF vars, Issued
  <2> QED BY <2>1 DEF AheadIsEarned
<1> QED BY <1>3, <1>4, <1>5, <1>6, <1>7, <1>8 DEF Next

\* While nobody sets the clock back, the ids run ahead of it by less than one millisecond for
\* every headroom of ids this process has issued (reseedCounter of uuidv7.ts: "top bit of the
\* 12-bit counter left clear for headroom").
THEOREM BurstsStayNear == Spec => []BorrowedTimeIsEarned
<1>1. Init => AheadIsEarned
  BY DEF Init, AheadIsEarned
<1>2. TypeOK /\ AheadIsEarned => BorrowedTimeIsEarned
  <2> SUFFICES ASSUME TypeOK, AheadIsEarned, era = 0
               PROVE  (lastMs - clock) * Headroom <= Cardinality(Issued)
    BY DEF BorrowedTimeIsEarned
  <2> DEFINE d == lastMs - clock
  <2>1. /\ Headroom \in Nat /\ Cardinality(Issued) \in Nat /\ lastMs \in Int
        /\ clock \in Int /\ clock >= 0
    BY CounterAssumption, BoundsAssumption, IssuedCount DEF TypeOK, Headroom
  <2>2. CASE lastMs # NotStarted
    <3>1. d * Headroom + 1 <= Cardinality(Issued)
      BY <2>2 DEF AheadIsEarned
    <3>2. d * Headroom \in Int
      <4>1. d \in Int
        BY <2>1
      <4> HIDE DEF d
      <4> QED BY <2>1, <4>1, OneMore
    <3> HIDE DEF d
    <3>3. d * Headroom <= Cardinality(Issued)
      BY <2>1, <3>1, <3>2
    <3> QED BY <3>3 DEF d
  <2>3. CASE lastMs = NotStarted
    <3>1. d \in Int /\ d <= 0
      BY <2>1, <2>3 DEF NotStarted
    <3> HIDE DEF d
    <3>2. d * Headroom <= 0
      BY <2>1, <3>1
    <3>3. d * Headroom \in Int
      BY <2>1, <3>1, OneMore
    <3>4. d * Headroom <= Cardinality(Issued)
      BY <2>1, <3>2, <3>3
    <3> QED BY <3>4 DEF d
  <2> QED BY <2>2, <2>3
<1> QED BY <1>1, <1>2, AheadStep, TypeCorrect, PTL DEF Spec
=============================================================================
