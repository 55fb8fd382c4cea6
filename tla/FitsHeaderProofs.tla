---------------------------- MODULE FitsHeaderProofs ----------------------------
(***************************************************************************)
(* What the FITS scanner makes of a list of cards is what the list says:   *)
(* for every list, however it is cut into blocks.                          *)
(***************************************************************************)
EXTENDS FitsHeader, SequenceTheorems, NaturalsInduction, WellFoundedInduction, TLAPS

-----------------------------------------------------------------------------
(* Numbers.                                                                 *)

\* Some numbers have a least one.
LEMMA LeastNumber ==
  ASSUME NEW T \in SUBSET Nat, T # {}
  PROVE  /\ Min(T) \in T
         /\ \A y \in T : Min(T) <= y
<1> DEFINE Less == OpToRel(<, Nat)
<1>1. IsWellFoundedOn(Less, Nat)
  BY NatLessThanWellFounded
<1>2. \A x, y \in Nat : x < y => <<x, y>> \in Less
  BY DEF OpToRel
<1> HIDE DEF Less
<1>3. PICK x \in T : \A y \in T : ~(<<y, x>> \in Less)
  BY <1>1, WFMin
<1>4. ASSUME NEW y \in T PROVE x <= y
  <2>1. x \in Nat /\ y \in Nat /\ ~(y < x)
    BY <1>2, <1>3
  <2> QED BY <2>1
<1>5. \E z \in T : \A y \in T : z =< y
  BY <1>4
<1> QED BY <1>5 DEF Min

\* Some numbers up to n have a greatest one.
LEMMA GreatestNumber ==
  ASSUME NEW n \in Nat, NEW T \in SUBSET (0..n), T # {}
  PROVE  /\ Max(T) \in T
         /\ \A y \in T : y <= Max(T)
<1> DEFINE bounds == {b \in Nat : \A y \in T : y <= b}
<1>1. n \in bounds /\ bounds \in SUBSET Nat
  OBVIOUS
<1> DEFINE m == Min(bounds)
<1>2. m \in bounds /\ \A b \in bounds : m <= b
  BY <1>1, LeastNumber
<1> HIDE DEF m
<1>3. m \in T
  <2>1. SUFFICES ASSUME m \notin T PROVE FALSE
    OBVIOUS
  <2>2. \A y \in T : y \in Nat /\ y < m
    BY <1>2, <2>1
  <2>3. PICK z \in T : TRUE
    OBVIOUS
  <2>4. m \in Nat /\ m - 1 \in Nat
    BY <1>2, <2>2, <2>3
  <2>5. \A y \in T : y <= m - 1
    BY <2>2, <2>4
  <2>6. m - 1 \in bounds
    BY <2>4, <2>5
  <2> QED BY <1>2, <2>4, <2>6
<1>4. \E x \in T : \A y \in T : x >= y
  BY <1>2, <1>3
<1> QED BY <1>4 DEF Max

\* What holds of 0 and of the successor of what it holds of holds of all.
LEMMA StepByStep ==
  ASSUME NEW n \in Nat, NEW T, 0 \in T, \A m \in 0..(n - 1) : m \in T => m + 1 \in T
  PROVE  \A m \in 0..n : m \in T
<1> DEFINE out == {m \in 0..n : m \notin T}
           l == Min(out)
<1>1. SUFFICES ASSUME out # {} PROVE FALSE
  OBVIOUS
<1>2. out \in SUBSET Nat
  OBVIOUS
<1>3. l \in out /\ \A y \in out : l <= y
  BY <1>1, <1>2, LeastNumber
<1> HIDE DEF l
<1>4. l # 0 /\ l - 1 \in 0..(n - 1) /\ l - 1 \notin out
  BY <1>3
<1>5. l - 1 \in T /\ (l - 1) + 1 = l
  BY <1>3, <1>4
<1> QED BY <1>3, <1>4, <1>5

-----------------------------------------------------------------------------
(* Folds.                                                                   *)

\* r are the scanners from s over the first n cards of a block.
Feeds(r, s, block, n) ==
  /\ r[0] = s /\ r[n] = FeedBlock(s, block)
  /\ \A i \in 1..n : r[i] = FeedCard(r[i - 1], block[i])

\* FeedBlock feeds one card after the other.
LEMMA FeedBlockUnfolds ==
  ASSUME NEW s, NEW block, NEW n \in Nat, DOMAIN block = 1..n
  PROVE  \E r : Feeds(r, s, block, n)
<1> DEFINE Step(g, S) == IF S = {} THEN s ELSE FeedCard(g[S \ {Max(S)}], block[Max(S)])
           Folds(m) == \E g : g = [S \in SUBSET (1..m) |-> Step(g, S)]
<1>max. \A m \in Nat : \A S \in SUBSET (1..m) :
          S # {} => Max(S) \in S /\ \A y \in S : y <= Max(S)
  <2>1. ASSUME NEW m \in Nat, NEW S \in SUBSET (1..m), S # {}
        PROVE  Max(S) \in S /\ \A y \in S : y <= Max(S)
    <3>1. S \in SUBSET (0..m)
      OBVIOUS
    <3> QED BY <2>1, <3>1, GreatestNumber
  <2> QED BY <2>1
<1>1. Folds(0)
  <2> DEFINE g == [S \in SUBSET (1..0) |-> s]
  <2>1. \A S \in SUBSET (1..0) : S = {}
    OBVIOUS
  <2>2. g = [S \in SUBSET (1..0) |-> Step(g, S)]
    BY <2>1
  <2> QED BY <2>2
<1>2. ASSUME NEW m \in Nat, Folds(m) PROVE Folds(m + 1)
  <2>1. PICK g : g = [S \in SUBSET (1..m) |-> Step(g, S)]
    BY <1>2
  <2> DEFINE h == [S \in SUBSET (1..(m + 1)) |->
                     IF m + 1 \in S THEN FeedCard(g[S \ {m + 1}], block[m + 1]) ELSE g[S]]
  <2>2. ASSUME NEW S \in SUBSET (1..(m + 1)) PROVE h[S] = Step(h, S)
    <3>1. CASE m + 1 \in S
      <4>1. Max(S) \in S /\ \A y \in S : y <= Max(S)
        <5>1. m + 1 \in Nat /\ S # {}
          BY <3>1
        <5> QED BY <1>max, <5>1
      <4>2. Max(S) = m + 1
        <5>1. \A y \in S : y \in Nat /\ y <= m + 1
          OBVIOUS
        <5>2. m + 1 <= Max(S) /\ Max(S) \in Nat /\ Max(S) <= m + 1
          BY <3>1, <4>1, <5>1
        <5> QED BY <5>2
      <4>3. S \ {m + 1} \in SUBSET (1..(m + 1)) /\ m + 1 \notin S \ {m + 1}
        OBVIOUS
      <4>4. h[S \ {m + 1}] = g[S \ {m + 1}]
        BY <4>3
      <4> QED BY <3>1, <4>2, <4>4
    <3>2. CASE m + 1 \notin S
      <4>1. S \in SUBSET (1..m)
        BY <3>2
      <4>2. h[S] = g[S] /\ g[S] = Step(g, S)
        BY <2>1, <3>2, <4>1
      <4>3. S # {} => h[S \ {Max(S)}] = g[S \ {Max(S)}]
        BY <3>2
      <4> QED BY <4>2, <4>3
    <3> QED BY <3>1, <3>2
  <2>3. h = [S \in SUBSET (1..(m + 1)) |-> Step(h, S)]
    BY <2>2
  <2> QED BY <2>3
<1>3. Folds(n)
  <2> DEFINE T == {m \in Nat : Folds(m)}
  <2> HIDE DEF Folds
  <2>1. 0 \in T /\ \A m \in 0..(n - 1) : m \in T => m + 1 \in T
    BY <1>1, <1>2
  <2>2. \A m \in 0..n : m \in T
    <3> HIDE DEF T
    <3> QED BY <2>1, StepByStep
  <2> QED BY <2>2
<1> DEFINE f == CHOOSE g : g = [S \in SUBSET (1..n) |-> Step(g, S)]
<1>4. f = [S \in SUBSET (1..n) |-> Step(f, S)]
  BY <1>3
<1>5. FeedBlock(s, block) = f[1..n]
  BY DEF FeedBlock, FoldLeft, MapThenFoldSet
<1> HIDE DEF f
<1> DEFINE r == [i \in 0..n |-> f[1..i]]
<1>6. r[0] = s
  <2>1. 1..0 = {}
    OBVIOUS
  <2>2. f[{}] = s
    BY <1>4
  <2> QED BY <2>1, <2>2
<1>7. ASSUME NEW i \in 1..n PROVE r[i] = FeedCard(r[i - 1], block[i])
  <2>1. 1..i \in SUBSET (1..n) /\ i \in 1..i /\ 1..i # {}
    OBVIOUS
  <2>2. Max(1..i) \in 1..i /\ i <= Max(1..i)
    <3> HIDE DEF Step, Folds, r
    <3> QED BY <1>max, <2>1
  <2>3. (1..i) \ {i} = 1..(i - 1) /\ i - 1 \in 0..n
    OBVIOUS
  <2>4. Max(1..i) = i
    BY <2>2
  <2>5. f[1..i] = FeedCard(f[1..(i - 1)], block[i])
    BY <1>4, <2>1, <2>3, <2>4
  <2> QED BY <2>3, <2>5
<1>8. r[n] = FeedBlock(s, block)
  BY <1>5
<1> HIDE DEF r
<1>9. Feeds(r, s, block, n)
  BY <1>6, <1>7, <1>8 DEF Feeds
<1> QED BY <1>9

\* FlattenSeq appends one sequence after the other.
LEMMA FlattenUnfolds ==
  ASSUME NEW S, NEW ss \in Seq(Seq(S)), ss # <<>>
  PROVE  \E r : /\ r[1] = ss[1] /\ r[Len(ss)] = FlattenSeq(ss)
                /\ \A i \in 1..Len(ss) : r[i] \in Seq(S)
                /\ \A i \in 2..Len(ss) : r[i] = r[i - 1] \o ss[i]
<1> DEFINE n == Len(ss)
           Step(g, i) == IF i = 1 THEN ss[i] ELSE g[i - 1] \o ss[i]
           Folds(m) == \E g : g = [i \in 1..(m + 1) |-> Step(g, i)]
<1>0. n \in Nat /\ n # 0 /\ n - 1 \in Nat /\ \A i \in 1..n : ss[i] \in Seq(S)
  OBVIOUS
<1>1. Folds(0)
  <2> DEFINE g == [i \in 1..1 |-> ss[1]]
  <2>1. g = [i \in 1..(0 + 1) |-> Step(g, i)]
    OBVIOUS
  <2> QED BY <2>1
<1>2. ASSUME NEW m \in Nat, Folds(m) PROVE Folds(m + 1)
  <2>1. PICK g : g = [i \in 1..(m + 1) |-> Step(g, i)]
    BY <1>2
  <2> DEFINE h == [i \in 1..(m + 1 + 1) |->
                     IF i = m + 2 THEN g[m + 1] \o ss[m + 2] ELSE g[i]]
  <2>2. ASSUME NEW i \in 1..(m + 1 + 1) PROVE h[i] = Step(h, i)
    <3>1. CASE i = m + 2
      <4>1. i # 1 /\ i - 1 = m + 1 /\ m + 1 # m + 2 /\ m + 1 \in 1..(m + 1 + 1)
        BY <3>1
      <4> QED BY <3>1, <4>1
    <3>2. CASE i # m + 2
      <4>1. i \in 1..(m + 1) /\ (i # 1 => i - 1 \in 1..(m + 1) /\ i - 1 # m + 2)
        BY <3>2
      <4>2. h[i] = g[i] /\ g[i] = Step(g, i)
        BY <2>1, <3>2, <4>1
      <4>3. i # 1 => h[i - 1] = g[i - 1]
        BY <4>1
      <4> QED BY <4>2, <4>3
    <3> QED BY <3>1, <3>2
  <2>3. h = [i \in 1..(m + 1 + 1) |-> Step(h, i)]
    BY <2>2
  <2> QED BY <2>3
<1>3. Folds(n - 1)
  <2> DEFINE T == {m \in Nat : Folds(m)}
  <2> HIDE DEF Folds, n
  <2>1. 0 \in T /\ \A m \in 0..(n - 2) : m \in T => m + 1 \in T
    BY <1>1, <1>2
  <2>2. \A m \in 0..(n - 1) : m \in T
    <3> HIDE DEF T
    <3>1. n - 1 - 1 = n - 2
      BY <1>0
    <3> QED BY <1>0, <2>1, <3>1, StepByStep
  <2> QED BY <1>0, <2>2
<1> DEFINE f == CHOOSE g : g = [i \in 1..n |-> Step(g, i)]
<1>4. f = [i \in 1..n |-> Step(f, i)]
  <2>1. n - 1 + 1 = n
    BY <1>0
  <2> QED BY <1>3, <2>1
<1>5. FlattenSeq(ss) = f[n]
  BY <1>0 DEF FlattenSeq
<1> HIDE DEF f
<1>6. \A i \in 1..n : f[i] = Step(f, i)
  BY <1>4
<1> HIDE DEF n
<1>7. f[1] = ss[1] /\ \A i \in 2..n : f[i] = f[i - 1] \o ss[i]
  <2>1. 1 \in 1..n /\ \A i \in 2..n : i \in 1..n /\ i # 1
    BY <1>0
  <2> QED BY <1>6, <2>1
<1>8. \A m \in 0..(n - 1) : m + 1 \in 1..n /\ f[m + 1] \in Seq(S)
  <2> DEFINE T == {m \in Nat : m + 1 \in 1..n /\ f[m + 1] \in Seq(S)}
  <2>1. 0 \in T
    BY <1>0, <1>7
  <2>2. ASSUME NEW m \in 0..(n - 2), m \in T PROVE m + 1 \in T
    <3>1. m + 1 + 1 \in 2..n /\ m + 1 + 1 - 1 = m + 1 /\ m + 1 \in Nat
      BY <1>0
    <3>2. f[m + 1 + 1] = f[m + 1] \o ss[m + 1 + 1]
      <4> DEFINE i == m + 1 + 1
      <4>1. i \in 2..n /\ i - 1 = m + 1
        BY <3>1
      <4> HIDE DEF i
      <4>2. f[i] = f[i - 1] \o ss[i]
        BY <1>7, <4>1
      <4> QED BY <4>1, <4>2 DEF i
    <3>3. ss[m + 1 + 1] \in Seq(S) /\ f[m + 1] \in Seq(S)
      BY <1>0, <2>2, <3>1
    <3>4. f[m + 1 + 1] \in Seq(S)
      BY <3>2, <3>3
    <3>5. m + 1 + 1 \in 1..n
      BY <1>0
    <3> QED BY <3>1, <3>4, <3>5
  <2>3. \A m \in 0..(n - 1) : m \in T
    <3>1. n - 1 - 1 = n - 2
      BY <1>0
    <3> HIDE DEF T, n
    <3> QED BY <1>0, <2>1, <2>2, <3>1, StepByStep
  <2> QED BY <2>3
<1>9. \A i \in 1..n : f[i] \in Seq(S)
  <2>1. \A i \in 1..n : i - 1 \in 0..(n - 1) /\ (i - 1) + 1 = i
    BY <1>0
  <2> QED BY <1>8, <2>1
<1> QED BY <1>5, <1>7, <1>9 DEF n

-----------------------------------------------------------------------------
(* Cards.                                                                   *)

\* The parts of a card.
LEMMA CardTypes ==
  ASSUME NEW cards \in Seq(FitsCards), NEW i \in 1..Len(cards)
  PROVE  /\ cards[i] \in FitsCards /\ cards[i].indicator \in BOOLEAN
         /\ cards[i].field.text \in Seq(STRING) /\ cards[i].field.form \in Forms
<1>1. cards[i] \in FitsCards
  OBVIOUS
<1> QED BY <1>1 DEF FitsCards

\* Front cuts off the last character.
LEMMA FrontTypes ==
  ASSUME NEW S, NEW a \in Seq(S), a # <<>>
  PROVE  /\ Front(a) \in Seq(S) /\ Len(Front(a)) = Len(a) - 1
         /\ \A i \in 1..(Len(a) - 1) : Front(a)[i] = a[i]
<1> DEFINE n == Len(a) - 1
<1>1. n \in Nat /\ 1 \in Int /\ n \in Int /\ \A i \in 1..n : a[i] \in S
  OBVIOUS
<1>2. Front(a) = SubSeq(a, 1, n)
  BY DEF Front
<1> HIDE DEF n
<1>3. /\ SubSeq(a, 1, n) \in Seq(S)
      /\ Len(SubSeq(a, 1, n)) = IF 1 <= n THEN n - 1 + 1 ELSE 0
      /\ \A i \in 1..(n - 1 + 1) : SubSeq(a, 1, n)[i] = a[1 + i - 1]
  BY <1>1, SubSeqProperties
<1>4. \A i \in 1..n : i \in 1..(n - 1 + 1) /\ 1 + i - 1 = i
  BY <1>1
<1>5. \A i \in 1..n : SubSeq(a, 1, n)[i] = a[i]
  BY <1>3, <1>4
<1>6. Len(SubSeq(a, 1, n)) = n
  BY <1>1, <1>3
<1> QED BY <1>2, <1>3, <1>5, <1>6 DEF n

\* What is cut off at the end of two strings is cut off at the end of the second.
LEMMA FrontOfConcat ==
  ASSUME NEW S, NEW a \in Seq(S), NEW b \in Seq(S), b # <<>>
  PROVE  Front(a \o b) = a \o Front(b)
<1> DEFINE ab == a \o b
           bf == Front(b)
           af == a \o bf
<1>1. Len(a) \in Nat /\ Len(b) \in Nat /\ Len(b) >= 1
  OBVIOUS
<1>2. ab \in Seq(S) /\ Len(ab) = Len(a) + Len(b) /\ ab # <<>>
      /\ \A i \in 1..Len(ab) : ab[i] = IF i <= Len(a) THEN a[i] ELSE b[i - Len(a)]
  <2>1. ab \in Seq(S) /\ Len(ab) = Len(a) + Len(b)
        /\ \A i \in 1..(Len(a) + Len(b)) : ab[i] = IF i <= Len(a) THEN a[i] ELSE b[i - Len(a)]
    BY ConcatProperties
  <2>2. ab # <<>>
    BY <1>1, <2>1
  <2> QED BY <2>1, <2>2
<1>3. /\ bf \in Seq(S) /\ Len(bf) = Len(b) - 1
      /\ \A i \in 1..(Len(b) - 1) : bf[i] = b[i]
  BY FrontTypes
<1> HIDE DEF ab, bf
<1>4. /\ Front(ab) \in Seq(S) /\ Len(Front(ab)) = Len(ab) - 1
      /\ \A i \in 1..(Len(ab) - 1) : Front(ab)[i] = ab[i]
  BY <1>2, FrontTypes
<1>5. /\ af \in Seq(S) /\ Len(af) = Len(a) + Len(bf)
      /\ \A i \in 1..(Len(a) + Len(bf)) : af[i] = IF i <= Len(a) THEN a[i] ELSE bf[i - Len(a)]
  BY <1>3, ConcatProperties
<1> HIDE DEF af
<1>6. \A i \in 1..(Len(ab) - 1) : Front(ab)[i] = af[i]
  <2>1. ASSUME NEW i \in 1..(Len(ab) - 1) PROVE ab[i] = af[i]
    <3>1. i \in 1..Len(ab) /\ i \in 1..(Len(a) + Len(bf)) /\ i \in Nat
      BY <1>1, <1>2, <1>3
    <3>2. CASE i <= Len(a)
      BY <1>2, <1>5, <3>1, <3>2
    <3>3. CASE ~(i <= Len(a))
      <4>1. i - Len(a) \in 1..(Len(b) - 1)
        BY <1>1, <1>2, <3>1, <3>3
      <4> QED BY <1>2, <1>3, <1>5, <3>1, <3>3, <4>1
    <3> QED BY <3>2, <3>3
  <2> QED BY <1>4, <2>1
<1>7. Len(Front(ab)) = Len(af)
  BY <1>1, <1>2, <1>3, <1>4, <1>5
<1>8. \A i \in 1..Len(Front(ab)) : Front(ab)[i] = af[i]
  BY <1>4, <1>6
<1>9. Front(ab) = af
  BY <1>4, <1>5, <1>7, <1>8, SeqEqual
<1> QED BY <1>9 DEF ab, bf, af

\* The pieces of the long string that starts on card i, up to card j, one after the other.
Piece(cards, k, j) == IF k < j THEN Front(cards[k].field.text) ELSE cards[k].field.text
Pieces(cards, i, j) == [n \in 1..(j - i + 1) |-> Piece(cards, i + n - 1, j)]
Joined(cards, i, j) == FlattenSeq(Pieces(cards, i, j))

\* Pieces are texts.
LEMMA PieceTypes ==
  ASSUME NEW cards \in Seq(FitsCards), NEW j \in 1..Len(cards), NEW i \in 1..j
  PROVE  /\ Pieces(cards, i, j) \in Seq(Seq(STRING)) /\ Len(Pieces(cards, i, j)) = j - i + 1
         /\ Pieces(cards, i, j) # <<>>
         /\ \A k \in i..j : Pieces(cards, i, j)[k - i + 1] = Piece(cards, k, j)
<1>1. j - i + 1 \in Nat /\ j - i + 1 >= 1
  OBVIOUS
<1>2. ASSUME NEW n \in 1..(j - i + 1) PROVE Piece(cards, i + n - 1, j) \in Seq(STRING)
  <2>1. i + n - 1 \in 1..Len(cards)
    OBVIOUS
  <2>2. cards[i + n - 1].field.text \in Seq(STRING)
    BY <2>1, CardTypes
  <2>3. i + n - 1 < j => Front(cards[i + n - 1].field.text) \in Seq(STRING)
    BY <2>2 DEF Front
  <2> QED BY <2>2, <2>3 DEF Piece
<1>3. Pieces(cards, i, j) \in [1..(j - i + 1) -> Seq(STRING)]
  BY <1>2 DEF Pieces
<1>4. Pieces(cards, i, j) \in Seq(Seq(STRING)) /\ Len(Pieces(cards, i, j)) = j - i + 1
  BY <1>1, <1>3
<1>5. ASSUME NEW k \in i..j PROVE Pieces(cards, i, j)[k - i + 1] = Piece(cards, k, j)
  <2>1. k - i + 1 \in 1..(j - i + 1) /\ i + (k - i + 1) - 1 = k
    OBVIOUS
  <2> QED BY <2>1 DEF Pieces
<1> QED BY <1>1, <1>4, <1>5

\* One card alone gives its text.
LEMMA JoinedOne ==
  ASSUME NEW cards \in Seq(FitsCards), NEW i \in 1..Len(cards)
  PROVE  Joined(cards, i, i) = cards[i].field.text
<1> DEFINE ss == Pieces(cards, i, i)
<1>1. /\ ss \in Seq(Seq(STRING)) /\ Len(ss) = 1 /\ ss # <<>>
      /\ ss[1] = cards[i].field.text
  <2>1. i \in 1..i /\ i \in i..i /\ i - i + 1 = 1 /\ ~(i < i)
    OBVIOUS
  <2> QED BY <2>1, PieceTypes DEF Piece
<1> HIDE DEF ss
<1>2. PICK r : r[1] = ss[1] /\ r[Len(ss)] = FlattenSeq(ss)
  BY <1>1, FlattenUnfolds
<1> QED BY <1>1, <1>2 DEF Joined, ss

\* A string that is joined is a text.
LEMMA JoinedTypes ==
  ASSUME NEW cards \in Seq(FitsCards), NEW j \in 1..Len(cards), NEW i \in 1..j
  PROVE  Joined(cards, i, j) \in Seq(STRING)
<1> DEFINE ss == Pieces(cards, i, j)
<1>1. ss \in Seq(Seq(STRING)) /\ Len(ss) \in 1..Len(ss) /\ ss # <<>>
  <2>1. j - i + 1 \in 1..(j - i + 1)
    OBVIOUS
  <2>2. ss \in Seq(Seq(STRING)) /\ Len(ss) = j - i + 1 /\ ss # <<>>
    BY PieceTypes
  <2> QED BY <2>1, <2>2
<1> HIDE DEF ss
<1>2. PICK r : r[Len(ss)] = FlattenSeq(ss) /\ \A k \in 1..Len(ss) : r[k] \in Seq(STRING)
  BY <1>1, FlattenUnfolds
<1> QED BY <1>1, <1>2 DEF Joined, ss

\* The next card joins where the & of the last one was.
LEMMA JoinedMore ==
  ASSUME NEW cards \in Seq(FitsCards), NEW j \in 1..Len(cards), NEW i \in 1..j,
         j + 1 \in 1..Len(cards), cards[j].field.text # <<>>
  PROVE  Joined(cards, i, j + 1) = Front(Joined(cards, i, j)) \o cards[j + 1].field.text
<1> DEFINE m == j - i + 1
           a == Pieces(cards, i, j)
           b == Pieces(cards, i, j + 1)
           last == cards[j].field.text
           next == cards[j + 1].field.text
<1>0. m \in Nat /\ m >= 1
  OBVIOUS
<1>1. a \in Seq(Seq(STRING)) /\ Len(a) = m /\ a # <<>>
  BY PieceTypes
<1>2. b \in Seq(Seq(STRING)) /\ Len(b) = m + 1 /\ b # <<>>
  <2>1. i \in 1..(j + 1) /\ (j + 1) - i + 1 = m + 1
    OBVIOUS
  <2> QED BY <2>1, PieceTypes
<1>3. /\ a[m] = last /\ b[m] = Front(last) /\ b[m + 1] = next
      /\ \A n \in 1..(m - 1) : a[n] = b[n]
  <2>1. \A n \in 1..m : n \in 1..(j - i + 1) /\ n \in 1..((j + 1) - i + 1)
    OBVIOUS
  <2>2. \A n \in 1..(m - 1) : i + n - 1 < j /\ i + n - 1 < j + 1
    OBVIOUS
  <2>3. i + m - 1 = j /\ i + (m + 1) - 1 = j + 1 /\ m + 1 \in 1..((j + 1) - i + 1)
    OBVIOUS
  <2> QED BY <1>0, <2>1, <2>2, <2>3 DEF Pieces, Piece
<1>4. Joined(cards, i, j) = FlattenSeq(a) /\ Joined(cards, i, j + 1) = FlattenSeq(b)
  BY DEF Joined
<1>5. last \in Seq(STRING) /\ next \in Seq(STRING) /\ last # <<>>
  BY CardTypes
<1> HIDE DEF a, b, m, last, next
<1>6. PICK r : /\ r[1] = a[1] /\ r[m] = FlattenSeq(a)
               /\ \A k \in 1..m : r[k] \in Seq(STRING)
               /\ \A k \in 2..m : r[k] = r[k - 1] \o a[k]
  <2>1. \E r : /\ r[1] = a[1] /\ r[Len(a)] = FlattenSeq(a)
               /\ \A k \in 1..Len(a) : r[k] \in Seq(STRING)
               /\ \A k \in 2..Len(a) : r[k] = r[k - 1] \o a[k]
    BY <1>1, FlattenUnfolds
  <2> QED BY <1>1, <2>1
<1>7. PICK t : /\ t[1] = b[1] /\ t[m + 1] = FlattenSeq(b)
               /\ \A k \in 2..(m + 1) : t[k] = t[k - 1] \o b[k]
  <2>1. \E t : /\ t[1] = b[1] /\ t[Len(b)] = FlattenSeq(b)
               /\ \A k \in 1..Len(b) : t[k] \in Seq(STRING)
               /\ \A k \in 2..Len(b) : t[k] = t[k - 1] \o b[k]
    BY <1>2, FlattenUnfolds
  <2> QED BY <1>2, <2>1
<1>8. t[m] = Front(r[m])
  <2>1. CASE m = 1
    BY <1>3, <1>6, <1>7, <2>1
  <2>2. CASE m # 1
    <3> DEFINE T == {k \in Nat : k + 1 <= m - 1 => t[k + 1] = r[k + 1]}
    <3>1. 0 \in T
      BY <1>0, <1>3, <1>6, <1>7, <2>2
    <3>2. ASSUME NEW k \in 0..(m - 1), k \in T PROVE k + 1 \in T
      <4>1. SUFFICES ASSUME k + 1 + 1 <= m - 1 PROVE t[k + 1 + 1] = r[k + 1 + 1]
        OBVIOUS
      <4> DEFINE x == k + 1 + 1
      <4>2. x \in 2..m /\ x \in 2..(m + 1) /\ x \in 1..(m - 1) /\ x - 1 = k + 1
        BY <1>0, <4>1
      <4>3. t[k + 1] = r[k + 1]
        BY <1>0, <3>2, <4>1
      <4> HIDE DEF x
      <4>4. t[x] = t[x - 1] \o b[x] /\ r[x] = r[x - 1] \o a[x] /\ a[x] = b[x]
        BY <1>3, <1>6, <1>7, <4>2
      <4>5. t[x] = r[x]
        BY <4>2, <4>3, <4>4
      <4> QED BY <4>5 DEF x
    <3>3. \A k \in 0..m : k \in T
      <4> HIDE DEF T
      <4> QED BY <1>0, <3>1, <3>2, StepByStep
    <3>4. t[m - 1] = r[m - 1]
      <4>1. m - 2 \in 0..m /\ (m - 2) + 1 = m - 1
        BY <1>0, <2>2
      <4>2. m - 2 \in T
        BY <3>3, <4>1
      <4> QED BY <4>1, <4>2
    <3>5. m \in 2..m /\ m \in 2..(m + 1) /\ m - 1 \in 1..m
      BY <1>0, <2>2
    <3>6. t[m] = r[m - 1] \o Front(last) /\ r[m] = r[m - 1] \o last
      BY <1>3, <1>6, <1>7, <3>4, <3>5
    <3>7. r[m - 1] \in Seq(STRING)
      BY <1>6, <3>5
    <3> QED BY <1>5, <3>6, <3>7, FrontOfConcat
  <2> QED BY <2>1, <2>2
<1>9. t[m + 1] = t[m] \o next
  <2>1. m + 1 \in 2..(m + 1) /\ (m + 1) - 1 = m
    BY <1>0
  <2> QED BY <1>3, <1>7, <2>1
<1> QED BY <1>4, <1>6, <1>7, <1>8, <1>9 DEF next

-----------------------------------------------------------------------------
(* Long strings in the first n cards of a list.                             *)

Chain(cards, i, j) == \A k \in (i + 1)..j : ContinuesAt(cards, k)

\* The last of the first n cards that the string of card i reaches.
EndUpTo(cards, i, n) ==
  CHOOSE j \in i..n : Chain(cards, i, j) /\ (j = n \/ ~ContinuesAt(cards, j + 1))

\* What card i says, as far as the first n cards tell.
SaidBy(cards, i, n) ==
  IF cards[i].field.form = "string" THEN String(TrimEnd(Joined(cards, i, EndUpTo(cards, i, n))))
  ELSE ValueOf(cards[i].field)

Setters(cards, n) == {i \in 1..n : Sets(cards[i])}

KeywordsBy(cards, S, n) ==
  [k \in {cards[i].key : i \in S} |-> SaidBy(cards, Max({i \in S : cards[i].key = k}), n)]

\* A string ends on one card only.
LEMMA EndIs ==
  ASSUME NEW cards, NEW n \in Nat, NEW i \in 1..n, NEW j \in i..n, Chain(cards, i, j),
         j = n \/ ~ContinuesAt(cards, j + 1)
  PROVE  EndUpTo(cards, i, n) = j
<1>1. ASSUME NEW l \in i..n, Chain(cards, i, l), l = n \/ ~ContinuesAt(cards, l + 1)
      PROVE  l = j
  <2>1. CASE l < j
    <3>1. l + 1 \in (i + 1)..j /\ l # n
      BY <2>1
    <3> QED BY <1>1, <3>1 DEF Chain
  <2>2. CASE j < l
    <3>1. j + 1 \in (i + 1)..l /\ j # n
      BY <2>2
    <3> QED BY <1>1, <3>1 DEF Chain
  <2> QED BY <2>1, <2>2
<1> QED BY <1>1 DEF EndUpTo

\* A string ends.
LEMMA EndExists ==
  ASSUME NEW cards, NEW n \in Nat, NEW i \in 1..n
  PROVE  LET j == EndUpTo(cards, i, n)
         IN j \in i..n /\ Chain(cards, i, j) /\ (j = n \/ ~ContinuesAt(cards, j + 1))
<1> DEFINE ends == {j \in i..n : j = n \/ ~ContinuesAt(cards, j + 1)}
           j == Min(ends)
<1>1. ends \in SUBSET Nat /\ n \in ends
  OBVIOUS
<1>2. j \in ends /\ \A l \in ends : j <= l
  <2> HIDE DEF ends
  <2> QED BY <1>1, LeastNumber
<1> HIDE DEF j
<1>3. Chain(cards, i, j)
  <2>1. ASSUME NEW k \in (i + 1)..j PROVE ContinuesAt(cards, k)
    <3>1. k - 1 \in i..n /\ (k - 1) + 1 = k /\ ~(j <= k - 1)
      BY <1>2
    <3>2. k - 1 \notin ends
      BY <1>2, <3>1
    <3> QED BY <3>1, <3>2
  <2> QED BY <2>1 DEF Chain
<1>4. EndUpTo(cards, i, n) = j
  BY <1>2, <1>3, EndIs
<1> QED BY <1>2, <1>3, <1>4

\* One card more changes a string only by continuing it.
LEMMA EndStays ==
  ASSUME NEW cards, NEW n \in Nat, NEW i \in 1..n,
         ~(Chain(cards, i, n) /\ ContinuesAt(cards, n + 1))
  PROVE  SaidBy(cards, i, n + 1) = SaidBy(cards, i, n)
<1> DEFINE j == EndUpTo(cards, i, n)
<1>1. j \in i..n /\ Chain(cards, i, j) /\ (j = n \/ ~ContinuesAt(cards, j + 1))
  BY EndExists
<1> HIDE DEF j
<1>2. ~ContinuesAt(cards, j + 1)
  BY <1>1
<1>3. EndUpTo(cards, i, n + 1) = j
  <2>1. n + 1 \in Nat /\ i \in 1..(n + 1) /\ j \in i..(n + 1)
    BY <1>1
  <2> QED BY <1>1, <1>2, <2>1, EndIs
<1> QED BY <1>3 DEF SaidBy, j

\* A keyword has a last card among those that set it.
LEMMA LastSetter ==
  ASSUME NEW cards, NEW n \in Nat, NEW S \in SUBSET (1..n), NEW k \in {cards[i].key : i \in S}
  PROVE  LET last == Max({i \in S : cards[i].key = k})
         IN last \in S /\ cards[last].key = k /\ \A i \in S : cards[i].key = k => i <= last
<1> DEFINE T == {i \in S : cards[i].key = k}
<1>1. T \in SUBSET (0..n)
  <2>1. \A x \in T : x \in S
    OBVIOUS
  <2>2. \A x \in S : x \in 0..n
    OBVIOUS
  <2> HIDE DEF T
  <2> QED BY <2>1, <2>2
<1>3. T # {}
  <2>1. PICK i \in S : k = cards[i].key
    OBVIOUS
  <2>2. i \in T
    BY <2>1
  <2> QED BY <2>2
<1>2. Max(T) \in T /\ \A y \in T : y <= Max(T)
  <2> HIDE DEF T
  <2> QED BY <1>1, <1>3, GreatestNumber
<1> QED BY <1>2

\* Keywords are the same where their cards say the same.
LEMMA KeywordsSame ==
  ASSUME NEW cards, NEW n \in Nat, NEW m \in Nat, NEW S \in SUBSET (1..n),
         \A i \in S : SaidBy(cards, i, n) = SaidBy(cards, i, m)
  PROVE  KeywordsBy(cards, S, n) = KeywordsBy(cards, S, m)
<1>1. ASSUME NEW k \in {cards[i].key : i \in S}
      PROVE  SaidBy(cards, Max({i \in S : cards[i].key = k}), n)
               = SaidBy(cards, Max({i \in S : cards[i].key = k}), m)
  <2>1. Max({i \in S : cards[i].key = k}) \in S
    BY LastSetter
  <2> QED BY <2>1
<1> QED BY <1>1 DEF KeywordsBy

\* A setter after the others decides its keyword.
LEMMA PutKeywords ==
  ASSUME NEW cards, NEW n \in Nat, NEW S \in SUBSET (1..n), NEW i \in 1..n,
         \A k \in S : k < i
  PROVE  KeywordsBy(cards, S \cup {i}, n)
           = Put(KeywordsBy(cards, S, n), cards[i].key, SaidBy(cards, i, n))
<1> DEFINE more == S \cup {i}
           names == {cards[k].key : k \in S}
           key == cards[i].key
<1>1. {cards[k].key : k \in more} = names \cup {key}
  OBVIOUS
<1>2. DOMAIN KeywordsBy(cards, S, n) = names
  BY DEF KeywordsBy
<1>3. ASSUME NEW k \in names \cup {key}
      PROVE  SaidBy(cards, Max({l \in more : cards[l].key = k}), n)
               = IF k = key THEN SaidBy(cards, i, n) ELSE KeywordsBy(cards, S, n)[k]
  <2>0. more \in SUBSET (1..n) /\ k \in {cards[l].key : l \in more}
    OBVIOUS
  <2>1. CASE k = key
    <3> DEFINE last == Max({l \in more : cards[l].key = k})
    <3>1. last \in more /\ cards[last].key = k /\ \A l \in more : cards[l].key = k => l <= last
      <4>1. \A R \in SUBSET (1..n) : \A x \in {cards[l].key : l \in R} :
              LET m == Max({l \in R : cards[l].key = x})
              IN m \in R /\ cards[m].key = x /\ \A l \in R : cards[l].key = x => l <= m
        BY LastSetter
      <4> HIDE DEF more
      <4> QED BY <2>0, <4>1
    <3> HIDE DEF last
    <3>2. i \in more /\ cards[i].key = k /\ \A l \in more : l = i \/ l < i
      BY <2>1
    <3>3. i <= last /\ (last = i \/ last < i)
      <4> HIDE DEF more
      <4> QED BY <3>1, <3>2
    <3>4. last \in Nat /\ i \in Nat
      BY <3>1
    <3>5. last = i
      <4> HIDE DEF more, names
      <4> QED BY <3>3, <3>4
    <3> QED BY <2>1, <3>5 DEF last
  <2>2. CASE k # key
    <3>1. {l \in more : cards[l].key = k} = {l \in S : cards[l].key = k}
      BY <2>2
    <3> QED BY <2>2, <3>1 DEF KeywordsBy
  <2> QED BY <2>1, <2>2
<1>4. KeywordsBy(cards, more, n)
        = [k \in names \cup {key} |-> SaidBy(cards, Max({l \in more : cards[l].key = k}), n)]
  BY <1>1 DEF KeywordsBy
<1> HIDE DEF more, names, key
<1>5. KeywordsBy(cards, more, n)
        = [k \in names \cup {key} |->
             IF k = key THEN SaidBy(cards, i, n) ELSE KeywordsBy(cards, S, n)[k]]
  BY <1>3, <1>4
<1> QED BY <1>2, <1>5 DEF Put, more, names, key

-----------------------------------------------------------------------------
(* What a scanner holds after the first n cards.                            *)

CardFaults == {"NOT_FITS", "INVALID_CARD", "BAD_CONTINUE"}

Scanner(k, n, p, o) == [keywords |-> k, cards |-> n, pending |-> p, outcome |-> o]

IsEnd(cards, i) == i >= 2 /\ cards[i].key = "END"

\* Cards that are well formed, none of which ends the header.
NoEndYet(cards, n) == \A i \in 1..n : WellFormedCard(cards, i) /\ ~IsEnd(cards, i)

\* The first n cards show that this is no header.
Refused(cards, n) ==
  \E i \in 1..n : ~WellFormedCard(cards, i) /\ \A k \in 1..(i - 1) : ~IsEnd(cards, k)

\* The first n cards hold the header with these keywords.
Ended(keywords, cards, n) ==
  \E e \in 2..n : /\ IsEnd(cards, e) /\ WellFormedCard(cards, e) /\ NoEndYet(cards, e - 1)
                  /\ keywords = KeywordsBy(cards, Setters(cards, e), e)

\* The string of card i may go on after card n.
Pending(cards, i, n) ==
  /\ i \in Setters(cards, n) /\ Chain(cards, i, n)
  /\ cards[i].field.form = "string" /\ Continued(cards[n].field)

Settled(s, cards, n) ==
  /\ s.pending = NotPending
  /\ n >= 1 => ~MayContinue(cards[n])
  /\ s.keywords = KeywordsBy(cards, Setters(cards, n), n)

Waits(s, cards, n) ==
  \E i \in 1..n :
    /\ Pending(cards, i, n)
    /\ s.pending = [key |-> cards[i].key, text |-> Joined(cards, i, n)]
    /\ s.keywords = KeywordsBy(cards, Setters(cards, n) \ {i}, n)

Reading(s, cards, n) ==
  /\ s = Scanner(s.keywords, n, s.pending, "need-more")
  /\ NoEndYet(cards, n)
  /\ Settled(s, cards, n) \/ Waits(s, cards, n)

Says(s, cards, n) ==
  /\ s.outcome \in {"need-more", "done"} \cup CardFaults
  /\ s.outcome = "need-more" => Reading(s, cards, n)
  /\ s.outcome = "done" => Ended(s.keywords, cards, n)
  /\ s.outcome \in CardFaults => Refused(cards, n)

With(s, keywords, pending) == [s EXCEPT !.keywords = keywords, !.pending = pending]

\* A scanner with other parts.
LEMMA WithParts ==
  ASSUME NEW k, NEW n, NEW p, NEW o, NEW s, s = Scanner(k, n, p, o), NEW v, NEW w
  PROVE  With(s, v, w) = Scanner(v, n, w, o)
<1> DEFINE t == [s EXCEPT !.keywords = v]
<1>1. With(s, v, w) = [t EXCEPT !.pending = w]
  BY DEF With
<1>2. t = Scanner(v, n, p, o)
  BY DEF Scanner
<1> HIDE DEF t
<1> QED BY <1>1, <1>2 DEF Scanner

\* A scanner that counts a card.
LEMMA Counts ==
  ASSUME NEW k, NEW n, NEW p, NEW o, NEW s, s = Scanner(k, n, p, o)
  PROVE  Count(s) = Scanner(k, n + 1, p, o)
BY DEF Count, Scanner

\* A scanner that fails.
LEMMA Fails ==
  ASSUME NEW k, NEW n, NEW p, NEW o, NEW s, s = Scanner(k, n, p, o), NEW code
  PROVE  Fail(s, code) = Scanner(k, n, p, code)
BY DEF Fail, Scanner

\* Its parts.
LEMMA ScannerParts ==
  ASSUME NEW k, NEW n, NEW p, NEW o, NEW s, s = Scanner(k, n, p, o)
  PROVE  s.keywords = k /\ s.cards = n /\ s.pending = p /\ s.outcome = o
BY DEF Scanner

\* A new scanner has read nothing.
LEMMA NewScannerReads ==
  ASSUME NEW cards
  PROVE  Reading(NewScanner, cards, 0)
<1>1. Setters(cards, 0) = {}
  BY DEF Setters
<1>2. KeywordsBy(cards, {}, 0) = <<>>
  BY DEF KeywordsBy
<1>3. NoEndYet(cards, 0)
  BY DEF NoEndYet
<1> QED BY <1>1, <1>2, <1>3 DEF Reading, Settled, NewScanner, Scanner

\* The card that waits is the last setter.
LEMMA PendingIsLast ==
  ASSUME NEW cards, NEW n \in Nat, NEW i \in 1..n, Pending(cards, i, n)
  PROVE  /\ i \in Setters(cards, n) /\ \A k \in Setters(cards, n) \ {i} : k < i
         /\ \A k \in Setters(cards, n) \ {i} : ~Chain(cards, k, n)
<1>1. \A k \in 1..n : Sets(cards[k]) => ~ContinuesAt(cards, k)
  BY DEF Sets, ContinuesAt
<1>2. ASSUME NEW k \in Setters(cards, n) \ {i} PROVE k < i /\ ~Chain(cards, k, n)
  <2>0. k \in 1..n /\ Sets(cards[k]) /\ Sets(cards[i])
    BY DEF Setters, Pending
  <2>1. CASE k > i
    <3>1. k \in (i + 1)..n
      BY <2>0, <2>1
    <3> QED BY <1>1, <2>0, <3>1 DEF Pending, Chain
  <2>2. CASE k < i
    <3>1. i \in (k + 1)..n
      BY <2>0, <2>2
    <3> QED BY <1>1, <2>0, <2>2, <3>1 DEF Chain
  <2> QED BY <2>0, <2>1, <2>2
<1> QED BY <1>2 DEF Pending

\* The string that no card continues is put.
LEMMA Finalized ==
  ASSUME NEW s, NEW cards \in Seq(FitsCards), NEW n \in 1..(Len(cards) - 1), Reading(s, cards, n),
         ~ContinuesAt(cards, n + 1)
  PROVE  FinalizePending(s)
           = Scanner(KeywordsBy(cards, Setters(cards, n), n + 1), n, NotPending, "need-more")
<1>0. n \in Nat /\ n \in 1..Len(cards)
  OBVIOUS
<1>1. KeywordsBy(cards, Setters(cards, n), n) = KeywordsBy(cards, Setters(cards, n), n + 1)
  <2>1. \A i \in Setters(cards, n) : SaidBy(cards, i, n) = SaidBy(cards, i, n + 1)
    BY <1>0, EndStays DEF Setters
  <2>2. Setters(cards, n) \in SUBSET (1..n)
    BY DEF Setters
  <2> QED BY <1>0, <2>1, <2>2, KeywordsSame
<1>2. CASE Settled(s, cards, n)
  BY <1>1, <1>2 DEF Reading, Settled, FinalizePending
<1>3. CASE Waits(s, cards, n)
  <2>1. PICK i \in 1..n :
          /\ Pending(cards, i, n)
          /\ s.pending = [key |-> cards[i].key, text |-> Joined(cards, i, n)]
          /\ s.keywords = KeywordsBy(cards, Setters(cards, n) \ {i}, n)
    BY <1>3 DEF Waits
  <2>2. s.pending # NotPending
    <3>1. Sets(cards[i])
      BY <2>1 DEF Pending, Setters
    <3>2. cards[i].key \notin {"COMMENT", "HISTORY", ""} \cup {"END"}
      BY <3>1 DEF Sets, Commentary
    <3>3. s.pending.key = cards[i].key
      BY <2>1
    <3>4. NotPending.key = ""
      BY DEF NotPending
    <3> SUFFICES ASSUME s.pending = NotPending PROVE FALSE
      OBVIOUS
    <3> QED BY <3>2, <3>3, <3>4
  <2>3. SaidBy(cards, i, n) = String(TrimEnd(Joined(cards, i, n)))
    <3>1. EndUpTo(cards, i, n) = n
      <4>1. n \in i..n
        OBVIOUS
      <4> QED BY <1>0, <2>1, <4>1, EndIs DEF Pending
    <3> QED BY <2>1, <3>1 DEF SaidBy, Pending
  <2>4. KeywordsBy(cards, Setters(cards, n), n)
          = Put(s.keywords, s.pending.key, String(TrimEnd(s.pending.text)))
    <3> DEFINE S == Setters(cards, n) \ {i}
    <3>1. S \in SUBSET (1..n) /\ S \cup {i} = Setters(cards, n)
      BY <2>1 DEF Setters, Pending
    <3>2. \A k \in S : k < i
      BY <1>0, <2>1, PendingIsLast
    <3> HIDE DEF S
    <3>3. KeywordsBy(cards, S \cup {i}, n) = Put(KeywordsBy(cards, S, n), cards[i].key, SaidBy(cards, i, n))
      BY <1>0, <3>1, <3>2, PutKeywords
    <3>4. s.keywords = KeywordsBy(cards, S, n)
      BY <2>1 DEF S
    <3>5. s.pending.key = cards[i].key /\ s.pending.text = Joined(cards, i, n)
      BY <2>1
    <3> QED BY <2>3, <3>1, <3>3, <3>4, <3>5
  <2>5. FinalizePending(s)
          = [s EXCEPT !.keywords = Put(@, s.pending.key, String(TrimEnd(s.pending.text))),
                      !.pending = NotPending]
    BY <2>2 DEF FinalizePending
  <2> DEFINE k == s.keywords
             p == s.pending
             v == Put(k, p.key, String(TrimEnd(p.text)))
  <2>6. s = Scanner(k, n, p, "need-more")
    BY DEF Reading
  <2>7. FinalizePending(s) = With(s, v, NotPending)
    BY <2>5 DEF With
  <2>8. v = KeywordsBy(cards, Setters(cards, n), n + 1)
    BY <1>1, <2>4
  <2> HIDE DEF k, p, v
  <2>9. With(s, v, NotPending) = Scanner(v, n, NotPending, "need-more")
    BY <2>6, WithParts
  <2> QED BY <2>7, <2>8, <2>9
<1> QED BY <1>2, <1>3 DEF Reading

-----------------------------------------------------------------------------
(* One card.                                                                *)

\* A card that is well formed and does not end the header, after such cards.
LEMMA OneMoreGood ==
  ASSUME NEW cards, NEW n \in Nat, NoEndYet(cards, n), WellFormedCard(cards, n + 1),
         ~IsEnd(cards, n + 1)
  PROVE  NoEndYet(cards, n + 1)
<1>1. ASSUME NEW i \in 1..(n + 1) PROVE WellFormedCard(cards, i) /\ ~IsEnd(cards, i)
  <2>1. i \in 1..n \/ i = n + 1
    OBVIOUS
  <2> QED BY <2>1 DEF NoEndYet
<1> QED BY <1>1 DEF NoEndYet

\* A card that is not well formed, after such cards.
LEMMA OneMoreBad ==
  ASSUME NEW s, NEW cards, NEW n \in Nat, NoEndYet(cards, n), ~WellFormedCard(cards, n + 1),
         s.outcome \in CardFaults
  PROVE  Says(s, cards, n + 1)
<1>1. Refused(cards, n + 1)
  <2>1. n + 1 \in 1..(n + 1) /\ \A k \in 1..((n + 1) - 1) : k \in 1..n
    OBVIOUS
  <2> QED BY <2>1 DEF Refused, NoEndYet
<1> QED BY <1>1 DEF Says, CardFaults

\* The parts of a card that FeedCard looks at.
LEMMA CardParts ==
  ASSUME NEW cards \in Seq(FitsCards), NEW i \in 1..Len(cards)
  PROVE  /\ cards[i].fault \in {"none", "bytes", "charset"}
         /\ cards[i].fault = "charset" => cards[i].key # "SIMPLE"
         /\ cards[i].field = [form |-> cards[i].field.form, text |-> cards[i].field.text]
         /\ cards[i].indicator \in BOOLEAN
<1>1. cards[i] \in FitsCards
  OBVIOUS
<1>2. cards[i] \in [key : STRING, indicator : BOOLEAN, fault : {"none", "bytes", "charset"},
                    field : [form : Forms, text : Seq(STRING)]]
  BY <1>1 DEF FitsCards
<1>3. cards[i].field \in [form : Forms, text : Seq(STRING)]
  BY <1>2
<1> QED BY <1>1, <1>2, <1>3 DEF FitsCards

\* A value that is TRUE is written T.
LEMMA TruthIsT ==
  ASSUME NEW field, field = [form |-> field.form, text |-> field.text]
  PROVE  Readable(field) /\ ValueOf(field) = Truth
           <=> field = [form |-> "logical", text |-> <<"T">>]
<1>1. ASSUME Readable(field), ValueOf(field) = Truth
      PROVE  field = [form |-> "logical", text |-> <<"T">>]
  <2>1. ValueOf(field).type = "boolean" /\ ValueOf(field).text = <<"T">>
    BY <1>1 DEF Truth
  <2>2. field.form = "logical"
    <3>1. field.form = "blank" => ValueOf(field).type = "null"
      BY DEF ValueOf, NullValue
    <3>2. field.form = "string" => ValueOf(field).type = "string"
      BY DEF ValueOf, String
    <3>3. field.form = "number" => ValueOf(field).type = "number"
      BY DEF ValueOf, Number
    <3> QED BY <1>1, <2>1, <3>1, <3>2, <3>3 DEF Readable
  <2>3. ValueOf(field) = [type |-> "boolean", text |-> field.text]
    BY <2>2 DEF ValueOf
  <2>4. field.text = <<"T">>
    BY <2>1, <2>3
  <2> QED BY <2>2, <2>4
<1>2. ASSUME field = [form |-> "logical", text |-> <<"T">>]
      PROVE  Readable(field) /\ ValueOf(field) = Truth
  <2>1. field.form = "logical" /\ field.text = <<"T">>
    BY <1>2
  <2> QED BY <2>1 DEF Readable, ValueOf, Truth
<1> QED BY <1>1, <1>2

\* The first card is SIMPLE = T, or this is no FITS.
LEMMA FirstCardSays ==
  ASSUME NEW s, NEW cards \in Seq(FitsCards), Len(cards) >= 1, Reading(s, cards, 0),
         cards[1].fault # "bytes"
  PROVE  Says(FirstCard(s, cards[1]), cards, 1)
<1> DEFINE c == cards[1]
<1>0. 1 \in 1..Len(cards) /\ ~ContinuesAt(cards, 1)
  BY DEF ContinuesAt
<1>c. /\ c.fault \in {"none", "bytes", "charset"} /\ (c.fault = "charset" => c.key # "SIMPLE")
      /\ (Readable(c.field) /\ ValueOf(c.field) = Truth
            <=> c.field = [form |-> "logical", text |-> <<"T">>])
  BY <1>0, CardParts, TruthIsT
<1>s. s = Scanner(s.keywords, 0, s.pending, "need-more") /\ NoEndYet(cards, 0)
  BY DEF Reading
<1>1. CASE /\ c.key = "SIMPLE" /\ c.indicator
           /\ Readable(c.field) /\ ValueOf(c.field) = Truth
  <2>1. WellFormedCard(cards, 1)
    BY <1>0, <1>1, <1>c DEF WellFormedCard, Commentary
  <2>2. ~IsEnd(cards, 1)
    BY DEF IsEnd
  <2>3. NoEndYet(cards, 1)
    BY <2>1, <2>2, <1>s, OneMoreGood
  <2>4. Setters(cards, 0) = {} /\ Setters(cards, 1) = {1}
    <3>1. Sets(cards[1])
      BY <1>1 DEF Sets, Commentary
    <3>2. Setters(cards, 0) = {}
      BY DEF Setters
    <3>3. \A i \in 1..1 : i = 1
      OBVIOUS
    <3> QED BY <3>1, <3>2, <3>3 DEF Setters
  <2>5. s.pending = NotPending /\ s.keywords = KeywordsBy(cards, {}, 0)
    <3>1. ~Waits(s, cards, 0)
      BY DEF Waits
    <3> QED BY <2>4, <3>1 DEF Reading, Settled
  <2>6. SaidBy(cards, 1, 1) = Truth
    BY <1>1, <1>c DEF SaidBy
  <2>7. KeywordsBy(cards, {1}, 1) = Put(s.keywords, "SIMPLE", Truth)
    <3>1. KeywordsBy(cards, {}, 0) = KeywordsBy(cards, {}, 1)
      BY DEF KeywordsBy
    <3>2. KeywordsBy(cards, {} \cup {1}, 1) = Put(KeywordsBy(cards, {}, 1), cards[1].key, SaidBy(cards, 1, 1))
      BY PutKeywords
    <3> QED BY <1>1, <2>5, <2>6, <3>1, <3>2
  <2> DEFINE v == Put(s.keywords, "SIMPLE", Truth)
             t == FirstCard(s, c)
  <2>8. t = Scanner(v, 1, NotPending, "need-more")
    <3>1. t = [Count(s) EXCEPT !.keywords = Put(Count(s).keywords, "SIMPLE", Truth)]
      BY <1>1 DEF FirstCard
    <3>2. Count(s) = Scanner(s.keywords, 1, NotPending, "need-more")
      BY <1>s, <2>5, Counts
    <3>3. Count(s).keywords = s.keywords
      BY <3>2, ScannerParts
    <3> QED BY <3>1, <3>2, <3>3 DEF Scanner
  <2>9. ~MayContinue(c)
    BY <1>1, <1>c DEF MayContinue
  <2> HIDE DEF t, v
  <2>10. t.keywords = v /\ t.pending = NotPending /\ t.outcome = "need-more"
    BY <2>8, ScannerParts
  <2>11. Reading(t, cards, 1)
    BY <2>3, <2>4, <2>7, <2>8, <2>9, <2>10 DEF Reading, Settled, v
  <2> QED BY <2>10, <2>11 DEF Says, CardFaults, t
<1>2. CASE ~(/\ c.key = "SIMPLE" /\ c.indicator
             /\ Readable(c.field) /\ ValueOf(c.field) = Truth)
  <2>1. ~WellFormedCard(cards, 0 + 1)
    BY <1>2, <1>c DEF WellFormedCard
  <2>2. FirstCard(s, c) = Fail(s, "NOT_FITS")
    BY <1>2 DEF FirstCard
  <2>3. FirstCard(s, c).outcome = "NOT_FITS"
    BY <1>s, <2>2, Fails, ScannerParts
  <2>4. Says(FirstCard(s, c), cards, 0 + 1)
    BY <1>s, <2>1, <2>3, OneMoreBad DEF CardFaults
  <2> QED BY <2>4
<1> QED BY <1>1, <1>2

\* A card that sets nothing leaves the setters as they are; another one joins them.
LEMMA OneMoreSetter ==
  ASSUME NEW cards, NEW n \in Nat
  PROVE  /\ ~Sets(cards[n + 1]) => Setters(cards, n + 1) = Setters(cards, n)
         /\ Sets(cards[n + 1]) => Setters(cards, n + 1) = Setters(cards, n) \cup {n + 1}
         /\ Setters(cards, n) \in SUBSET (1..n)
         /\ n + 1 \notin Setters(cards, n)
<1>1. 1..(n + 1) = (1..n) \cup {n + 1} /\ n + 1 \notin 1..n
  OBVIOUS
<1>2. Setters(cards, n + 1) = {i \in (1..n) \cup {n + 1} : Sets(cards[i])}
  BY <1>1 DEF Setters
<1> QED BY <1>1, <1>2 DEF Setters

\* A CONTINUE card goes on with the string that waits, or is out of place.
LEMMA ContinueCardSays ==
  ASSUME NEW s, NEW cards \in Seq(FitsCards), NEW n \in 1..(Len(cards) - 1), Reading(s, cards, n),
         ContinuesAt(cards, n + 1), cards[n + 1].fault # "bytes"
  PROVE  Says(ContinueCard(s, cards[n + 1]), cards, n + 1)
<1> DEFINE c == cards[n + 1]
           t == ContinueCard(s, c)
<1>0. n \in Nat /\ n \in 1..Len(cards) /\ n + 1 \in 1..Len(cards)
  OBVIOUS
<1>k. c.key = "CONTINUE" /\ ~c.indicator
  BY DEF ContinuesAt
<1>s. s = Scanner(s.keywords, n, s.pending, "need-more") /\ NoEndYet(cards, n)
  BY DEF Reading
<1>e. ~IsEnd(cards, n + 1) /\ ~Sets(c)
  BY <1>k DEF IsEnd, Sets
<1>1. CASE s.pending = NotPending \/ c.field.form # "string"
  <2>1. ~WellFormedCard(cards, n + 1)
    <3>1. CASE c.field.form # "string"
      BY <3>1 DEF WellFormedCard
    <3>2. CASE s.pending = NotPending
      <4>1. ~Waits(s, cards, n)
        <5>1. ASSUME NEW i \in 1..n, Pending(cards, i, n),
                     s.pending = [key |-> cards[i].key, text |-> Joined(cards, i, n)]
              PROVE  FALSE
          <6>1. cards[i].key \notin {"COMMENT", "HISTORY", ""} \cup {"END"}
            BY <5>1 DEF Pending, Setters, Sets, Commentary
          <6>2. s.pending.key = cards[i].key
            BY <5>1
          <6>3. s.pending.key = ""
            <7>1. NotPending.key = ""
              BY DEF NotPending
            <7> QED BY <3>2, <7>1
          <6> QED BY <6>1, <6>2, <6>3
        <5> QED BY <5>1 DEF Waits
      <4>2. ~MayContinue(cards[n])
        BY <4>1 DEF Reading, Settled
      <4>3. (n + 1) - 1 = n
        OBVIOUS
      <4> QED BY <4>2, <4>3 DEF WellFormedCard
    <3> QED BY <1>1, <3>1, <3>2
  <2>2. t = Fail(s, "BAD_CONTINUE")
    BY <1>1 DEF ContinueCard
  <2>3. t.outcome = "BAD_CONTINUE"
    BY <1>s, <2>2, Fails, ScannerParts
  <2> HIDE DEF t
  <2>4. t.outcome \in CardFaults
    BY <2>3 DEF CardFaults
  <2>5. Says(t, cards, n + 1)
    BY <1>0, <1>s, <2>1, <2>4, OneMoreBad
  <2> QED BY <2>5 DEF t
<1>2. CASE s.pending # NotPending /\ c.field.form = "string"
  <2>1. PICK i \in 1..n :
          /\ Pending(cards, i, n)
          /\ s.pending = [key |-> cards[i].key, text |-> Joined(cards, i, n)]
          /\ s.keywords = KeywordsBy(cards, Setters(cards, n) \ {i}, n)
    BY <1>2 DEF Reading, Settled, Waits
  <2> DEFINE S == Setters(cards, n) \ {i}
             merged == Front(s.pending.text) \o c.field.text
             p == [key |-> cards[i].key, text |-> merged]
  <2>2. MayContinue(cards[n])
    <3>1. CASE n = i
      BY <2>1, <3>1 DEF Pending, Setters, Sets, MayContinue, Continued
    <3>2. CASE n # i
      <4>1. n \in (i + 1)..n
        BY <3>2
      <4>2. ContinuesAt(cards, n)
        BY <2>1, <4>1 DEF Pending, Chain
      <4> QED BY <2>1, <4>2 DEF Pending, MayContinue, Continued, ContinuesAt
    <3> QED BY <3>1, <3>2
  <2>3. n + 1 > 2
    <3>1. SUFFICES ASSUME n = 1 PROVE FALSE
      OBVIOUS
    <3>2. WellFormedCard(cards, 1)
      BY <1>s, <3>1 DEF NoEndYet
    <3>3. cards[1].field = [form |-> "logical", text |-> <<"T">>]
      BY <3>2 DEF WellFormedCard
    <3>4. cards[1].field.form = "logical"
      BY <3>3
    <3> QED BY <2>2, <3>1, <3>4 DEF MayContinue
  <2>4. WellFormedCard(cards, n + 1)
    <3>1. (n + 1) - 1 = n /\ n + 1 # 1
      OBVIOUS
    <3> QED BY <1>2, <2>2, <2>3, <3>1 DEF WellFormedCard
  <2>5. NoEndYet(cards, n + 1)
    BY <1>0, <1>e, <1>s, <2>4, OneMoreGood
  <2>6. merged = Joined(cards, i, n + 1)
    <3>1. cards[n].field.text # <<>>
      BY <2>1 DEF Pending, Continued, EndsWithAmp
    <3>2. s.pending.text = Joined(cards, i, n)
      BY <2>1
    <3> QED BY <1>0, <3>1, <3>2, JoinedMore
  <2>7. Setters(cards, n + 1) = Setters(cards, n)
    BY <1>0, <1>e, OneMoreSetter
  <2>8. Chain(cards, i, n + 1)
    <3>1. \A k \in (i + 1)..(n + 1) : k = n + 1 \/ k \in (i + 1)..n
      OBVIOUS
    <3> QED BY <2>1, <3>1 DEF Chain, Pending
  <2>9. s.keywords = KeywordsBy(cards, S, n + 1)
    <3>1. \A k \in S : k \in 1..n /\ ~Chain(cards, k, n)
      BY <1>0, <2>1, PendingIsLast DEF Setters
    <3>2. \A k \in S : SaidBy(cards, k, n) = SaidBy(cards, k, n + 1)
      BY <1>0, <3>1, EndStays
    <3>3. S \in SUBSET (1..n)
      BY <3>1
    <3> HIDE DEF S
    <3>4. KeywordsBy(cards, S, n) = KeywordsBy(cards, S, n + 1)
      BY <1>0, <3>2, <3>3, KeywordsSame
    <3> QED BY <2>1, <3>4 DEF S
  <2>10. s.pending.key = cards[i].key
    BY <2>1
  <2>11. Count(s) = Scanner(s.keywords, n + 1, s.pending, "need-more")
    <3> DEFINE k == s.keywords
               q == s.pending
    <3>1. s = Scanner(k, n, q, "need-more")
      BY <1>s
    <3> HIDE DEF k, q
    <3>2. Count(s) = Scanner(k, n + 1, q, "need-more")
      BY <3>1, Counts
    <3> QED BY <3>2 DEF k, q
  <2>12. CASE EndsWithAmp(c.field.text)
    <3>1. t = [Count(s) EXCEPT !.pending.text = merged]
      BY <1>2, <2>12 DEF ContinueCard
    <3>2. t = Scanner(s.keywords, n + 1, p, "need-more")
      <4>1. s.pending = [key |-> cards[i].key, text |-> s.pending.text]
        BY <2>1
      <4>2. [s.pending EXCEPT !.text = merged] = p
        <5> DEFINE q == s.pending
                   x == q.text
                   key == cards[i].key
        <5>1. q = [key |-> key, text |-> x]
          BY <4>1
        <5> HIDE DEF q, x, key, merged
        <5>2. [q EXCEPT !.text = merged] = [key |-> key, text |-> merged]
          BY <5>1
        <5> QED BY <5>2 DEF q, key
      <4>3. Count(s).pending = s.pending
        BY <2>11, ScannerParts
      <4> HIDE DEF merged, p, t
      <4>4. [Count(s) EXCEPT !.pending.text = merged]
              = [Count(s) EXCEPT !.pending = [s.pending EXCEPT !.text = merged]]
        BY <4>3
      <4> QED BY <2>11, <3>1, <4>2, <4>4 DEF Scanner
    <3>3. Pending(cards, i, n + 1)
      BY <1>2, <2>1, <2>7, <2>8, <2>12 DEF Pending, Continued
    <3> HIDE DEF t, p
    <3>4. t.keywords = s.keywords /\ t.pending = p /\ t.outcome = "need-more"
      BY <3>2, ScannerParts
    <3>5. Waits(t, cards, n + 1)
      <4>1. i \in 1..(n + 1)
        OBVIOUS
      <4>2. t.pending = [key |-> cards[i].key, text |-> Joined(cards, i, n + 1)]
        BY <2>6, <3>4 DEF p
      <4> QED BY <2>7, <2>9, <3>3, <3>4, <4>1, <4>2 DEF Waits
    <3>6. Says(t, cards, n + 1)
      BY <2>5, <3>2, <3>4, <3>5 DEF Says, Reading, CardFaults
    <3> QED BY <3>6 DEF t
  <2>13. CASE ~EndsWithAmp(c.field.text)
    <3> DEFINE v == Put(s.keywords, cards[i].key, String(TrimEnd(merged)))
    <3>1. t = [Count(s) EXCEPT !.keywords = Put(@, s.pending.key, String(TrimEnd(merged))),
                               !.pending = NotPending]
      BY <1>2, <2>13 DEF ContinueCard
    <3>2. t = Scanner(v, n + 1, NotPending, "need-more")
      <4>1. Count(s).keywords = s.keywords
        BY <2>11, ScannerParts
      <4>2. t = With(Count(s), v, NotPending)
        BY <2>10, <3>1, <4>1 DEF With
      <4> HIDE DEF v, t
      <4> QED BY <2>11, <4>2, WithParts
    <3>3. SaidBy(cards, i, n + 1) = String(TrimEnd(merged))
      <4>1. n + 1 \in i..(n + 1) /\ i \in 1..(n + 1) /\ n + 1 \in Nat
        OBVIOUS
      <4>2. EndUpTo(cards, i, n + 1) = n + 1
        BY <2>8, <4>1, EndIs
      <4> QED BY <2>1, <2>6, <4>2 DEF SaidBy, Pending
    <3>4. v = KeywordsBy(cards, Setters(cards, n + 1), n + 1)
      <4>1. S \in SUBSET (1..(n + 1)) /\ S \cup {i} = Setters(cards, n + 1) /\ i \in 1..(n + 1)
        BY <1>0, <2>1, <2>7, OneMoreSetter DEF Pending
      <4>2. \A k \in S : k < i
        BY <1>0, <2>1, PendingIsLast
      <4> HIDE DEF S
      <4>3. n + 1 \in Nat
        OBVIOUS
      <4>4. KeywordsBy(cards, S \cup {i}, n + 1)
              = Put(KeywordsBy(cards, S, n + 1), cards[i].key, SaidBy(cards, i, n + 1))
        BY <4>1, <4>2, <4>3, PutKeywords
      <4> QED BY <2>9, <3>3, <4>1, <4>4
    <3>5. ~MayContinue(c)
      BY <2>13 DEF MayContinue
    <3> HIDE DEF t, v
    <3>6. t.keywords = v /\ t.pending = NotPending /\ t.outcome = "need-more"
      BY <3>2, ScannerParts
    <3>7. Says(t, cards, n + 1)
      BY <2>5, <3>2, <3>4, <3>5, <3>6 DEF Says, Reading, Settled, CardFaults
    <3> QED BY <3>7 DEF t
  <2> QED BY <2>12, <2>13
<1> QED BY <1>1, <1>2

\* The END card ends the header, with the string that waited.
LEMMA EndCardSays ==
  ASSUME NEW s, NEW cards \in Seq(FitsCards), NEW n \in 1..(Len(cards) - 1), Reading(s, cards, n),
         cards[n + 1].fault # "bytes", cards[n + 1].key = "END",
         NEW t, t = [Count(FinalizePending(s)) EXCEPT !.outcome = "done"]
  PROVE  Says(t, cards, n + 1)
<1> DEFINE v == KeywordsBy(cards, Setters(cards, n), n + 1)
<1>0. n \in Nat /\ n + 1 \in 1..Len(cards) /\ (n + 1) - 1 = n
  OBVIOUS
<1>1. ~ContinuesAt(cards, n + 1) /\ ~Sets(cards[n + 1])
  BY DEF ContinuesAt, Sets
<1>2. FinalizePending(s) = Scanner(v, n, NotPending, "need-more")
  BY <1>1, Finalized
<1>3. Count(FinalizePending(s)) = Scanner(v, n + 1, NotPending, "need-more")
  BY <1>2, Counts
<1>4. t = Scanner(v, n + 1, NotPending, "done")
  BY <1>3 DEF Scanner
<1>5. t.keywords = v /\ t.outcome = "done"
  <2> HIDE DEF v
  <2> QED BY <1>4 DEF Scanner
<1>6. v = KeywordsBy(cards, Setters(cards, n + 1), n + 1)
  BY <1>0, <1>1, OneMoreSetter
<1>7. WellFormedCard(cards, n + 1)
  <2>1. n + 1 # 1
    OBVIOUS
  <2> QED BY <1>1, <2>1 DEF WellFormedCard
<1>8. IsEnd(cards, n + 1) /\ NoEndYet(cards, n)
  BY <1>0 DEF IsEnd, Reading
<1>9. Ended(t.keywords, cards, n + 1)
  <2>1. n + 1 \in 2..(n + 1)
    OBVIOUS
  <2> QED BY <1>0, <1>5, <1>6, <1>7, <1>8, <2>1 DEF Ended
<1> QED BY <1>5, <1>9 DEF Says, CardFaults

\* Another card sets its keyword, is kept without one, or is out of form.
LEMMA ValueCardSays ==
  ASSUME NEW s, NEW cards \in Seq(FitsCards), NEW n \in 1..(Len(cards) - 1), Reading(s, cards, n),
         ~ContinuesAt(cards, n + 1), cards[n + 1].fault # "bytes", cards[n + 1].key # "END"
  PROVE  Says(ValueCard(FinalizePending(s), cards[n + 1]), cards, n + 1)
<1> DEFINE c == cards[n + 1]
           f == FinalizePending(s)
           t == ValueCard(f, c)
           old == Setters(cards, n)
           v == KeywordsBy(cards, old, n + 1)
<1>0. n \in Nat /\ n + 1 \in Nat /\ n + 1 \in 1..Len(cards) /\ (n + 1) - 1 = n /\ n + 1 # 1
  OBVIOUS
<1>f. f = Scanner(v, n, NotPending, "need-more")
  BY Finalized
<1>s. NoEndYet(cards, n)
  BY DEF Reading
<1>c. /\ c.fault \in {"none", "bytes", "charset"} /\ c.indicator \in BOOLEAN
      /\ c.field.text \in Seq(STRING)
  BY <1>0, CardParts, CardTypes
<1>e. ~IsEnd(cards, n + 1)
  BY DEF IsEnd
<1>old. old \in SUBSET (1..n) /\ old \in SUBSET (1..(n + 1)) /\ \A k \in old : k < n + 1
  <2>1. old \in SUBSET (1..n)
    BY <1>0, OneMoreSetter
  <2>2. \A k \in 1..n : k \in 1..(n + 1) /\ k < n + 1
    OBVIOUS
  <2> HIDE DEF old
  <2> QED BY <2>1, <2>2
<1>bad. ASSUME ~WellFormedCard(cards, n + 1), t = Fail(f, "INVALID_CARD")
        PROVE  Says(t, cards, n + 1)
  <2> HIDE DEF f, t, v
  <2>1. t.outcome = "INVALID_CARD"
    BY <1>bad, <1>f, Fails, ScannerParts
  <2> QED BY <1>0, <1>s, <1>bad, <2>1, OneMoreBad DEF CardFaults
<1>1. CASE c.fault = "charset"
  <2>1. ~WellFormedCard(cards, n + 1)
    BY <1>1 DEF WellFormedCard
  <2>2. t = Fail(f, "INVALID_CARD")
    BY <1>1 DEF ValueCard
  <2> QED BY <1>bad, <2>1, <2>2
<1>2. CASE c.fault # "charset" /\ (c.key \in Commentary \/ ~c.indicator)
  <2>1. t = Count(f)
    BY <1>2 DEF ValueCard
  <2>2. WellFormedCard(cards, n + 1)
    BY <1>0, <1>2, <1>c DEF WellFormedCard
  <2>3. NoEndYet(cards, n + 1)
    BY <1>0, <1>e, <1>s, <2>2, OneMoreGood
  <2>4. Setters(cards, n + 1) = old
    BY <1>0, <1>2, OneMoreSetter DEF Sets
  <2>5. ~MayContinue(c)
    BY <1>0, <1>2 DEF MayContinue, ContinuesAt
  <2> HIDE DEF f, t, v, old
  <2>6. t = Scanner(v, n + 1, NotPending, "need-more")
    BY <1>f, <2>1, Counts
  <2>7. t.keywords = v /\ t.pending = NotPending /\ t.outcome = "need-more"
    BY <2>6, ScannerParts
  <2>8. Says(t, cards, n + 1)
    BY <2>3, <2>4, <2>5, <2>6, <2>7 DEF Says, Reading, Settled, CardFaults, v
  <2> QED BY <2>8 DEF t, f
<1>3. CASE c.fault # "charset" /\ ~(c.key \in Commentary \/ ~c.indicator) /\ ~Readable(c.field)
  <2>1. ~WellFormedCard(cards, n + 1)
    BY <1>3 DEF WellFormedCard
  <2>2. t = Fail(f, "INVALID_CARD")
    BY <1>3 DEF ValueCard
  <2> QED BY <1>bad, <2>1, <2>2
<1>4. CASE c.fault # "charset" /\ ~(c.key \in Commentary \/ ~c.indicator) /\ Readable(c.field)
  <2>1. WellFormedCard(cards, n + 1)
    BY <1>0, <1>4, <1>c DEF WellFormedCard
  <2>2. NoEndYet(cards, n + 1)
    BY <1>0, <1>e, <1>s, <2>1, OneMoreGood
  <2>3. Sets(c)
    BY <1>4 DEF Sets
  <2>4. Setters(cards, n + 1) = old \cup {n + 1} /\ n + 1 \notin old
    BY <1>0, <2>3, OneMoreSetter
  <2>5. Joined(cards, n + 1, n + 1) = c.field.text
    BY <1>0, JoinedOne
  <2>6. Chain(cards, n + 1, n + 1)
    BY DEF Chain
  <2>7. CASE Continued(c.field)
    <3> DEFINE p == [key |-> c.key, text |-> c.field.text]
    <3>1. t = [Count(f) EXCEPT !.pending = p]
      BY <1>4, <2>7 DEF ValueCard
    <3>2. Pending(cards, n + 1, n + 1)
      BY <2>4, <2>6, <2>7 DEF Pending, Continued
    <3>3. Setters(cards, n + 1) \ {n + 1} = old
      BY <2>4
    <3> HIDE DEF f, t, v, old
    <3>4. Count(f) = Scanner(v, n + 1, NotPending, "need-more")
      BY <1>f, Counts
    <3>5. t = Scanner(v, n + 1, p, "need-more")
      <4> HIDE DEF p
      <4> QED BY <3>1, <3>4 DEF Scanner
    <3>6. t.keywords = v /\ t.pending = p /\ t.outcome = "need-more"
      <4> HIDE DEF p
      <4> QED BY <3>5, ScannerParts
    <3>7. Waits(t, cards, n + 1)
      <4>1. n + 1 \in 1..(n + 1)
        OBVIOUS
      <4>2. t.pending = [key |-> cards[n + 1].key, text |-> Joined(cards, n + 1, n + 1)]
        BY <2>5, <3>6
      <4> QED BY <3>2, <3>3, <3>6, <4>1, <4>2 DEF Waits, v
    <3> HIDE DEF p
    <3>8. Says(t, cards, n + 1)
      BY <2>2, <3>5, <3>6, <3>7 DEF Says, Reading, CardFaults
    <3> QED BY <3>8 DEF t, f
  <2>8. CASE ~Continued(c.field)
    <3> DEFINE w == Put(v, c.key, ValueOf(c.field))
    <3>1. t = [Count(f) EXCEPT !.keywords = Put(@, c.key, ValueOf(c.field))]
      BY <1>4, <2>8 DEF ValueCard
    <3>2. SaidBy(cards, n + 1, n + 1) = ValueOf(c.field)
      <4>1. EndUpTo(cards, n + 1, n + 1) = n + 1
        <5>1. n + 1 \in 1..(n + 1) /\ n + 1 \in (n + 1)..(n + 1)
          OBVIOUS
        <5> QED BY <1>0, <2>6, <5>1, EndIs
      <4> QED BY <2>5, <2>8, <4>1 DEF SaidBy, ValueOf, Continued
    <3>3. w = KeywordsBy(cards, Setters(cards, n + 1), n + 1)
      <4>1. n + 1 \in 1..(n + 1)
        OBVIOUS
      <4> HIDE DEF old
      <4>2. KeywordsBy(cards, old \cup {n + 1}, n + 1)
              = Put(KeywordsBy(cards, old, n + 1), cards[n + 1].key, SaidBy(cards, n + 1, n + 1))
        BY <1>0, <1>old, <4>1, PutKeywords
      <4> QED BY <2>4, <3>2, <4>2
    <3>4. ~MayContinue(c)
      BY <2>8 DEF MayContinue, Continued
    <3> HIDE DEF f, t, v, old
    <3>5. Count(f) = Scanner(v, n + 1, NotPending, "need-more")
      BY <1>f, Counts
    <3>6. Count(f).keywords = v
      BY <3>5, ScannerParts
    <3>7. t = Scanner(w, n + 1, NotPending, "need-more")
      <4>1. t = [Count(f) EXCEPT !.keywords = w]
        BY <3>1, <3>6
      <4> HIDE DEF w
      <4> QED BY <3>5, <4>1 DEF Scanner
    <3> HIDE DEF w
    <3>8. t.keywords = w /\ t.pending = NotPending /\ t.outcome = "need-more"
      BY <3>7, ScannerParts
    <3>9. Says(t, cards, n + 1)
      BY <2>2, <3>3, <3>4, <3>7, <3>8 DEF Says, Reading, Settled, CardFaults
    <3> QED BY <3>9 DEF t, f
  <2> QED BY <2>7, <2>8
<1> QED BY <1>1, <1>2, <1>3, <1>4

\* One card more is one card read.
LEMMA FeedCardSays ==
  ASSUME NEW s, NEW cards \in Seq(FitsCards), NEW n \in 0..(Len(cards) - 1), Says(s, cards, n)
  PROVE  Says(FeedCard(s, cards[n + 1]), cards, n + 1)
<1> DEFINE c == cards[n + 1]
           t == FeedCard(s, c)
<1>0. n \in Nat /\ n + 1 \in 1..Len(cards)
  OBVIOUS
<1>1. CASE s.outcome # "need-more"
  <2>1. t = s
    BY <1>1 DEF FeedCard
  <2>2. Refused(cards, n) => Refused(cards, n + 1)
    BY DEF Refused
  <2>3. Ended(s.keywords, cards, n) => Ended(s.keywords, cards, n + 1)
    BY DEF Ended
  <2> QED BY <1>1, <2>1, <2>2, <2>3 DEF Says
<1>2. CASE s.outcome = "need-more"
  <2>0. Reading(s, cards, n)
    BY <1>2 DEF Says
  <2>s. s = Scanner(s.keywords, n, s.pending, "need-more") /\ NoEndYet(cards, n)
    BY <2>0 DEF Reading
  <2>c. s.cards = n
    BY <2>s, ScannerParts
  <2>1. CASE c.fault = "bytes"
    <3>1. ~WellFormedCard(cards, n + 1)
      BY <2>1 DEF WellFormedCard
    <3>2. t = Fail(s, IF s.cards = 0 THEN "NOT_FITS" ELSE "INVALID_CARD")
      BY <1>2, <2>1 DEF FeedCard
    <3> HIDE DEF t
    <3>3. t.outcome = IF s.cards = 0 THEN "NOT_FITS" ELSE "INVALID_CARD"
      BY <2>s, <3>2, Fails, ScannerParts
    <3>4. t.outcome \in CardFaults
      BY <3>3 DEF CardFaults
    <3>5. Says(t, cards, n + 1)
      BY <1>0, <2>s, <3>1, <3>4, OneMoreBad
    <3> QED BY <3>5 DEF t
  <2>2. CASE c.fault # "bytes" /\ n = 0
    <3>1. t = FirstCard(s, c)
      BY <1>2, <2>2, <2>c DEF FeedCard
    <3>2. Len(cards) >= 1 /\ n + 1 = 1
      BY <1>0, <2>2
    <3>3. Says(FirstCard(s, cards[1]), cards, 1)
      BY <2>0, <2>2, <3>2, FirstCardSays
    <3> QED BY <3>1, <3>2, <3>3
  <2>3. CASE c.fault # "bytes" /\ n # 0
    <3>0. n \in 1..(Len(cards) - 1) /\ n + 1 > 1
      BY <2>3
    <3>1. CASE ContinuesAt(cards, n + 1)
      <4>1. c.key = "CONTINUE" /\ ~c.indicator
        BY <3>1 DEF ContinuesAt
      <4>2. t = ContinueCard(s, c)
        BY <1>2, <2>3, <2>c, <4>1 DEF FeedCard
      <4>3. Says(ContinueCard(s, cards[n + 1]), cards, n + 1)
        BY <2>0, <2>3, <3>0, <3>1, ContinueCardSays
      <4> QED BY <4>2, <4>3
    <3>2. CASE ~ContinuesAt(cards, n + 1) /\ c.key = "END"
      <4>1. t = [Count(FinalizePending(s)) EXCEPT !.outcome = "done"]
        BY <1>2, <2>3, <2>c, <3>2 DEF FeedCard
      <4> HIDE DEF t
      <4>2. Says(t, cards, n + 1)
        BY <2>0, <2>3, <3>0, <3>2, <4>1, EndCardSays
      <4> QED BY <4>2 DEF t
    <3>3. CASE ~ContinuesAt(cards, n + 1) /\ c.key # "END"
      <4>1. ~(c.key = "CONTINUE" /\ ~c.indicator)
        BY <3>0, <3>3 DEF ContinuesAt
      <4>2. t = ValueCard(FinalizePending(s), c)
        BY <1>2, <2>3, <2>c, <3>3, <4>1 DEF FeedCard
      <4>3. Says(ValueCard(FinalizePending(s), cards[n + 1]), cards, n + 1)
        BY <2>0, <2>3, <3>0, <3>3, ValueCardSays
      <4> QED BY <4>2, <4>3
    <3> QED BY <3>1, <3>2, <3>3
  <2> QED BY <2>1, <2>2, <2>3
<1> QED BY <1>1, <1>2

\* A block is as many cards as it has.
LEMMA FeedBlockSays ==
  ASSUME NEW s, NEW cards \in Seq(FitsCards), NEW n \in Nat, NEW m \in Nat, n + m <= Len(cards),
         NEW block, DOMAIN block = 1..m, \A i \in 1..m : block[i] = cards[n + i],
         Says(s, cards, n)
  PROVE  Says(FeedBlock(s, block), cards, n + m)
<1>0. PICK r : Feeds(r, s, block, m)
  <2>1. m \in Nat /\ DOMAIN block = 1..m
    OBVIOUS
  <2> QED BY <2>1, FeedBlockUnfolds
<1>1. /\ r[0] = s /\ r[m] = FeedBlock(s, block)
      /\ \A i \in 1..m : r[i] = FeedCard(r[i - 1], block[i])
  BY <1>0 DEF Feeds
<1> DEFINE T == {i \in 0..m : Says(r[i], cards, n + i)}
<1>2. 0 \in T
  BY <1>1
<1>3. ASSUME NEW i \in 0..(m - 1), i \in T PROVE i + 1 \in T
  <2>1. i + 1 \in 1..m /\ i + 1 \in 0..m /\ (i + 1) - 1 = i /\ n + i \in 0..(Len(cards) - 1)
        /\ n + (i + 1) = (n + i) + 1
    BY Len(cards) \in Nat
  <2>2. r[i + 1] = FeedCard(r[i], cards[(n + i) + 1])
    BY <1>1, <2>1
  <2>3. Says(r[i], cards, n + i)
    BY <1>3
  <2>4. Says(FeedCard(r[i], cards[(n + i) + 1]), cards, (n + i) + 1)
    BY <2>1, <2>3, FeedCardSays
  <2> QED BY <2>1, <2>2, <2>4
<1>4. \A i \in 0..m : i \in T
  <2> HIDE DEF T
  <2> QED BY <1>2, <1>3, StepByStep
<1>5. m \in T
  BY <1>4
<1> QED BY <1>1, <1>5

-----------------------------------------------------------------------------
(* What the first n cards say is the same in every list that has them.      *)

Agree(a, b, n) == n <= Len(a) /\ n <= Len(b) /\ \A i \in 1..n : a[i] = b[i]

\* Each card is what it was.
LEMMA CardsAgree ==
  ASSUME NEW a, NEW b, NEW n \in Nat, Agree(a, b, n), NEW i \in 1..n
  PROVE  /\ ContinuesAt(a, i) <=> ContinuesAt(b, i)
         /\ WellFormedCard(a, i) <=> WellFormedCard(b, i)
         /\ IsEnd(a, i) <=> IsEnd(b, i)
         /\ Sets(a[i]) <=> Sets(b[i])
<1>1. a[i] = b[i]
  BY DEF Agree
<1>2. i > 2 => a[i - 1] = b[i - 1]
  <2>1. i > 2 => i - 1 \in 1..n
    OBVIOUS
  <2> QED BY <2>1 DEF Agree
<1>3. ContinuesAt(a, i) <=> ContinuesAt(b, i)
  BY <1>1 DEF ContinuesAt
<1>4. WellFormedCard(a, i) <=> WellFormedCard(b, i)
  BY <1>1, <1>2, <1>3 DEF WellFormedCard
<1> QED BY <1>1, <1>3, <1>4 DEF IsEnd

\* A string is what it was.
LEMMA StringsAgree ==
  ASSUME NEW a, NEW b, NEW n \in Nat, Agree(a, b, n), NEW i \in 1..n, NEW m \in i..n
  PROVE  /\ Chain(a, i, m) <=> Chain(b, i, m)
         /\ Joined(a, i, m) = Joined(b, i, m)
         /\ SaidBy(a, i, m) = SaidBy(b, i, m)
<1>1. \A k \in 1..n : a[k] = b[k] /\ (ContinuesAt(a, k) <=> ContinuesAt(b, k))
  BY CardsAgree DEF Agree
<1>2. ASSUME NEW j \in i..n PROVE Chain(a, i, j) <=> Chain(b, i, j)
  <2>1. \A k \in (i + 1)..j : k \in 1..n
    OBVIOUS
  <2> QED BY <1>1, <2>1 DEF Chain
<1>3. ASSUME NEW j \in i..n PROVE Joined(a, i, j) = Joined(b, i, j)
  <2>1. \A k \in 1..(j - i + 1) : i + k - 1 \in 1..n
    OBVIOUS
  <2>2. Pieces(a, i, j) = Pieces(b, i, j)
    BY <1>1, <2>1 DEF Pieces, Piece
  <2> QED BY <2>2 DEF Joined
<1> DEFINE j == EndUpTo(a, i, m)
<1>0. m \in Nat /\ i \in 1..m
  OBVIOUS
<1>4. j \in i..m /\ Chain(a, i, j) /\ (j = m \/ ~ContinuesAt(a, j + 1))
  BY <1>0, EndExists
<1> HIDE DEF j
<1>5. j \in i..n /\ (j # m => j + 1 \in 1..n)
  BY <1>4
<1>6. EndUpTo(b, i, m) = j
  <2>1. Chain(b, i, j) /\ (j = m \/ ~ContinuesAt(b, j + 1))
    BY <1>1, <1>2, <1>4, <1>5
  <2> QED BY <1>0, <1>4, <2>1, EndIs
<1>7. SaidBy(a, i, m) = SaidBy(b, i, m)
  <2>1. a[i] = b[i] /\ Joined(a, i, j) = Joined(b, i, j)
    BY <1>1, <1>3, <1>5
  <2> QED BY <1>6, <2>1 DEF SaidBy, j
<1> QED BY <1>2, <1>3, <1>7

\* Keywords are what they were.
LEMMA KeywordsAgree ==
  ASSUME NEW a, NEW b, NEW n \in Nat, Agree(a, b, n), NEW m \in 0..n
  PROVE  /\ Setters(a, m) = Setters(b, m)
         /\ \A S \in SUBSET (1..m) : KeywordsBy(a, S, m) = KeywordsBy(b, S, m)
<1>1. \A i \in 1..m : i \in 1..n /\ m \in i..n /\ m \in Nat
  OBVIOUS
<1>2. \A i \in 1..m : a[i] = b[i] /\ (Sets(a[i]) <=> Sets(b[i])) /\ SaidBy(a, i, m) = SaidBy(b, i, m)
  BY <1>1, CardsAgree, StringsAgree DEF Agree
<1>3. Setters(a, m) = Setters(b, m)
  BY <1>2 DEF Setters
<1>4. ASSUME NEW S \in SUBSET (1..m) PROVE KeywordsBy(a, S, m) = KeywordsBy(b, S, m)
  <2>1. \A i \in S : a[i].key = b[i].key
    BY <1>2
  <2>2. {a[i].key : i \in S} = {b[i].key : i \in S}
    BY <2>1
  <2>3. ASSUME NEW k \in {a[i].key : i \in S}
        PROVE  SaidBy(a, Max({i \in S : a[i].key = k}), m)
                 = SaidBy(b, Max({i \in S : b[i].key = k}), m)
    <3>1. {i \in S : a[i].key = k} = {i \in S : b[i].key = k}
      BY <2>1
    <3>2. Max({i \in S : a[i].key = k}) \in S
      <4>1. m \in Nat
        OBVIOUS
      <4> QED BY <4>1, LastSetter
    <3> QED BY <1>2, <3>1, <3>2
  <2> QED BY <2>2, <2>3 DEF KeywordsBy
<1> QED BY <1>3, <1>4

\* So a scanner that has read the one has read the other.
LEMMA SaysAgree ==
  ASSUME NEW a, NEW b, NEW n \in Nat, Agree(a, b, n), NEW s, Says(s, a, n)
  PROVE  Says(s, b, n)
<1>1. \A i \in 1..n : /\ WellFormedCard(a, i) <=> WellFormedCard(b, i)
                      /\ IsEnd(a, i) <=> IsEnd(b, i)
                      /\ a[i] = b[i]
  BY CardsAgree DEF Agree
<1>2. Refused(a, n) => Refused(b, n)
  <2>1. \A i \in 1..n : \A k \in 1..(i - 1) : k \in 1..n
    OBVIOUS
  <2> QED BY <1>1, <2>1 DEF Refused
<1>3. \A m \in 0..n : NoEndYet(a, m) => NoEndYet(b, m)
  <2>1. \A m \in 0..n : \A i \in 1..m : i \in 1..n
    OBVIOUS
  <2> QED BY <1>1, <2>1 DEF NoEndYet
<1>4. \A m \in 0..n : Setters(a, m) = Setters(b, m)
                      /\ \A S \in SUBSET (1..m) : KeywordsBy(a, S, m) = KeywordsBy(b, S, m)
  BY KeywordsAgree
<1>set. \A m \in 0..n : Setters(a, m) \in SUBSET (1..m)
  BY DEF Setters
<1>5. Ended(s.keywords, a, n) => Ended(s.keywords, b, n)
  <2>1. SUFFICES ASSUME NEW e \in 2..n, IsEnd(a, e), WellFormedCard(a, e), NoEndYet(a, e - 1),
                        s.keywords = KeywordsBy(a, Setters(a, e), e)
                 PROVE  Ended(s.keywords, b, n)
    BY DEF Ended
  <2>2. e \in 1..n /\ e \in 0..n /\ e - 1 \in 0..n
    OBVIOUS
  <2>3. IsEnd(b, e) /\ WellFormedCard(b, e) /\ NoEndYet(b, e - 1)
    BY <1>1, <1>3, <2>1, <2>2
  <2>4. s.keywords = KeywordsBy(b, Setters(b, e), e)
    BY <1>4, <1>set, <2>1, <2>2
  <2> QED BY <2>3, <2>4 DEF Ended
<1>6. Reading(s, a, n) => Reading(s, b, n)
  <2>1. SUFFICES ASSUME Reading(s, a, n) PROVE Reading(s, b, n)
    OBVIOUS
  <2>2. NoEndYet(b, n)
    BY <1>3, <2>1 DEF Reading
  <2>3. n \in 0..n
    OBVIOUS
  <2>4. Settled(s, a, n) => Settled(s, b, n)
    <3>1. n >= 1 => a[n] = b[n]
      BY <1>1
    <3> QED BY <1>4, <1>set, <2>3, <3>1 DEF Settled
  <2>5. Waits(s, a, n) => Waits(s, b, n)
    <3>1. SUFFICES ASSUME NEW i \in 1..n, Pending(a, i, n),
                          s.pending = [key |-> a[i].key, text |-> Joined(a, i, n)],
                          s.keywords = KeywordsBy(a, Setters(a, n) \ {i}, n)
                   PROVE  Waits(s, b, n)
      BY DEF Waits
    <3>2. n \in i..n /\ n \in 1..n
      OBVIOUS
    <3>3. (Chain(a, i, n) <=> Chain(b, i, n)) /\ Joined(a, i, n) = Joined(b, i, n)
      BY <3>2, StringsAgree
    <3>4. a[i] = b[i] /\ a[n] = b[n]
      BY <1>1, <3>2
    <3>5. Pending(b, i, n)
      BY <1>4, <2>3, <3>1, <3>3, <3>4 DEF Pending
    <3>6. s.keywords = KeywordsBy(b, Setters(b, n) \ {i}, n)
      <4>1. Setters(a, n) \ {i} \in SUBSET (1..n)
        BY <1>set, <2>3
      <4> QED BY <1>4, <2>3, <3>1, <4>1
    <3> QED BY <3>1, <3>3, <3>4, <3>5, <3>6 DEF Waits
  <2> QED BY <2>1, <2>2, <2>4, <2>5 DEF Reading
<1> QED BY <1>2, <1>5, <1>6 DEF Says

-----------------------------------------------------------------------------
(* The header of the whole list.                                            *)

\* What shows among the first cards that there is no header shows it of the list.
LEMMA RefusedIsNone ==
  ASSUME NEW cards \in Seq(FitsCards), NEW n \in 0..Len(cards), Refused(cards, n)
  PROVE  ~IsHeader(cards)
<1>1. PICK i \in 1..n : ~WellFormedCard(cards, i) /\ \A k \in 1..(i - 1) : ~IsEnd(cards, k)
  BY DEF Refused
<1>2. SUFFICES ASSUME IsHeader(cards) PROVE FALSE
  OBVIOUS
<1> DEFINE e == HeaderEnd(cards)
<1>3. e \in EndCards(cards)
  <2>1. EndCards(cards) \in SUBSET Nat /\ EndCards(cards) # {}
    BY <1>2 DEF IsHeader, EndCards
  <2> QED BY <2>1, LeastNumber DEF HeaderEnd
<1>4. e \in 2..Len(cards) /\ IsEnd(cards, e) /\ \A k \in 1..e : WellFormedCard(cards, k)
  BY <1>2, <1>3 DEF IsHeader, EndCards, IsEnd
<1> HIDE DEF e
<1>5. ~(e <= i - 1)
  BY <1>1, <1>4
<1>6. i \in 1..e
  BY <1>4, <1>5
<1> QED BY <1>1, <1>4, <1>6

\* What ended the reading of the first cards is the header of the list.
LEMMA EndedIsHeader ==
  ASSUME NEW cards \in Seq(FitsCards), NEW n \in 0..Len(cards), NEW keywords,
         Ended(keywords, cards, n)
  PROVE  IsHeader(cards) /\ keywords = KeywordsOf(cards)
<1> DEFINE N == Len(cards)
<1>0. N \in Nat
  OBVIOUS
<1>1. PICK e \in 2..n : /\ IsEnd(cards, e) /\ WellFormedCard(cards, e) /\ NoEndYet(cards, e - 1)
                        /\ keywords = KeywordsBy(cards, Setters(cards, e), e)
  BY DEF Ended
<1>e. e \in 2..N /\ e \in Nat /\ ~ContinuesAt(cards, e) /\ ~Sets(cards[e])
  BY <1>1 DEF IsEnd, ContinuesAt, Sets
<1>2. HeaderEnd(cards) = e /\ EndCards(cards) # {}
  <2>1. e \in EndCards(cards) /\ EndCards(cards) \in SUBSET Nat
    BY <1>1, <1>e DEF EndCards, IsEnd
  <2>2. \A k \in EndCards(cards) : k \in 2..N /\ IsEnd(cards, k)
    BY DEF EndCards, IsEnd
  <2>3. \A k \in EndCards(cards) : ~(k < e)
    <3>1. \A k \in 2..N : k < e => k \in 1..(e - 1)
      BY <1>e
    <3> QED BY <1>1, <2>2, <3>1 DEF NoEndYet
  <2>4. Min(EndCards(cards)) \in EndCards(cards) /\ Min(EndCards(cards)) <= e
    BY <2>1, LeastNumber
  <2>5. Min(EndCards(cards)) \in Nat /\ ~(Min(EndCards(cards)) < e)
    BY <2>1, <2>3, <2>4
  <2> QED BY <1>e, <2>1, <2>4, <2>5 DEF HeaderEnd
<1>3. IsHeader(cards)
  <2>1. \A i \in 1..e : i = e \/ i \in 1..(e - 1)
    BY <1>e
  <2>2. \A i \in 1..e : WellFormedCard(cards, i)
    BY <1>1, <2>1 DEF NoEndYet
  <2> QED BY <1>2, <2>2 DEF IsHeader
<1> DEFINE S == Setters(cards, e)
<1>s. S \in SUBSET (1..e) /\ \A i \in S : i \in 1..e /\ i < e
  BY <1>e DEF Setters
<1>4. ASSUME NEW i \in S PROVE SaidBy(cards, i, e) = SaidBy(cards, i, N)
  <2> DEFINE j == EndUpTo(cards, i, e)
  <2>0. i \in 1..e /\ i < e
    BY <1>s
  <2>1. j \in i..e /\ Chain(cards, i, j) /\ (j = e \/ ~ContinuesAt(cards, j + 1))
    BY <1>e, <2>0, EndExists
  <2> HIDE DEF j
  <2>2. j # e
    <3>1. SUFFICES ASSUME j = e PROVE FALSE
      OBVIOUS
    <3>2. e \in (i + 1)..j
      BY <1>e, <2>0, <3>1
    <3> QED BY <1>e, <2>1, <3>2 DEF Chain
  <2>3. i \in 1..N /\ j \in i..N
    BY <1>e, <2>0, <2>1
  <2>4. EndUpTo(cards, i, N) = j
    <3> HIDE DEF N
    <3> QED BY <1>0, <2>1, <2>2, <2>3, EndIs
  <2> QED BY <2>4 DEF SaidBy, j
<1>5. KeywordsBy(cards, S, e) = KeywordsBy(cards, S, N)
  <2> HIDE DEF S, N
  <2> QED BY <1>0, <1>4, <1>e, <1>s, KeywordsSame
<1>6. KeywordsOf(cards) = KeywordsBy(cards, S, N)
  <2>1. \A i : EndOfString(cards, i) = EndUpTo(cards, i, N)
    BY DEF EndOfString, EndUpTo, Chain
  <2>2. ASSUME NEW i PROVE StringAt(cards, i) = TrimEnd(Joined(cards, i, EndUpTo(cards, i, N)))
    <3>1. StringAt(cards, i) = TrimEnd(Joined(cards, i, EndOfString(cards, i)))
      <4> DEFINE last == EndOfString(cards, i)
      <4>1. StringAt(cards, i) = TrimEnd(FlattenSeq([m \in 1..(last - i + 1) |->
              IF i + m - 1 < last THEN Front(cards[i + m - 1].field.text)
                                  ELSE cards[i + m - 1].field.text]))
        BY Zenon DEF StringAt
      <4>2. Joined(cards, i, last) = FlattenSeq([m \in 1..(last - i + 1) |->
              IF i + m - 1 < last THEN Front(cards[i + m - 1].field.text)
                                  ELSE cards[i + m - 1].field.text])
        BY Zenon DEF Joined, Pieces, Piece
      <4> QED BY <4>1, <4>2
    <3> QED BY <2>1, <3>1
  <2>3. \A i : SaidBy(cards, i, N) = IF cards[i].field.form = "string"
                                     THEN String(StringAt(cards, i))
                                     ELSE ValueOf(cards[i].field)
    BY <2>2 DEF SaidBy
  <2>4. {i \in 1..HeaderEnd(cards) : Sets(cards[i])} = S
    BY <1>2 DEF Setters
  <2> HIDE DEF S, N
  <2> QED BY <2>3, <2>4 DEF KeywordsOf, KeywordsBy
<1> QED BY <1>1, <1>3, <1>5, <1>6

-----------------------------------------------------------------------------
(* Blocks.                                                                  *)

CutOff == {"EMPTY_FILE", "MISSING_END", "TRUNCATED_HEADER"}

\* A scanner that reads on can fail.
LEMMA ReadingFails ==
  ASSUME NEW s, NEW cards, NEW n, Reading(s, cards, n), NEW code
  PROVE  Fail(s, code).outcome = code
<1>1. s = Scanner(s.keywords, n, s.pending, "need-more")
  BY DEF Reading
<1> QED BY <1>1, Fails, ScannerParts

\* A block that is there in full is read as its cards; nothing else is.
LEMMA ReadBlockSays ==
  ASSUME NEW s, NEW cards \in Seq(FitsCards), NEW b \in Nat, NEW n \in Nat, n = b * CardsPerBlock,
         n <= Len(cards), s.outcome = "need-more", Says(s, cards, n)
  PROVE  LET t == ReadBlock(s, cards, b)
         IN \/ t.outcome \in CutOff
            \/ /\ n + CardsPerBlock <= Len(cards) /\ Says(t, cards, n + CardsPerBlock)
               /\ t.outcome = "need-more" => b + 1 # MaxHeaderBlocks
<1> DEFINE C == CardsPerBlock
           N == Len(cards)
           hi == IF n + C <= N THEN n + C ELSE N
           chunk == SubSeq(cards, n + 1, hi)
           fed == FeedBlock(s, chunk)
           t == ReadBlock(s, cards, b)
<1>0. C \in Nat /\ C >= 1 /\ N \in Nat
  BY BlocksAssumption
<1>1. (b + 1) * C = n + C
  BY <1>0
<1>2. BlockOf(cards, b) = chunk
  BY <1>1 DEF BlockOf
<1>3. hi \in n..N /\ hi <= n + C
  BY <1>0
<1>4. /\ chunk \in Seq(FitsCards) /\ Len(chunk) = hi - n
      /\ \A i \in 1..(hi - n) : chunk[i] = cards[n + i]
  <2> HIDE DEF hi
  <2>1. n + 1 \in Int /\ hi \in Int /\ \A i \in (n + 1)..hi : cards[i] \in FitsCards
    BY <1>0, <1>3
  <2>2. /\ chunk \in Seq(FitsCards)
        /\ Len(chunk) = IF n + 1 <= hi THEN hi - (n + 1) + 1 ELSE 0
        /\ \A i \in 1..(hi - (n + 1) + 1) : chunk[i] = cards[(n + 1) + i - 1]
    BY <2>1, SubSeqProperties
  <2>3. hi - (n + 1) + 1 = hi - n /\ \A i \in 1..(hi - n) : (n + 1) + i - 1 = n + i
    BY <1>3
  <2> HIDE DEF chunk
  <2> QED BY <1>3, <2>2, <2>3
<1>5. t = IF Len(chunk) < C THEN Fail(s, ShortChunk(chunk, b))
          ELSE IF fed.outcome = "need-more" /\ b + 1 = MaxHeaderBlocks
          THEN Fail(fed, "MISSING_END")
          ELSE fed
  BY <1>2 DEF ReadBlock
<1>6. CASE Len(chunk) < C
  <2>1. Reading(s, cards, n)
    BY DEF Says
  <2>2. t.outcome = ShortChunk(chunk, b)
    BY <1>5, <1>6, <2>1, ReadingFails
  <2> QED BY <2>2 DEF ShortChunk, CutOff
<1>7. CASE ~(Len(chunk) < C)
  <2>1. hi = n + C /\ n + C <= N
    <3> HIDE DEF hi, chunk
    <3> QED BY <1>0, <1>3, <1>4, <1>7
  <2>2. Says(fed, cards, n + C)
    <3>0. hi - n = C
      <4> HIDE DEF hi
      <4> QED BY <1>0, <2>1
    <3>1. DOMAIN chunk = 1..C /\ \A i \in 1..C : chunk[i] = cards[n + i]
      <4> HIDE DEF chunk, hi, C
      <4> QED BY <1>4, <3>0
    <3> HIDE DEF chunk, hi
    <3> QED BY <1>0, <2>1, <3>1, FeedBlockSays
  <2> HIDE DEF chunk, fed, t, hi, C
  <2>3. CASE fed.outcome = "need-more" /\ b + 1 = MaxHeaderBlocks
    <3>1. Reading(fed, cards, n + C)
      BY <2>2, <2>3 DEF Says
    <3>2. t.outcome = "MISSING_END"
      BY <1>5, <1>7, <2>3, <3>1, ReadingFails
    <3> QED BY <3>2 DEF t, CutOff
  <2>4. CASE ~(fed.outcome = "need-more" /\ b + 1 = MaxHeaderBlocks)
    <3>1. t = fed
      BY <1>5, <1>7, <2>4
    <3> QED BY <2>1, <2>2, <2>4, <3>1 DEF t, C
  <2> QED BY <2>3, <2>4
<1> QED BY <1>6, <1>7

=============================================================================
