---------------------------- MODULE ParseFileProofs ---------------------------
(***************************************************************************)
(* Proofs about the reading of one file, for any files, any units that are *)
(* appended to them meanwhile, any block size and any bound on blocks.     *)
(*                                                                         *)
(* What a scan computes is followed item by item; what it is to mean is    *)
(* said of a whole list.  The two meet in lemmas about one item more.      *)
(***************************************************************************)
EXTENDS ParseFile, FitsHeaderProofs

-----------------------------------------------------------------------------
(* XISF: the scan, and the nesting it is to accept.                         *)

\* scanXml takes one item after the other: the states between them are those of r.
LEMMA ScanXmlUnfolds ==
  ASSUME NEW s, NEW items, NEW n \in Nat, DOMAIN items = 1..n
  PROVE  \E r : /\ r[0] = s /\ r[n] = ScanItems(s, items)
                /\ \A i \in 1..n : r[i] = ScanItem(r[i - 1], items[i])
<1> DEFINE Step(g, S) == IF S = {} THEN s ELSE ScanItem(g[S \ {Max(S)}], items[Max(S)])
           Folds(m) == \E g : g = [S \in SUBSET (1..m) |-> Step(g, S)]
<1>max. \A m \in Nat : \A S \in SUBSET (1..m) :
          S # {} => Max(S) \in S /\ \A y \in S : y <= Max(S)
  <2>1. ASSUME NEW m \in Nat, NEW S \in SUBSET (1..m), S # {}
        PROVE  Max(S) \in S /\ \A y \in S : y <= Max(S)
    <3>1. S \in SUBSET (0..m)
      OBVIOUS
    <3> QED BY <2>1, <3>1, GreatestNumber
  <2> QED BY <2>1
<1>1. Folds(0)
  <2> DEFINE g == [S \in SUBSET (1..0) |-> s]
  <2>1. \A S \in SUBSET (1..0) : S = {}
    OBVIOUS
  <2>2. g = [S \in SUBSET (1..0) |-> Step(g, S)]
    BY <2>1
  <2> QED BY <2>2
<1>2. ASSUME NEW m \in Nat, Folds(m) PROVE Folds(m + 1)
  <2>1. PICK g : g = [S \in SUBSET (1..m) |-> Step(g, S)]
    BY <1>2
  <2> DEFINE h == [S \in SUBSET (1..(m + 1)) |->
                     IF m + 1 \in S THEN ScanItem(g[S \ {m + 1}], items[m + 1]) ELSE g[S]]
  <2>2. ASSUME NEW S \in SUBSET (1..(m + 1)) PROVE h[S] = Step(h, S)
    <3>1. CASE m + 1 \in S
      <4>1. Max(S) \in S /\ \A y \in S : y <= Max(S)
        <5>1. m + 1 \in Nat /\ S # {}
          BY <3>1
        <5> QED BY <1>max, <5>1
      <4>2. Max(S) = m + 1
        <5>1. \A y \in S : y \in Nat /\ y <= m + 1
          OBVIOUS
        <5>2. m + 1 <= Max(S) /\ Max(S) \in Nat /\ Max(S) <= m + 1
          BY <3>1, <4>1, <5>1
        <5> QED BY <5>2
      <4>3. S \ {m + 1} \in SUBSET (1..(m + 1)) /\ m + 1 \notin S \ {m + 1}
        OBVIOUS
      <4>4. h[S \ {m + 1}] = g[S \ {m + 1}]
        BY <4>3
      <4> QED BY <3>1, <4>2, <4>4
    <3>2. CASE m + 1 \notin S
      <4>1. S \in SUBSET (1..m)
        BY <3>2
      <4>2. h[S] = g[S] /\ g[S] = Step(g, S)
        BY <2>1, <3>2, <4>1
      <4>3. S # {} => h[S \ {Max(S)}] = g[S \ {Max(S)}]
        BY <3>2
      <4> QED BY <4>2, <4>3
    <3> QED BY <3>1, <3>2
  <2>3. h = [S \in SUBSET (1..(m + 1)) |-> Step(h, S)]
    BY <2>2
  <2> QED BY <2>3
<1>3. Folds(n)
  <2> DEFINE T == {m \in Nat : Folds(m)}
  <2> HIDE DEF Folds
  <2>1. 0 \in T /\ \A m \in 0..(n - 1) : m \in T => m + 1 \in T
    BY <1>1, <1>2
  <2>2. \A m \in 0..n : m \in T
    <3> HIDE DEF T
    <3> QED BY <2>1, StepByStep
  <2> QED BY <2>2
<1> DEFINE f == CHOOSE g : g = [S \in SUBSET (1..n) |-> Step(g, S)]
<1>4. f = [S \in SUBSET (1..n) |-> Step(f, S)]
  BY <1>3
<1>5. ScanItems(s, items) = f[1..n]
  BY DEF ScanItems, FoldLeft, MapThenFoldSet
<1> HIDE DEF f
<1> DEFINE r == [i \in 0..n |-> f[1..i]]
<1>6. r[0] = s
  <2>1. 1..0 = {}
    OBVIOUS
  <2>2. f[{}] = s
    BY <1>4
  <2> QED BY <2>1, <2>2
<1>7. ASSUME NEW i \in 1..n PROVE r[i] = ScanItem(r[i - 1], items[i])
  <2>1. 1..i \in SUBSET (1..n) /\ i \in 1..i /\ 1..i # {}
    OBVIOUS
  <2>2. Max(1..i) \in 1..i /\ i <= Max(1..i)
    <3> HIDE DEF Step, Folds, r
    <3> QED BY <1>max, <2>1
  <2>3. (1..i) \ {i} = 1..(i - 1) /\ i - 1 \in 0..n
    OBVIOUS
  <2>4. Max(1..i) = i
    BY <2>2
  <2>5. f[1..i] = ScanItem(f[1..(i - 1)], items[i])
    BY <1>4, <2>1, <2>3, <2>4
  <2> QED BY <2>3, <2>5
<1>8. r[n] = ScanItems(s, items)
  BY <1>5
<1> HIDE DEF r
<1> QED BY <1>6, <1>7, <1>8


\* The states of a scan of items.
Scan(t, items) ==
  t[0] = NewScan /\ \A k \in 1..Len(items) : t[k] = ScanItem(t[k - 1], items[k])

Spans(items) == (1..(Len(items) + 1)) \X (0..Len(items))

Follows(items, f, i, j) ==
  \/ i > j
  \/ items[i].kind \in {"skip", "empty"} /\ f[<<i + 1, j>>]
  \/ /\ items[i].kind = "open"
     /\ \E k \in (i + 1)..j : /\ items[k].kind = "close" /\ items[k].name = items[i].name
                              /\ f[<<i + 1, k - 1>>] /\ f[<<k + 1, j>>]

NestedOf(items, f) == [span \in Spans(items) |-> Follows(items, f, span[1], span[2])]

\* The spans of the items that are elements one after the other: the least set of spans
\* closed under the rules.
LEMMA BalancedFollows ==
  ASSUME NEW items \in Seq(XmlItems)
  PROVE  \E f : /\ f[<<1, Len(items)>>] <=> Balanced(items)
                /\ \A i \in 1..(Len(items) + 1), j \in 0..Len(items) :
                     f[<<i, j>>] <=> Follows(items, f, i, j)
<1> DEFINE U == Spans(items)
           In(R) == [p \in U |-> p \in R]
           Closed(R) == \A p \in U : Follows(items, In(R), p[1], p[2]) => p \in R
           M == {p \in U : \A R \in SUBSET U : Closed(R) => p \in R}
           n == Len(items)
<1>1. n \in Nat /\ \A p \in U : p = <<p[1], p[2]>> /\ p[1] \in 1..(n + 1) /\ p[2] \in 0..n
  BY DEF Spans
<1>2. \A i \in 1..(n + 1), j \in 0..n : <<i, j>> \in U
  BY DEF Spans
<1>3. ASSUME NEW Q \in SUBSET U, NEW R \in SUBSET U, Q \subseteq R, NEW p \in U,
             Follows(items, In(Q), p[1], p[2])
      PROVE  Follows(items, In(R), p[1], p[2])
  <2> DEFINE i == p[1]
             j == p[2]
  <2>1. i \in 1..(n + 1) /\ j \in 0..n
    BY <1>1
  <2>2. \A q \in U : In(Q)[q] => In(R)[q]
    BY <1>3
  <2> HIDE DEF i, j, n, U
  <2>3. CASE i > j
    BY <2>3 DEF Follows, i, j
  <2>4. CASE ~(i > j)
    <3>1. i + 1 \in 1..(n + 1) /\ \A k \in (i + 1)..j : k - 1 \in 0..n /\ k + 1 \in 1..(n + 1)
      BY <1>1, <2>1, <2>4
    <3>2. <<i + 1, j>> \in U /\ \A k \in (i + 1)..j : <<i + 1, k - 1>> \in U /\ <<k + 1, j>> \in U
      BY <1>2, <2>1, <3>1
    <3> HIDE DEF In
    <3>3. Follows(items, In(Q), i, j)
      BY <1>3 DEF i, j
    <3>4. Follows(items, In(R), i, j)
      BY <2>2, <3>2, <3>3 DEF Follows
    <3> QED BY <3>4 DEF i, j
  <2> QED BY <2>3, <2>4
<1>4. M \in SUBSET U /\ \A R \in SUBSET U : Closed(R) => M \subseteq R
  OBVIOUS
<1>5. \A p \in U : Follows(items, In(M), p[1], p[2]) => p \in M
  <2> SUFFICES ASSUME NEW p \in U, Follows(items, In(M), p[1], p[2]),
                      NEW R \in SUBSET U, Closed(R)
               PROVE  p \in R
    OBVIOUS
  <2>1. M \subseteq R
    BY <1>4
  <2> HIDE DEF M, In
  <2>2. Follows(items, In(R), p[1], p[2])
    BY <1>3, <1>4, <2>1
  <2> QED BY <2>2
<1> DEFINE F == {p \in U : Follows(items, In(M), p[1], p[2])}
<1>6. F \in SUBSET U /\ F \subseteq M
  BY <1>5
<1>7. Closed(F)
  <2> SUFFICES ASSUME NEW p \in U, Follows(items, In(F), p[1], p[2])
               PROVE  Follows(items, In(M), p[1], p[2])
    OBVIOUS
  <2> HIDE DEF M, F, In
  <2> QED BY <1>3, <1>4, <1>6
<1>8. M \subseteq F
  <2> HIDE DEF M, F, Closed
  <2> QED BY <1>4, <1>6, <1>7
<1>9. \E f : f = NestedOf(items, f)
  <2>1. \A p \in U : p \in M <=> Follows(items, In(M), p[1], p[2])
    BY <1>6, <1>8
  <2> DEFINE g == In(M)
  <2> HIDE DEF M
  <2>2. \A p \in U : (p \in M) = Follows(items, g, p[1], p[2])
    <3> SUFFICES ASSUME NEW p \in U PROVE (p \in M) = Follows(items, g, p[1], p[2])
      OBVIOUS
    <3>1. (p \in M) <=> Follows(items, g, p[1], p[2])
      BY <2>1
    <3>2. Follows(items, g, p[1], p[2]) \in BOOLEAN
      BY DEF Follows
    <3> QED BY <3>1, <3>2
  <2>3. g = [p \in U |-> p \in M]
    OBVIOUS
  <2> HIDE DEF g
  <2>4. g = [p \in U |-> Follows(items, g, p[1], p[2])]
    BY <2>2, <2>3, Zenon
  <2>5. g = NestedOf(items, g)
    BY <2>4 DEF NestedOf
  <2> QED BY <2>5
<1> DEFINE f == CHOOSE g : g = NestedOf(items, g)
<1>10. f = NestedOf(items, f)
  BY <1>9
<1>11. f[<<1, n>>] <=> Balanced(items)
  BY DEF Balanced, NestedOf, Follows, Spans
<1> HIDE DEF f
<1>12. ASSUME NEW i \in 1..(n + 1), NEW j \in 0..n
       PROVE  f[<<i, j>>] <=> Follows(items, f, i, j)
  <2>1. <<i, j>> \in Spans(items)
    BY <1>2
  <2>2. NestedOf(items, f)[<<i, j>>] <=> Follows(items, f, i, j)
    BY <2>1 DEF NestedOf
  <2> QED BY <1>10, <2>2
<1> QED BY <1>11, <1>12

\* What one item makes of a state of the scan.
Faults == {"MALFORMED_XML", "RangeError"}

StateOf(stack, keywords, properties, outcome) ==
  [stack |-> stack, keywords |-> keywords, properties |-> properties, outcome |-> outcome]

IsState(s) ==
  /\ s = StateOf(s.stack, s.keywords, s.properties, s.outcome)
  /\ s.stack \in Seq(STRING) /\ s.outcome \in {"ok"} \cup Faults

Collects(item, name) == item.kind \in StartTags /\ item.name = name /\ item.key # NoAttribute

Collecting(item, name, map) ==
  IF Collects(item, name) THEN Set(map, item.key, Text(item.value)) ELSE map

Does(s, item, t) ==
  /\ s.outcome # "ok" => t = s
  /\ s.outcome = "ok" =>
       /\ item.kind = "skip" => t = s
       /\ item.kind \in {"cut", "malformed"} => t.outcome = "MALFORMED_XML"
       /\ item.kind = "close" =>
            \/ /\ s.stack # <<>> /\ Last(s.stack) = item.name
               /\ t = StateOf(Front(s.stack), s.keywords, s.properties, "ok")
            \/ ~(s.stack # <<>> /\ Last(s.stack) = item.name) /\ t.outcome = "MALFORMED_XML"
       /\ item.kind \in StartTags =>
            \/ item.value = BadReference /\ t.outcome = "RangeError"
            \/ /\ item.value # BadReference
               /\ t = StateOf(IF item.kind = "open" THEN Append(s.stack, item.name) ELSE s.stack,
                              Collecting(item, "FITSKeyword", s.keywords),
                              Collecting(item, "Property", s.properties), "ok")

\* The parts of a state of the scan, and the state with another part.
LEMMA StateParts ==
  ASSUME NEW stack, NEW keywords, NEW properties, NEW outcome
  PROVE  LET s == StateOf(stack, keywords, properties, outcome)
         IN /\ s.stack = stack /\ s.keywords = keywords /\ s.properties = properties
            /\ s.outcome = outcome
            /\ \A v : [s EXCEPT !.stack = v] = StateOf(v, keywords, properties, outcome)
            /\ \A v : [s EXCEPT !.keywords = v] = StateOf(stack, v, properties, outcome)
            /\ \A v : [s EXCEPT !.properties = v] = StateOf(stack, keywords, v, outcome)
            /\ \A v : ScanFails(s, v) = StateOf(stack, keywords, properties, v)
BY DEF StateOf, ScanFails

\* What was pushed last is popped first.
LEMMA FrontOfNames ==
  ASSUME NEW stack \in Seq(STRING), NEW name \in STRING
  PROVE  /\ Append(stack, name) \in Seq(STRING) /\ Append(stack, name) # <<>>
         /\ Last(Append(stack, name)) = name /\ Front(Append(stack, name)) = stack
         /\ Len(Append(stack, name)) = Len(stack) + 1 /\ Len(stack) \in Nat
<1> DEFINE more == Append(stack, name)
           n == Len(stack)
<1>1. more \in Seq(STRING) /\ Len(more) = n + 1 /\ n \in Nat /\ more[n + 1] = name
      /\ \A i \in 1..n : more[i] = stack[i]
  OBVIOUS
<1> HIDE DEF more
<1>2. more # <<>> /\ Last(more) = name
  BY <1>1 DEF Last
<1>3. /\ Front(more) \in Seq(STRING) /\ Len(Front(more)) = Len(more) - 1
      /\ \A i \in 1..(Len(more) - 1) : Front(more)[i] = more[i]
  BY <1>1, <1>2, FrontTypes
<1> DEFINE front == Front(more)
<1> HIDE DEF front
<1>4. front \in Seq(STRING) /\ Len(front) = n /\ \A i \in 1..n : front[i] = stack[i]
  BY <1>1, <1>3 DEF front
<1>5. front = stack
  BY <1>4, SeqEqual
<1> QED BY <1>1, <1>2, <1>5 DEF more, front

\* A stack that is popped is one shorter.
LEMMA FrontIsShorter ==
  ASSUME NEW stack \in Seq(STRING), stack # <<>>
  PROVE  /\ Front(stack) \in Seq(STRING) /\ Len(stack) \in Nat /\ Len(stack) >= 1
         /\ Len(Front(stack)) = Len(stack) - 1
BY FrontTypes

\* One item moves the scan as Does says.
LEMMA ScanItemDoes ==
  ASSUME NEW s, NEW item \in XmlItems, IsState(s)
  PROVE  Does(s, item, ScanItem(s, item)) /\ IsState(ScanItem(s, item))
<1> DEFINE t == ScanItem(s, item)
           w == s.stack
           k == s.keywords
           p == s.properties
           o == s.outcome
<1>1. /\ s = StateOf(w, k, p, o) /\ w \in Seq(STRING) /\ o \in {"ok"} \cup Faults
  BY DEF IsState
<1>2. /\ item.kind \in StartTags \cup {"close", "skip", "cut", "malformed"}
      /\ item.name \in STRING
  BY DEF XmlItems
<1> HIDE DEF w, k, p, o
<1>3. /\ \A v : [s EXCEPT !.stack = v] = StateOf(v, k, p, o)
      /\ \A v : [s EXCEPT !.keywords = v] = StateOf(w, v, p, o)
      /\ \A v : [s EXCEPT !.properties = v] = StateOf(w, k, v, o)
      /\ \A v : ScanFails(s, v) = StateOf(w, k, p, v)
  BY <1>1, StateParts
<1>4. \A v, a, b, c : StateOf(v, a, b, c).outcome = c /\ StateOf(v, a, b, c).stack = v
  BY StateParts
<1>5. \A v, a, b, c : v \in Seq(STRING) /\ c \in {"ok"} \cup Faults => IsState(StateOf(v, a, b, c))
  BY DEF IsState, StateOf
<1>6. CASE o # "ok" \/ item.kind = "skip"
  <2>1. t = s
    BY <1>6 DEF ScanItem, o
  <2> HIDE DEF t
  <2> QED BY <1>2, <1>6, <2>1 DEF t, Does, o, StartTags
<1>7. CASE o = "ok" /\ item.kind \in {"cut", "malformed"}
  <2>1. t = ScanFails(s, "MALFORMED_XML")
    BY <1>7 DEF ScanItem, o
  <2>2. t = StateOf(w, k, p, "MALFORMED_XML")
    BY <1>3, <2>1
  <2> HIDE DEF t
  <2>3. t.outcome = "MALFORMED_XML" /\ IsState(t)
    BY <1>1, <1>4, <1>5, <2>2 DEF Faults
  <2> QED BY <1>7, <2>3 DEF t, Does, o, StartTags
<1>8. CASE o = "ok" /\ item.kind = "close"
  <2>1. t = Closes(s, item)
    BY <1>8 DEF ScanItem, o
  <2>2. CASE w # <<>> /\ Last(w) = item.name
    <3>1. t = StateOf(Front(w), k, p, "ok") /\ Front(w) \in Seq(STRING)
      <4>1. t = [s EXCEPT !.stack = Front(w)]
        BY <2>1, <2>2 DEF Closes, w
      <4> HIDE DEF t
      <4> QED BY <1>1, <1>3, <1>8, <2>2, <4>1, FrontIsShorter
    <3> HIDE DEF t
    <3>2. IsState(t)
      BY <1>5, <3>1
    <3> QED BY <1>8, <2>2, <3>1, <3>2 DEF t, Does, o, w, k, p, StartTags
  <2>3. CASE ~(w # <<>> /\ Last(w) = item.name)
    <3>1. t = ScanFails(s, "MALFORMED_XML")
      BY <2>1, <2>3 DEF Closes, w
    <3>2. t = StateOf(w, k, p, "MALFORMED_XML")
      BY <1>3, <3>1
    <3> HIDE DEF t
    <3>3. t.outcome = "MALFORMED_XML" /\ IsState(t)
      BY <1>1, <1>4, <1>5, <3>2 DEF Faults
    <3> QED BY <1>8, <2>3, <3>3 DEF t, Does, o, w, StartTags
  <2> QED BY <2>2, <2>3
<1>9. CASE o = "ok" /\ item.kind \in StartTags
  <2>1. t = Opens(s, item)
    BY <1>9 DEF ScanItem, o, StartTags
  <2>2. CASE item.value = BadReference
    <3>1. t = ScanFails(s, "RangeError")
      BY <2>1, <2>2 DEF Opens
    <3>2. t = StateOf(w, k, p, "RangeError")
      BY <1>3, <3>1
    <3> HIDE DEF t
    <3>3. t.outcome = "RangeError" /\ IsState(t)
      BY <1>1, <1>4, <1>5, <3>2 DEF Faults
    <3> QED BY <1>9, <2>2, <3>3 DEF t, Does, o, StartTags
  <2>3. CASE item.value # BadReference
    <3> DEFINE c == Collect(s, item)
               k2 == Collecting(item, "FITSKeyword", k)
               p2 == Collecting(item, "Property", p)
               w2 == IF item.kind = "open" THEN Append(w, item.name) ELSE w
    <3>1. c = StateOf(w, k2, p2, o)
      <4>1. CASE item.key = NoAttribute \/ item.name \notin {"FITSKeyword", "Property"}
        <5>1. c = s /\ k2 = k /\ p2 = p
          BY <4>1 DEF Collect, Collecting, Collects
        <5> HIDE DEF c, k2, p2
        <5> QED BY <1>1, <5>1
      <4>2. CASE item.key # NoAttribute /\ item.name = "FITSKeyword"
        <5> DEFINE v == Set(k, item.key, Text(item.value))
        <5>1. c = [s EXCEPT !.keywords = v] /\ k2 = v /\ p2 = p
          BY <1>9, <4>2 DEF Collect, Collecting, Collects, k
        <5> HIDE DEF c, k2, p2, v
        <5> QED BY <1>3, <5>1
      <4>3. CASE item.key # NoAttribute /\ item.name = "Property"
        <5> DEFINE v == Set(p, item.key, Text(item.value))
        <5>1. c = [s EXCEPT !.properties = v] /\ k2 = k /\ p2 = v
          BY <1>9, <4>3 DEF Collect, Collecting, Collects, p
        <5> HIDE DEF c, k2, p2, v
        <5> QED BY <1>3, <5>1
      <4> QED BY <4>1, <4>2, <4>3
    <3>2. t = [c EXCEPT !.stack = IF item.kind = "open" THEN Append(@, item.name) ELSE @]
      BY <2>1, <2>3 DEF Opens
    <3> HIDE DEF c, k2, p2
    <3>3. t = StateOf(w2, k2, p2, "ok")
      <4>1. c.stack = w
        BY <1>4, <3>1
      <4>2. t = [c EXCEPT !.stack = w2]
        BY <3>2, <4>1
      <4> HIDE DEF t, w2
      <4> QED BY <1>9, <3>1, <4>2, StateParts
    <3>4. w2 \in Seq(STRING)
      BY <1>1, <1>2, FrontOfNames
    <3> HIDE DEF t
    <3>5. IsState(t)
      BY <1>5, <3>3, <3>4
    <3>6. t = StateOf(IF item.kind = "open" THEN Append(s.stack, item.name) ELSE s.stack,
                      Collecting(item, "FITSKeyword", s.keywords),
                      Collecting(item, "Property", s.properties), "ok")
      BY <3>3 DEF w, k, p, k2, p2
    <3> QED BY <1>9, <2>3, <3>5, <3>6 DEF t, Does, o, StartTags
  <2> QED BY <2>2, <2>3
<1> QED BY <1>1, <1>2, <1>6, <1>7, <1>8, <1>9

\* Every state of a scan comes from the one before by its item, and a fault stays.
LEMMA ScanStates ==
  ASSUME NEW items \in Seq(XmlItems), NEW t, Scan(t, items)
  PROVE  /\ \A k \in 0..Len(items) : IsState(t[k])
         /\ \A k \in 1..Len(items) : Does(t[k - 1], items[k], t[k])
<1> DEFINE n == Len(items)
           T == {k \in Nat : k <= n => IsState(t[k])}
<1>1. n \in Nat /\ \A k \in 1..n : items[k] \in XmlItems
  OBVIOUS
<1>2. 0 \in T
  <2>1. t[0] = NewScan
    BY DEF Scan
  <2>2. IsState(NewScan)
    <3>1. <<>> \in Seq(STRING)
      OBVIOUS
    <3> QED BY <3>1 DEF IsState, NewScan, StateOf
  <2> QED BY <2>1, <2>2
<1>3. ASSUME NEW k \in 0..(n - 1), k \in T PROVE k + 1 \in T
  <2>1. k + 1 \in 1..n /\ (k + 1) - 1 = k /\ k <= n
    BY <1>1
  <2>2. t[k + 1] = ScanItem(t[k], items[k + 1]) /\ IsState(t[k]) /\ items[k + 1] \in XmlItems
    BY <1>1, <1>3, <2>1 DEF Scan
  <2> QED BY <2>1, <2>2, ScanItemDoes
<1>4. \A k \in 0..n : k \in T
  <2> HIDE DEF T
  <2> QED BY <1>1, <1>2, <1>3, StepByStep
<1>5. \A k \in 0..n : IsState(t[k])
  BY <1>1, <1>4
<1>6. ASSUME NEW k \in 1..n PROVE Does(t[k - 1], items[k], t[k])
  <2>1. k - 1 \in 0..n /\ t[k] = ScanItem(t[k - 1], items[k]) /\ items[k] \in XmlItems
    BY <1>1 DEF Scan
  <2> QED BY <1>5, <2>1, ScanItemDoes
<1> QED BY <1>5, <1>6

\* Once the scan has failed, no item changes it.
LEMMA FaultStays ==
  ASSUME NEW items \in Seq(XmlItems), NEW t, Scan(t, items), NEW a \in 0..Len(items),
         NEW b \in a..Len(items), t[a].outcome # "ok"
  PROVE  t[b] = t[a]
<1> DEFINE d == b - a
           T == {k \in Nat : k <= d => t[a + k] = t[a]}
<1>1. d \in Nat /\ a \in Nat /\ Len(items) \in Nat
  OBVIOUS
<1>2. ASSUME NEW k \in 0..(d - 1), k \in T PROVE k + 1 \in T
  <2>1. a + (k + 1) \in 1..Len(items) /\ (a + (k + 1)) - 1 = a + k
    BY <1>1
  <2>2. Does(t[a + k], items[a + (k + 1)], t[a + (k + 1)]) /\ t[a + k] = t[a]
    BY <1>1, <1>2, <2>1, ScanStates
  <2> QED BY <1>1, <2>2 DEF Does
<1>3. 0 \in T
  BY <1>1
<1>4. \A k \in 0..d : k \in T
  <2> HIDE DEF T, d
  <2> QED BY <1>1, <1>2, <1>3, StepByStep
<1>5. d \in T /\ a + d = b
  BY <1>1, <1>4
<1> QED BY <1>5

\* Elements that are nested as they must be leave the stack as they find it.
Kept(t, i, j) ==
  /\ t[j].outcome \in {"ok", "RangeError"}
  /\ t[j].outcome = "ok" => t[j].stack = t[i - 1].stack

\* Over nested elements the stack comes back to what it was, and never falls below.
LEMMA NestingKeepsStack ==
  ASSUME NEW items \in Seq(XmlItems), NEW t, Scan(t, items), NEW f,
         \A i \in 1..(Len(items) + 1), j \in 0..Len(items) :
           f[<<i, j>>] <=> Follows(items, f, i, j)
  PROVE  \A i \in 1..(Len(items) + 1), j \in 0..Len(items) :
           i <= j + 1 /\ f[<<i, j>>] /\ t[i - 1].outcome = "ok" => Kept(t, i, j)
<1> DEFINE n == Len(items)
           C(i, j) == f[<<i, j>>] /\ t[i - 1].outcome = "ok" => Kept(t, i, j)
           T == {m \in Nat : \A i \in 1..(n + 1), j \in 0..n : i <= j + 1 /\ j + 1 - i <= m => C(i, j)}
<1>1. n \in Nat /\ \A k \in 1..n : items[k] \in XmlItems
  OBVIOUS
<1>2. \A i \in 1..(n + 1), j \in 0..n : i = j + 1 => C(i, j)
  <2>1. \A i \in 1..(n + 1), j \in 0..n : i = j + 1 => i - 1 = j
    BY <1>1
  <2> QED BY <2>1 DEF Kept
<1>3. 0 \in T
  <2>1. \A i \in 1..(n + 1), j \in 0..n : i <= j + 1 /\ j + 1 - i <= 0 => i = j + 1
    BY <1>1
  <2> QED BY <1>2, <2>1
<1>4. ASSUME NEW m \in 0..n, m \in T PROVE m + 1 \in T
  <2> SUFFICES ASSUME NEW i \in 1..(n + 1), NEW j \in 0..n, i <= j, j + 1 - i <= m + 1,
                      f[<<i, j>>], t[i - 1].outcome = "ok"
               PROVE  Kept(t, i, j)
    BY <1>1, <1>2
  <2>1. i \in 1..n /\ i - 1 \in 0..n /\ (i + 1) - 1 = i /\ i + 1 \in 1..(n + 1) /\ i + 1 <= j + 1
        /\ j + 1 - (i + 1) <= m /\ j \in i..n /\ i \in 0..n
    <3> HIDE DEF n
    <3>1. n \in Nat /\ i \in Nat /\ j \in Nat /\ m \in Nat /\ 1 <= i /\ j <= n
      BY <1>1
    <3>2. i \in 1..n /\ i - 1 \in 0..n /\ (i + 1) - 1 = i /\ i + 1 \in 1..(n + 1)
      BY <3>1
    <3>3. i + 1 <= j + 1 /\ j + 1 - (i + 1) <= m /\ j \in i..n /\ i \in 0..n
      BY <3>1
    <3> QED BY <3>2, <3>3
  <2>2. Does(t[i - 1], items[i], t[i]) /\ IsState(t[i - 1]) /\ IsState(t[i])
    BY <2>1, ScanStates
  <2>3. \A x \in 0..n : \A y \in x..n : t[x].outcome # "ok" => t[y] = t[x]
    BY FaultStays
  <2>4. C(i + 1, j)
    BY <1>4, <2>1
  <2>5. Follows(items, f, i, j)
    BY <2>1
  <2> HIDE DEF T, n
  <2>6. CASE items[i].kind \in {"skip", "empty"} /\ f[<<i + 1, j>>]
    <3>1. t[i].outcome = "RangeError" \/ (t[i].outcome = "ok" /\ t[i].stack = t[i - 1].stack)
      <4>1. CASE items[i].kind = "skip"
        BY <2>2, <4>1 DEF Does
      <4>2. CASE items[i].kind = "empty"
        <5>1. \/ t[i].outcome = "RangeError"
              \/ t[i] = StateOf(t[i - 1].stack, Collecting(items[i], "FITSKeyword", t[i - 1].keywords),
                                Collecting(items[i], "Property", t[i - 1].properties), "ok")
          BY <2>2, <4>2 DEF Does, StartTags
        <5> QED BY <5>1, StateParts
      <4> QED BY <2>6, <4>1, <4>2
    <3>2. CASE t[i].outcome = "RangeError"
      <4>1. t[j] = t[i]
        BY <2>1, <2>3, <3>2
      <4> QED BY <3>2, <4>1 DEF Kept
    <3>3. CASE t[i].outcome = "ok" /\ t[i].stack = t[i - 1].stack
      <4>1. Kept(t, i + 1, j)
        BY <2>1, <2>4, <2>6, <3>3
      <4> QED BY <2>1, <3>3, <4>1 DEF Kept
    <3> QED BY <3>1, <3>2, <3>3
  <2>7. CASE /\ items[i].kind = "open"
             /\ \E k \in (i + 1)..j : /\ items[k].kind = "close" /\ items[k].name = items[i].name
                                      /\ f[<<i + 1, k - 1>>] /\ f[<<k + 1, j>>]
    <3>1. PICK k \in (i + 1)..j : /\ items[k].kind = "close" /\ items[k].name = items[i].name
                                  /\ f[<<i + 1, k - 1>>] /\ f[<<k + 1, j>>]
      BY <2>7
    <3>2. /\ k \in 1..n /\ k - 1 \in 0..n /\ k + 1 \in 1..(n + 1) /\ (k + 1) - 1 = k
          /\ i + 1 <= (k - 1) + 1 /\ (k - 1) + 1 - (i + 1) <= m
          /\ k + 1 <= j + 1 /\ j + 1 - (k + 1) <= m
          /\ j \in (k - 1)..n /\ j \in k..n /\ k \in 0..n
      BY <1>1, <2>1
    <3>3. C(i + 1, k - 1) /\ C(k + 1, j)
      BY <1>4, <2>1, <3>2 DEF T, n
    <3> DEFINE w == t[i - 1].stack
               name == items[i].name
    <3>4. w \in Seq(STRING) /\ name \in STRING
      BY <1>1, <2>1, <2>2 DEF IsState, XmlItems
    <3>5. \/ t[i].outcome = "RangeError"
          \/ t[i].outcome = "ok" /\ t[i].stack = Append(w, name)
      <4> DEFINE more == Append(w, name)
                 k1 == Collecting(items[i], "FITSKeyword", t[i - 1].keywords)
                 p1 == Collecting(items[i], "Property", t[i - 1].properties)
      <4>1. t[i].outcome = "RangeError" \/ t[i] = StateOf(more, k1, p1, "ok")
        BY <2>2, <2>7 DEF Does, StartTags
      <4> HIDE DEF more, k1, p1
      <4>2. StateOf(more, k1, p1, "ok").outcome = "ok" /\ StateOf(more, k1, p1, "ok").stack = more
        BY StateParts
      <4> QED BY <4>1, <4>2 DEF more
    <3>6. CASE t[i].outcome = "RangeError"
      <4>1. t[j] = t[i]
        BY <2>1, <2>3, <3>6
      <4> QED BY <3>6, <4>1 DEF Kept
    <3>7. CASE t[i].outcome = "ok" /\ t[i].stack = Append(w, name)
      <4>1. Kept(t, i + 1, k - 1)
        BY <2>1, <3>1, <3>3, <3>7
      <4>2. CASE t[k - 1].outcome = "RangeError"
        <5>1. t[j] = t[k - 1]
          BY <2>3, <3>2, <4>2
        <5> QED BY <4>2, <5>1 DEF Kept
      <4>3. CASE t[k - 1].outcome = "ok"
        <5>1. t[k - 1].stack = Append(w, name)
          BY <2>1, <3>7, <4>1, <4>3 DEF Kept
        <5>2. Does(t[k - 1], items[k], t[k])
          BY <3>2, ScanStates DEF n
        <5> HIDE DEF w, name
        <5>3. Append(w, name) # <<>> /\ Last(Append(w, name)) = name /\ Front(Append(w, name)) = w
          BY <3>4, FrontOfNames
        <5>4. t[k] = StateOf(w, t[k - 1].keywords, t[k - 1].properties, "ok")
          BY <3>1, <4>3, <5>1, <5>2, <5>3 DEF Does, name
        <5>5. t[k].outcome = "ok" /\ t[k].stack = w
          BY <5>4, StateParts
        <5>6. Kept(t, k + 1, j)
          BY <3>1, <3>2, <3>3, <5>5
        <5> QED BY <3>2, <5>5, <5>6 DEF Kept, w
      <4> QED BY <4>1, <4>2, <4>3 DEF Kept
    <3> QED BY <3>5, <3>6, <3>7
  <2>8. ~(i > j)
    BY <1>1, <2>1
  <2>9. \/ items[i].kind \in {"skip", "empty"} /\ f[<<i + 1, j>>]
        \/ /\ items[i].kind = "open"
           /\ \E k \in (i + 1)..j : /\ items[k].kind = "close" /\ items[k].name = items[i].name
                                    /\ f[<<i + 1, k - 1>>] /\ f[<<k + 1, j>>]
    BY <2>5, <2>8 DEF Follows
  <2> QED BY ONLY <2>6, <2>7, <2>9
<1>5. \A m \in 0..(n + 1) : m \in T
  <2>1. n + 1 \in Nat /\ \A m \in 0..((n + 1) - 1) : m \in 0..n
    BY <1>1
  <2> HIDE DEF T
  <2> QED BY <1>3, <1>4, <2>1, StepByStep
<1>6. n + 1 \in T
  BY <1>1, <1>5
<1>7. \A i \in 1..(n + 1), j \in 0..n : j + 1 - i <= n + 1
  BY <1>1
<1> QED BY <1>6, <1>7

\* What is known of an item that is taken.
LEMMA ItemTaken ==
  ASSUME NEW s, NEW t, NEW item \in XmlItems, IsState(s), IsState(t), Does(s, item, t),
         t.outcome = "ok"
  PROVE  /\ s.outcome = "ok" /\ item.value # BadReference
         /\ t.keywords = Collecting(item, "FITSKeyword", s.keywords)
         /\ t.properties = Collecting(item, "Property", s.properties)
         /\ \/ item.kind \in {"skip", "empty"} /\ t.stack = s.stack /\ Len(t.stack) = Len(s.stack)
            \/ /\ item.kind = "open" /\ t.stack = Append(s.stack, item.name)
               /\ Len(t.stack) = Len(s.stack) + 1
            \/ /\ item.kind = "close" /\ s.stack # <<>> /\ Last(s.stack) = item.name
               /\ t.stack = Front(s.stack) /\ Len(t.stack) = Len(s.stack) - 1
<1> DEFINE w == s.stack
           k == s.keywords
           p == s.properties
           k1 == Collecting(item, "FITSKeyword", k)
           p1 == Collecting(item, "Property", p)
<1>1. s.outcome = "ok"
  BY DEF Does
<1>2. /\ item.kind \in StartTags \cup {"close", "skip", "cut", "malformed"} /\ item.name \in STRING
      /\ item.kind \notin StartTags => item.key = NoAttribute /\ item.value = NoAttribute
  BY DEF XmlItems
<1>3. w \in Seq(STRING)
  BY DEF IsState
<1>4. CASE item.kind \in StartTags
  <2> DEFINE more == IF item.kind = "open" THEN Append(w, item.name) ELSE w
  <2>1. item.value # BadReference /\ t = StateOf(more, k1, p1, "ok")
    BY <1>1, <1>4 DEF Does
  <2> HIDE DEF k1, p1, more
  <2>2. t.stack = more /\ t.keywords = k1 /\ t.properties = p1
    BY <2>1, StateParts
  <2> HIDE DEF w
  <2>3. Len(Append(w, item.name)) = Len(w) + 1
    BY <1>2, <1>3, FrontOfNames
  <2>4. \/ item.kind = "empty" /\ t.stack = w /\ Len(t.stack) = Len(w)
        \/ item.kind = "open" /\ t.stack = Append(w, item.name) /\ Len(t.stack) = Len(w) + 1
    BY <1>4, <2>2, <2>3 DEF more, StartTags
  <2> QED BY <1>1, <2>1, <2>2, <2>4 DEF k1, p1, w, k, p
<1>5. CASE item.kind \notin StartTags
  <2>1. k1 = k /\ p1 = p /\ item.value # BadReference
    BY <1>2, <1>5, AttributesAssumption DEF Collecting, Collects
  <2>2. item.kind \in {"close", "skip"}
    BY <1>1, <1>2, <1>5 DEF Does
  <2>3. CASE item.kind = "skip"
    BY <1>1, <2>1, <2>3 DEF Does
  <2>4. CASE item.kind = "close"
    <3>1. w # <<>> /\ Last(w) = item.name /\ t = StateOf(Front(w), k, p, "ok")
      BY <1>1, <2>4 DEF Does
    <3>2. Len(Front(w)) = Len(w) - 1
      BY <1>3, <3>1, FrontIsShorter
    <3> HIDE DEF w, k, p
    <3> DEFINE front == Front(w)
    <3> HIDE DEF front
    <3>3. t.stack = front /\ t.keywords = k /\ t.properties = p
      BY <3>1, StateParts DEF front
    <3> HIDE DEF k1, p1
    <3> QED BY <1>1, <2>1, <2>4, <3>1, <3>2, <3>3 DEF front, w, k, p, k1, p1
  <2> QED BY <2>2, <2>3, <2>4
<1> QED BY <1>4, <1>5

\* A part of the scan that ends where it begins, and never lower, is of nested elements.
Level(t, i, j) ==
  /\ t[j].outcome = "ok" /\ Len(t[j].stack) = Len(t[i - 1].stack)
  /\ \A k \in i..j : Len(t[k].stack) >= Len(t[i - 1].stack)

\* Items over which the stack comes back, and never falls below, are nested elements.
LEMMA LevelIsNested ==
  ASSUME NEW items \in Seq(XmlItems), NEW t, Scan(t, items), NEW f,
         \A i \in 1..(Len(items) + 1), j \in 0..Len(items) :
           f[<<i, j>>] <=> Follows(items, f, i, j)
  PROVE  \A i \in 1..(Len(items) + 1), j \in 0..Len(items) :
           i <= j + 1 /\ Level(t, i, j) => f[<<i, j>>]
<1> DEFINE n == Len(items)
           d(k) == Len(t[k].stack)
           T == {m \in Nat : \A i \in 1..(n + 1), j \in 0..n :
                               i <= j + 1 /\ j + 1 - i <= m /\ Level(t, i, j) => f[<<i, j>>]}
<1>1. n \in Nat /\ \A k \in 1..n : items[k] \in XmlItems
  OBVIOUS
<1>2. \A i \in 1..(n + 1), j \in 0..n : i > j => f[<<i, j>>]
  BY DEF Follows
<1>3. 0 \in T
  <2>1. \A i \in 1..(n + 1), j \in 0..n : i <= j + 1 /\ j + 1 - i <= 0 => i > j
    BY <1>1
  <2> QED BY <1>2, <2>1
<1>4. \A k \in 0..n : d(k) \in Nat
  BY ScanStates DEF IsState
<1>5. ASSUME NEW m \in 0..n, m \in T PROVE m + 1 \in T
  <2> SUFFICES ASSUME NEW i \in 1..(n + 1), NEW j \in 0..n, i <= j, j + 1 - i <= m + 1,
                      Level(t, i, j)
               PROVE  f[<<i, j>>]
    BY <1>1, <1>2
  <2>1. i \in 1..n /\ i - 1 \in 0..n /\ (i + 1) - 1 = i /\ i + 1 \in 1..(n + 1) /\ i + 1 <= j + 1
        /\ j + 1 - (i + 1) <= m /\ j \in i..n /\ i \in 0..n
    BY <1>1
  <2>2. t[j].outcome = "ok" /\ d(j) = d(i - 1) /\ \A k \in i..j : d(k) >= d(i - 1)
    BY DEF Level
  <2>9. i \in Nat /\ j \in Nat /\ n \in Nat /\ i <= j /\ j <= n
    BY <1>1
  <2> HIDE DEF n, d, T
  <2>3. \A k \in 0..j : t[k].outcome = "ok"
    <3> SUFFICES ASSUME NEW k \in 0..j, t[k].outcome # "ok" PROVE FALSE
      OBVIOUS
    <3>1. k \in 0..n /\ j \in k..n
      BY <2>9
    <3>2. t[j] = t[k]
      BY <2>2, <3>1, FaultStays DEF n
    <3> QED BY <2>2, <3>2
  <2>4. ASSUME NEW k \in i..j
        PROVE  /\ k \in 1..n /\ k - 1 \in 0..n
               /\ items[k].value # BadReference
               /\ \/ items[k].kind \in {"skip", "empty"} /\ d(k) = d(k - 1)
                  \/ /\ items[k].kind = "open" /\ t[k].stack = Append(t[k - 1].stack, items[k].name)
                     /\ d(k) = d(k - 1) + 1
                  \/ /\ items[k].kind = "close" /\ Last(t[k - 1].stack) = items[k].name
                     /\ d(k) = d(k - 1) - 1
    <3>1. k \in 1..n /\ k - 1 \in 0..n /\ k \in 0..j /\ k \in 0..n
      <4>1. k \in Nat /\ i <= k /\ k <= j /\ i >= 1
        BY <2>9
      <4> QED BY <2>9, <4>1
    <3>2. IsState(t[k - 1]) /\ IsState(t[k]) /\ Does(t[k - 1], items[k], t[k]) /\ items[k] \in XmlItems
      BY <1>1, <3>1, ScanStates DEF n
    <3> DEFINE s == t[k - 1]
               u == t[k]
               item == items[k]
    <3>4. u.outcome = "ok" /\ IsState(s) /\ IsState(u) /\ Does(s, item, u) /\ item \in XmlItems
      BY <2>3, <3>1, <3>2
    <3> HIDE DEF s, u, item
    <3>3. /\ item.value # BadReference
          /\ \/ /\ item.kind \in {"skip", "empty"} /\ Len(u.stack) = Len(s.stack)
             \/ /\ item.kind = "open" /\ u.stack = Append(s.stack, item.name)
                /\ Len(u.stack) = Len(s.stack) + 1
             \/ /\ item.kind = "close" /\ Last(s.stack) = item.name
                /\ Len(u.stack) = Len(s.stack) - 1
      BY <3>4, ItemTaken
    <3> QED BY <3>1, <3>3 DEF d, s, u, item
  <2>5. i \in i..j /\ d(i) >= d(i - 1)
    <3>1. i \in i..j
      BY <2>9
    <3> QED BY <2>2, <3>1
  <2>6. CASE items[i].kind \in {"skip", "empty"}
    <3>1. d(i) = d(i - 1)
      BY <2>4, <2>5, <2>6
    <3>2. Level(t, i + 1, j)
      <4>1. \A k \in (i + 1)..j : k \in i..j
        BY <2>1
      <4> QED BY <2>1, <2>2, <3>1, <4>1 DEF Level, d
    <3>3. f[<<i + 1, j>>]
      BY <1>5, <2>1, <3>2 DEF T, n
    <3> QED BY <2>1, <2>6, <3>3 DEF Follows, n
  <2>7. CASE items[i].kind = "open"
    <3>1. d(i) = d(i - 1) + 1 /\ t[i].stack = Append(t[i - 1].stack, items[i].name)
      BY <2>4, <2>5, <2>7
    <3> DEFINE low == {k \in (i + 1)..j : d(k) <= d(i - 1)}
               c == Min(low)
    <3>2. low # {} /\ low \in SUBSET Nat
      <4>1. d(i - 1) \in Nat /\ d(i) \in Nat /\ d(j) = d(i - 1) /\ i # j
        BY <1>4, <2>1, <2>2, <3>1
      <4>2. j \in low
        BY <2>9, <4>1
      <4> QED BY <2>9, <4>2
    <3>3. c \in low /\ \A k \in low : c <= k
      <4> HIDE DEF low
      <4> QED BY <3>2, LeastNumber
    <3> HIDE DEF c
    <3>4. c \in (i + 1)..j /\ d(c) <= d(i - 1) /\ \A k \in (i + 1)..(c - 1) : d(k) > d(i - 1)
      <4>1. c \in (i + 1)..j /\ d(c) <= d(i - 1)
        BY <3>3
      <4>2. ASSUME NEW k \in (i + 1)..(c - 1) PROVE d(k) > d(i - 1)
        <5>1. k \in (i + 1)..j /\ ~(c <= k) /\ k \in 0..n
          BY <2>9, <4>1
        <5>2. ~(d(k) <= d(i - 1)) /\ d(k) \in Nat /\ d(i - 1) \in Nat
          BY <1>4, <2>1, <3>3, <5>1
        <5> QED BY <5>2
      <4> QED BY <4>1, <4>2
    <3>5. /\ c \in i..j /\ c \in 1..n /\ c - 1 \in 0..n /\ c + 1 \in 1..(n + 1) /\ (c + 1) - 1 = c
          /\ i + 1 <= (c - 1) + 1 /\ (c - 1) + 1 - (i + 1) <= m
          /\ c + 1 <= j + 1 /\ j + 1 - (c + 1) <= m /\ c - 1 \in i..j /\ c - 1 \in 0..j
          /\ c \in 0..n /\ i \in 0..j
      BY <2>9, <3>4
    <3>6. d(c) = d(i - 1) /\ d(c - 1) > d(i - 1)
      <4>1. d(c) >= d(i - 1) /\ d(c) \in Nat /\ d(i - 1) \in Nat
        BY <1>4, <2>1, <2>2, <3>5
      <4>2. d(c - 1) > d(i - 1)
        <5>1. CASE c - 1 = i
          BY <3>1, <4>1, <5>1
        <5>2. CASE c - 1 # i
          <6>1. c - 1 \in (i + 1)..(c - 1)
            BY <2>1, <3>5, <5>2
          <6> QED BY <3>4, <6>1
        <5> QED BY <5>1, <5>2
      <4> QED BY <3>4, <4>1, <4>2
    <3>7. /\ items[c].kind = "close" /\ Last(t[c - 1].stack) = items[c].name
          /\ d(c - 1) = d(i - 1) + 1
      <4>1. d(c - 1) \in Nat /\ d(c) \in Nat /\ d(i - 1) \in Nat
        BY <1>4, <2>1, <3>5
      <4>2. /\ \/ items[c].kind \in {"skip", "empty"} /\ d(c) = d(c - 1)
               \/ items[c].kind = "open" /\ d(c) = d(c - 1) + 1
               \/ /\ items[c].kind = "close" /\ Last(t[c - 1].stack) = items[c].name
                  /\ d(c) = d(c - 1) - 1
        BY <2>4, <3>5
      <4> QED BY <3>6, <4>1, <4>2
    <3>8. f[<<i + 1, c - 1>>]
      <4>1. \A k \in (i + 1)..(c - 1) : d(k) >= d(i)
        <5> TAKE k \in (i + 1)..(c - 1)
        <5>1. k \in 0..n /\ d(k) > d(i - 1)
          BY <2>9, <3>4, <3>5
        <5>2. d(k) \in Nat /\ d(i - 1) \in Nat
          BY <1>4, <2>1, <5>1
        <5> QED BY <3>1, <5>1, <5>2
      <4>2. t[c - 1].outcome = "ok" /\ d(c - 1) = d(i)
        BY <2>3, <3>1, <3>5, <3>7
      <4>3. Level(t, i + 1, c - 1)
        BY <2>1, <4>1, <4>2 DEF Level, d
      <4> QED BY <1>5, <2>1, <3>5, <4>3 DEF T, n
    <3>9. f[<<c + 1, j>>]
      <4>1. \A k \in (c + 1)..j : k \in i..j
        BY <2>9, <3>4
      <4>2. Level(t, c + 1, j)
        BY <2>2, <3>5, <3>6, <4>1 DEF Level, d
      <4> QED BY <1>5, <3>5, <4>2 DEF T, n
    <3>10. items[c].name = items[i].name
      <4>1. Kept(t, i + 1, c - 1)
        <5>1. t[(i + 1) - 1].outcome = "ok"
          BY <2>1, <2>3, <3>5
        <5> QED BY <2>1, <3>5, <3>8, <5>1, NestingKeepsStack DEF n
      <4>2. t[c - 1].stack = t[i].stack
        BY <2>1, <2>3, <3>5, <4>1 DEF Kept
      <4>3. t[i - 1].stack \in Seq(STRING) /\ items[i].name \in STRING
        BY <1>1, <2>1, ScanStates DEF IsState, XmlItems, n
      <4>4. Last(t[i].stack) = items[i].name
        <5> DEFINE w == t[i - 1].stack
                   name == items[i].name
        <5>1. Last(Append(w, name)) = name
          <6> HIDE DEF w, name
          <6> QED BY <4>3, FrontOfNames DEF w, name
        <5> QED BY <3>1, <5>1
      <4> QED BY <3>7, <4>2, <4>4
    <3>11. Follows(items, f, i, j)
      BY <2>7, <3>4, <3>7, <3>8, <3>9, <3>10 DEF Follows
    <3> QED BY <2>1, <3>11 DEF n
  <2>8. CASE items[i].kind = "close"
    <3>1. d(i) = d(i - 1) - 1 /\ d(i - 1) \in Nat
      BY <1>4, <2>1, <2>4, <2>5, <2>8
    <3> QED BY <2>5, <3>1
  <2> QED BY <2>4, <2>5, <2>6, <2>7, <2>8
<1>6. \A m \in 0..(n + 1) : m \in T
  <2>1. n + 1 \in Nat /\ \A m \in 0..((n + 1) - 1) : m \in 0..n
    BY <1>1
  <2> HIDE DEF T
  <2> QED BY <1>3, <1>5, <2>1, StepByStep
<1>7. n + 1 \in T
  BY <1>1, <1>6
<1>8. \A i \in 1..(n + 1), j \in 0..n : j + 1 - i <= n + 1
  BY <1>1
<1> QED BY <1>7, <1>8

\* What the first n items collect under a name.
CollectedIn(items, name, n) == {i \in 1..n : Collects(items[i], name)}
LastOfKey(items, name, n, key) == Max({i \in CollectedIn(items, name, n) : items[i].key = key})
AttributesBy(items, name, n) ==
  [key \in {items[i].key : i \in CollectedIn(items, name, n)} |->
     Text(items[LastOfKey(items, name, n, key)].value)]

\* One item more is one attribute more collected, or none.
LEMMA OneMoreItem ==
  ASSUME NEW items, NEW name, NEW n \in Nat \ {0}
  PROVE  AttributesBy(items, name, n) = Collecting(items[n], name, AttributesBy(items, name, n - 1))
<1> DEFINE C(m) == CollectedIn(items, name, m)
           of(m, x) == {i \in C(m) : items[i].key = x}
           keys(m) == {items[i].key : i \in C(m)}
<1>1. CASE ~Collects(items[n], name)
  <2>1. C(n) = C(n - 1)
    BY <1>1 DEF CollectedIn
  <2> QED BY <1>1, <2>1 DEF Collecting, AttributesBy, LastOfKey
<1>2. CASE Collects(items[n], name)
  <2>1. C(n) = C(n - 1) \cup {n}
    <3>1. \A i : i \in 1..n <=> i \in 1..(n - 1) \/ i = n
      OBVIOUS
    <3> QED BY <1>2, <3>1 DEF CollectedIn
  <2>2. keys(n) = keys(n - 1) \cup {items[n].key}
    BY <2>1
  <2>3. Max(of(n, items[n].key)) = n
    <3> DEFINE S == of(n, items[n].key)
    <3>1. n \in S /\ S \in SUBSET (0..n)
      BY <2>1 DEF CollectedIn
    <3> HIDE DEF S
    <3>2. Max(S) \in S /\ n <= Max(S)
      BY <3>1, GreatestNumber
    <3>3. Max(S) \in Nat /\ Max(S) <= n
      <4>1. Max(S) \in 0..n
        BY <3>1, <3>2
      <4> QED BY <4>1
    <3>4. Max(S) = n
      BY <3>2, <3>3
    <3> QED BY <3>4 DEF S
  <2>4. \A x : x # items[n].key => of(n, x) = of(n - 1, x)
    BY <2>1
  <2> DEFINE old == AttributesBy(items, name, n - 1)
             new == AttributesBy(items, name, n)
  <2>5. DOMAIN old = keys(n - 1) /\ \A x \in keys(n - 1) : old[x] = Text(items[Max(of(n - 1, x))].value)
    BY DEF AttributesBy, LastOfKey
  <2>6. new = [x \in keys(n) |-> Text(items[Max(of(n, x))].value)]
    BY DEF AttributesBy, LastOfKey
  <2>7. Collecting(items[n], name, old) = Set(old, items[n].key, Text(items[n].value))
    BY <1>2 DEF Collecting
  <2> HIDE DEF old, new, keys, of
  <2>8. \A x \in keys(n) : Text(items[Max(of(n, x))].value)
                           = IF x = items[n].key THEN Text(items[n].value) ELSE old[x]
    BY <2>2, <2>3, <2>4, <2>5
  <2>9. new = [x \in DOMAIN old \cup {items[n].key} |->
                 IF x = items[n].key THEN Text(items[n].value) ELSE old[x]]
    BY <2>2, <2>5, <2>6, <2>8
  <2>10. new = Set(old, items[n].key, Text(items[n].value))
    BY <2>9 DEF Set
  <2> QED BY <2>7, <2>10 DEF old, new
<1> QED BY <1>1, <1>2

\* A scan that goes on has met no bad reference, and has collected what its items say.
LEMMA ScanCollects ==
  ASSUME NEW items \in Seq(XmlItems), NEW t, Scan(t, items)
  PROVE  \A k \in 0..Len(items) : t[k].outcome = "ok" =>
           /\ \A i \in 1..k : items[i].value # BadReference
           /\ t[k].keywords = AttributesBy(items, "FITSKeyword", k)
           /\ t[k].properties = AttributesBy(items, "Property", k)
<1> DEFINE n == Len(items)
           P(k) == t[k].outcome = "ok" =>
                     /\ \A i \in 1..k : items[i].value # BadReference
                     /\ t[k].keywords = AttributesBy(items, "FITSKeyword", k)
                     /\ t[k].properties = AttributesBy(items, "Property", k)
           T == {k \in Nat : k <= n => P(k)}
<1>1. n \in Nat /\ \A k \in 1..n : items[k] \in XmlItems
  OBVIOUS
<1>2. 0 \in T
  <2>1. \A name : CollectedIn(items, name, 0) = {}
    BY DEF CollectedIn
  <2>2. \A name : AttributesBy(items, name, 0) = <<>>
    BY <2>1 DEF AttributesBy
  <2>3. t[0].keywords = <<>> /\ t[0].properties = <<>>
    BY DEF Scan, NewScan
  <2> QED BY <2>2, <2>3
<1>3. ASSUME NEW k \in 0..(n - 1), k \in T PROVE k + 1 \in T
  <2> SUFFICES ASSUME t[k + 1].outcome = "ok" PROVE P(k + 1)
    BY <1>1
  <2>1. k + 1 \in 1..n /\ (k + 1) - 1 = k /\ k \in 0..n /\ k + 1 \in 0..n /\ k + 1 \in Nat \ {0}
    BY <1>1
  <2> DEFINE s == t[k]
             u == t[k + 1]
             item == items[k + 1]
  <2>2. IsState(s) /\ IsState(u) /\ Does(s, item, u) /\ item \in XmlItems /\ u.outcome = "ok"
    BY <1>1, <2>1, ScanStates
  <2> HIDE DEF s, u, item
  <2>3. /\ s.outcome = "ok" /\ item.value # BadReference
        /\ u.keywords = Collecting(item, "FITSKeyword", s.keywords)
        /\ u.properties = Collecting(item, "Property", s.properties)
    BY <2>2, ItemTaken
  <2>4. P(k)
    BY <1>1, <1>3, <2>1
  <2>5. \A name : AttributesBy(items, name, k + 1)
                  = Collecting(items[k + 1], name, AttributesBy(items, name, k))
    BY <2>1, OneMoreItem
  <2>6. \A i \in 1..(k + 1) : i \in 1..k \/ i = k + 1
    OBVIOUS
  <2> QED BY <2>3, <2>4, <2>5, <2>6 DEF s, u, item
<1>4. \A k \in 0..n : k \in T
  <2> HIDE DEF T
  <2> QED BY <1>1, <1>2, <1>3, StepByStep
<1> QED BY <1>1, <1>4

\* The scan takes what is nested as XML must be, and nothing else.
LEMMA ScanIsXml ==
  ASSUME NEW items \in Seq(XmlItems)
  PROVE  LET s == ScanXml(items)
         IN /\ s.outcome \in {"ok"} \cup Faults
            /\ s.outcome = "ok" => /\ IsXml(items)
                                   /\ s.keywords = AttributesOf(items, "FITSKeyword")
                                   /\ s.properties = AttributesOf(items, "Property")
            /\ s.outcome = "MALFORMED_XML" => ~Balanced(items)
<1> DEFINE n == Len(items)
           e == ScanItems(NewScan, items)
           s == ScanXml(items)
<1>1. n \in Nat /\ DOMAIN items = 1..n
  OBVIOUS
<1>2. PICK t : t[0] = NewScan /\ t[n] = e /\ \A i \in 1..n : t[i] = ScanItem(t[i - 1], items[i])
  <2> DEFINE m == n
  <2> HIDE DEF m
  <2>1. m \in Nat /\ DOMAIN items = 1..m
    BY <1>1 DEF m
  <2>2. \E t : t[0] = NewScan /\ t[m] = ScanItems(NewScan, items)
                /\ \A i \in 1..m : t[i] = ScanItem(t[i - 1], items[i])
    BY ONLY <2>1, ScanXmlUnfolds
  <2> QED BY <2>2 DEF m
<1>3. PICK f : /\ f[<<1, n>>] <=> Balanced(items)
               /\ \A i \in 1..(n + 1), j \in 0..n : f[<<i, j>>] <=> Follows(items, f, i, j)
  BY BalancedFollows
<1>4. Scan(t, items)
  BY <1>2 DEF Scan
<1>5. n \in 0..n /\ 1 \in 1..(n + 1) /\ 1 <= n + 1 /\ 1 - 1 = 0 /\ 0 \in 0..n
  BY <1>1
<1>6. IsState(t[n]) /\ t[0].outcome = "ok" /\ t[0].stack = <<>>
      /\ \A k \in 0..n : t[k].stack \in Seq(STRING)
  BY <1>2, <1>4, <1>5, ScanStates DEF NewScan, IsState
<1>7. e.outcome = "ok" /\ e.stack = <<>> <=> IsXml(items)
  <2>1. ASSUME e.outcome = "ok", e.stack = <<>> PROVE IsXml(items)
    <3>1. Level(t, 1, n)
      <4>1. Len(t[n].stack) = Len(t[0].stack) /\ Len(t[0].stack) = 0
        BY <1>2, <1>6, <2>1
      <4>2. \A k \in 1..n : Len(t[k].stack) >= 0
        BY <1>6
      <4> QED BY <1>2, <1>5, <2>1, <4>1, <4>2 DEF Level
    <3>2. f[<<1, n>>]
      BY <1>3, <1>4, <1>5, <3>1, LevelIsNested
    <3>3. \A i \in 1..n : items[i].value # BadReference
      BY <1>2, <1>4, <1>5, <2>1, ScanCollects
    <3> QED BY <1>3, <3>2, <3>3 DEF IsXml
  <2>2. ASSUME IsXml(items) PROVE e.outcome = "ok" /\ e.stack = <<>>
    <3>1. f[<<1, n>>] /\ \A i \in 1..n : items[i].value # BadReference
      BY <1>3, <2>2 DEF IsXml
    <3>2. Kept(t, 1, n)
      BY <1>3, <1>4, <1>5, <1>6, <3>1, NestingKeepsStack
    <3>3. e.outcome # "RangeError"
      <4> DEFINE T == {k \in Nat : k <= n => t[k].outcome # "RangeError"}
      <4>1. 0 \in T
        BY <1>6
      <4>2. ASSUME NEW k \in 0..(n - 1), k \in T PROVE k + 1 \in T
        <5>1. k + 1 \in 1..n /\ (k + 1) - 1 = k
          BY <1>1
        <5>2. Does(t[k], items[k + 1], t[k + 1]) /\ IsState(t[k]) /\ items[k + 1] \in XmlItems
          BY <1>1, <1>4, <5>1, ScanStates
        <5>3. items[k + 1].value # BadReference /\ t[k].outcome # "RangeError"
          BY <1>1, <3>1, <4>2, <5>1
        <5>4. \A a, b, c, d : StateOf(a, b, c, d).outcome = d
          BY StateParts
        <5>5. items[k + 1].kind \in StartTags \cup {"close", "skip", "cut", "malformed"}
          BY <5>2 DEF XmlItems
        <5>6. t[k + 1].outcome # "RangeError"
          BY <5>2, <5>3, <5>4, <5>5 DEF Does
        <5> QED BY <5>1, <5>6
      <4>3. \A k \in 0..n : k \in T
        <5> HIDE DEF T
        <5> QED BY <1>1, <4>1, <4>2, StepByStep
      <4> QED BY <1>1, <1>2, <1>5, <4>3
    <3> QED BY <1>2, <1>5, <1>6, <3>2, <3>3 DEF Kept
  <2> QED BY <2>1, <2>2
<1>14. Balanced(items) => e.outcome \in {"ok", "RangeError"} /\ (e.outcome = "ok" => e.stack = <<>>)
  <2> SUFFICES ASSUME Balanced(items)
               PROVE  e.outcome \in {"ok", "RangeError"} /\ (e.outcome = "ok" => e.stack = <<>>)
    OBVIOUS
  <2>1. Kept(t, 1, n)
    BY <1>3, <1>4, <1>5, <1>6, NestingKeepsStack
  <2> QED BY <1>2, <1>5, <1>6, <2>1 DEF Kept
<1>8. \A name : AttributesOf(items, name) = AttributesBy(items, name, n)
  BY DEF AttributesOf, AttributesBy, CollectedIn, LastOfKey, Collects, StartTags
<1>9. e.outcome = "ok" => /\ e.keywords = AttributesOf(items, "FITSKeyword")
                          /\ e.properties = AttributesOf(items, "Property")
  BY <1>2, <1>4, <1>5, <1>8, ScanCollects
<1>10. e.outcome \in {"ok"} \cup Faults /\ e = StateOf(e.stack, e.keywords, e.properties, e.outcome)
  BY <1>2, <1>6 DEF IsState
<1>11. s = IF e.outcome = "ok" /\ e.stack # <<>> THEN ScanFails(e, "MALFORMED_XML") ELSE e
  BY DEF ScanXml
<1> HIDE DEF e, s
<1>12. ScanFails(e, "MALFORMED_XML").outcome = "MALFORMED_XML"
  <2> DEFINE w == e.stack
             k == e.keywords
             p == e.properties
             o == e.outcome
  <2>1. e = StateOf(w, k, p, o)
    BY <1>10
  <2> HIDE DEF w, k, p, o
  <2> QED BY <2>1, StateParts
<1>13. /\ s.outcome \in {"ok"} \cup Faults
       /\ s.outcome = "ok" => /\ IsXml(items)
                              /\ s.keywords = AttributesOf(items, "FITSKeyword")
                              /\ s.properties = AttributesOf(items, "Property")
       /\ s.outcome = "MALFORMED_XML" => ~Balanced(items)
  BY <1>7, <1>9, <1>10, <1>11, <1>12, <1>14 DEF Faults
<1> QED BY <1>13 DEF s

-----------------------------------------------------------------------------
(* RAW: the walk through the boxes, and the loop over Canon's blocks.       *)

\* The loop takes one block after the other: the results between them are those of r.
LEMMA ParseBlocksUnfolds ==
  ASSUME NEW blocks, NEW n \in Nat, DOMAIN blocks = 1..n
  PROVE  \E r : /\ r[0] = RawOk(<<>>) /\ r[n] = ParseBlocks(blocks)
                /\ \A i \in 1..n : r[i] = ParseBlock(r[i - 1], blocks[i])
<1> DEFINE Step(g, S) == IF S = {} THEN RawOk(<<>>) ELSE ParseBlock(g[S \ {Max(S)}], blocks[Max(S)])
           Folds(m) == \E g : g = [S \in SUBSET (1..m) |-> Step(g, S)]
<1>max. \A m \in Nat : \A S \in SUBSET (1..m) :
          S # {} => Max(S) \in S /\ \A y \in S : y <= Max(S)
  <2>1. ASSUME NEW m \in Nat, NEW S \in SUBSET (1..m), S # {}
        PROVE  Max(S) \in S /\ \A y \in S : y <= Max(S)
    <3>1. S \in SUBSET (0..m)
      OBVIOUS
    <3> QED BY <2>1, <3>1, GreatestNumber
  <2> QED BY <2>1
<1>1. Folds(0)
  <2> DEFINE g == [S \in SUBSET (1..0) |-> RawOk(<<>>)]
  <2>1. \A S \in SUBSET (1..0) : S = {}
    OBVIOUS
  <2>2. g = [S \in SUBSET (1..0) |-> Step(g, S)]
    BY <2>1
  <2> QED BY <2>2
<1>2. ASSUME NEW m \in Nat, Folds(m) PROVE Folds(m + 1)
  <2>1. PICK g : g = [S \in SUBSET (1..m) |-> Step(g, S)]
    BY <1>2
  <2> DEFINE h == [S \in SUBSET (1..(m + 1)) |->
                     IF m + 1 \in S THEN ParseBlock(g[S \ {m + 1}], blocks[m + 1]) ELSE g[S]]
  <2>2. ASSUME NEW S \in SUBSET (1..(m + 1)) PROVE h[S] = Step(h, S)
    <3>1. CASE m + 1 \in S
      <4>1. Max(S) \in S /\ \A y \in S : y <= Max(S)
        <5>1. m + 1 \in Nat /\ S # {}
          BY <3>1
        <5> QED BY <1>max, <5>1
      <4>2. Max(S) = m + 1
        <5>1. \A y \in S : y \in Nat /\ y <= m + 1
          OBVIOUS
        <5>2. m + 1 <= Max(S) /\ Max(S) \in Nat /\ Max(S) <= m + 1
          BY <3>1, <4>1, <5>1
        <5> QED BY <5>2
      <4>3. S \ {m + 1} \in SUBSET (1..(m + 1)) /\ m + 1 \notin S \ {m + 1}
        OBVIOUS
      <4>4. h[S \ {m + 1}] = g[S \ {m + 1}]
        BY <4>3
      <4> QED BY <3>1, <4>2, <4>4
    <3>2. CASE m + 1 \notin S
      <4>1. S \in SUBSET (1..m)
        BY <3>2
      <4>2. h[S] = g[S] /\ g[S] = Step(g, S)
        BY <2>1, <3>2, <4>1
      <4>3. S # {} => h[S \ {Max(S)}] = g[S \ {Max(S)}]
        BY <3>2
      <4> QED BY <4>2, <4>3
    <3> QED BY <3>1, <3>2
  <2>3. h = [S \in SUBSET (1..(m + 1)) |-> Step(h, S)]
    BY <2>2
  <2> QED BY <2>3
<1>3. Folds(n)
  <2> DEFINE T == {m \in Nat : Folds(m)}
  <2> HIDE DEF Folds
  <2>1. 0 \in T /\ \A m \in 0..(n - 1) : m \in T => m + 1 \in T
    BY <1>1, <1>2
  <2>2. \A m \in 0..n : m \in T
    <3> HIDE DEF T
    <3> QED BY <2>1, StepByStep
  <2> QED BY <2>2
<1> DEFINE f == CHOOSE g : g = [S \in SUBSET (1..n) |-> Step(g, S)]
<1>4. f = [S \in SUBSET (1..n) |-> Step(f, S)]
  BY <1>3
<1>5. ParseBlocks(blocks) = f[1..n]
  BY DEF ParseBlocks, FoldLeft, MapThenFoldSet
<1> HIDE DEF f
<1> DEFINE r == [i \in 0..n |-> f[1..i]]
<1>6. r[0] = RawOk(<<>>)
  <2>1. 1..0 = {}
    OBVIOUS
  <2>2. f[{}] = RawOk(<<>>)
    BY <1>4
  <2> QED BY <2>1, <2>2
<1>7. ASSUME NEW i \in 1..n PROVE r[i] = ParseBlock(r[i - 1], blocks[i])
  <2>1. 1..i \in SUBSET (1..n) /\ i \in 1..i /\ 1..i # {}
    OBVIOUS
  <2>2. Max(1..i) \in 1..i /\ i <= Max(1..i)
    <3> HIDE DEF Step, Folds, r
    <3> QED BY <1>max, <2>1
  <2>3. (1..i) \ {i} = 1..(i - 1) /\ i - 1 \in 0..n
    OBVIOUS
  <2>4. Max(1..i) = i
    BY <2>2
  <2>5. f[1..i] = ParseBlock(f[1..(i - 1)], blocks[i])
    BY <1>4, <2>1, <2>3, <2>4
  <2> QED BY <2>3, <2>5
<1>8. r[n] = ParseBlocks(blocks)
  BY <1>5
<1> HIDE DEF r
<1> QED BY <1>6, <1>7, <1>8


\* A box has at most one first child of a type, and it is the one that is found.
LEMMA FoundIsFirst ==
  ASSUME NEW box, NEW type, IsList(box.boxes)
  PROVE  \/ FirstChild(box, type) = {FindChildBox(box, type)} /\ FindChildBox(box, type) \in Range(box.boxes)
         \/ FirstChild(box, type) = {} /\ FindChildBox(box, type) = NoBox
<1> DEFINE boxes == box.boxes
           n == Len(boxes)
           I == {i \in 1..n : ~boxes[i].whole \/ boxes[i].type = type}
           first == IF I # {} THEN Min(I) ELSE 0
           R == Reached(box, type)
<1>1. boxes \in Seq(Range(boxes)) /\ n \in Nat /\ \A i \in 1..n : boxes[i] \in Range(boxes)
  BY DEF IsList
<1>2. FindChildBox(box, type) = IF first = 0 \/ ~boxes[first].whole THEN NoBox ELSE boxes[first]
  BY DEF FindChildBox, SelectInSeq
<1>3. R = {i \in 1..n : boxes[i].type = type /\ \A k \in 1..i : boxes[k].whole}
  BY DEF Reached
<1>4. FirstChild(box, type) = {boxes[i] : i \in {m \in R : m = Min(R)}}
  BY DEF FirstChild
<1>5. I \in SUBSET Nat /\ R \in SUBSET Nat /\ R \subseteq I
  BY <1>1, <1>3
<1> HIDE DEF boxes
<1>6. I # {} => first \in I /\ \A i \in I : first <= i
  <2> HIDE DEF I
  <2> QED BY <1>5, LeastNumber
<1>7. CASE first = 0 \/ ~boxes[first].whole
  <2>1. R = {}
    <3> SUFFICES ASSUME NEW i \in R PROVE FALSE
      OBVIOUS
    <3>1. i \in I /\ i \in 1..n /\ \A k \in 1..i : boxes[k].whole
      BY <1>3, <1>5
    <3> HIDE DEF R
    <3>2. first \in 1..n /\ first <= i
      BY <1>1, <1>6, <3>1
    <3>3. first \in 1..i
      BY <1>1, <3>1, <3>2
    <3> QED BY <1>7, <3>1, <3>2, <3>3
  <2> HIDE DEF R, first
  <2> QED BY <1>2, <1>4, <1>7, <2>1
<1>8. CASE ~(first = 0 \/ ~boxes[first].whole)
  <2>1. first \in 1..n /\ first \in I /\ \A i \in I : first <= i
    BY <1>6, <1>8
  <2>2. first \in R
    <3>1. boxes[first].type = type /\ boxes[first].whole
      BY <1>8, <2>1
    <3>2. ASSUME NEW k \in 1..first PROVE boxes[k].whole
      <4> HIDE DEF first
      <4>1. CASE k = first
        BY <3>1, <4>1
      <4>2. CASE k # first
        <5>1. k \in 1..n /\ ~(first <= k)
          BY <1>1, <2>1, <4>2
        <5> QED BY <2>1, <5>1
      <4> QED BY <4>1, <4>2
    <3> QED BY <1>3, <2>1, <3>1, <3>2
  <2> HIDE DEF first, R
  <2>3. Min(R) \in R /\ \A i \in R : Min(R) <= i
    BY <1>5, <2>2, LeastNumber
  <2>4. Min(R) = first
    <3>1. Min(R) <= first /\ first <= Min(R) /\ Min(R) \in Nat /\ first \in Nat
      <4> HIDE DEF I
      <4> QED BY <1>5, <2>1, <2>2, <2>3
    <3> QED BY <3>1
  <2>5. {m \in R : m = Min(R)} = {first}
    BY <2>2, <2>4
  <2>6. FirstChild(box, type) = {boxes[first]}
    BY <1>4, <2>5
  <2> QED BY <1>1, <1>2, <1>8, <2>1, <2>6 DEF boxes
<1> QED BY <1>7, <1>8

\* The children that the walk reaches.
LEMMA ChildrenAreReached ==
  ASSUME NEW box, IsList(box.boxes)
  PROVE  \E m \in 0..Len(box.boxes) :
           /\ Len(box.boxes) \in Nat
           /\ Len(Children(box)) = m /\ \A i \in 1..m : Children(box)[i] = box.boxes[i]
           /\ \A type : Reached(box, type) = {i \in 1..m : box.boxes[i].type = type}
<1> DEFINE boxes == box.boxes
           n == Len(boxes)
           S == {i \in 1..n : ~boxes[i].whole} \cup {n + 1}
           c == Min(S)
           m == c - 1
<1>1. boxes \in Seq(Range(boxes)) /\ n \in Nat
  BY DEF IsList
<1>2. S \in SUBSET Nat /\ n + 1 \in S /\ \A i \in S : i \in 1..(n + 1)
  BY <1>1
<1> HIDE DEF boxes
<1>3. c \in S /\ \A i \in S : c <= i
  <2> HIDE DEF S
  <2> QED BY <1>2, LeastNumber
<1> HIDE DEF c
<1>4. m \in 0..n /\ c \in Nat /\ n \in Nat /\ m + 1 = c
  <2>1. c \in 1..(n + 1)
    BY <1>2, <1>3
  <2> QED BY <1>1, <2>1
<1>5. \A i \in 1..m : boxes[i].whole
  <2> SUFFICES ASSUME NEW i \in 1..m, ~boxes[i].whole PROVE FALSE
    OBVIOUS
  <2>1. i \in 1..n /\ i \in Nat
    BY <1>1, <1>4
  <2>2. i \in S
    BY <2>1
  <2> HIDE DEF S
  <2>3. c <= i
    BY <1>3, <2>2
  <2> QED BY <1>4, <2>1, <2>3
<1>6. m = n \/ (m + 1 \in 1..n /\ ~boxes[m + 1].whole)
  <2>1. c = n + 1 \/ (c \in 1..n /\ ~boxes[c].whole)
    BY <1>3
  <2> HIDE DEF m
  <2>2. CASE c = n + 1
    <3>1. m = n
      BY <1>4, <2>2 DEF m
    <3> QED BY <3>1
  <2>3. CASE c \in 1..n /\ ~boxes[c].whole
    BY <1>4, <2>3
  <2> QED BY <2>1, <2>2, <2>3
<1>7. Children(box) = SubSeq(boxes, 1, m)
  BY DEF Children, boxes, c
<1> HIDE DEF m, n
<1> DEFINE front == SubSeq(boxes, 1, m)
<1>8. Len(front) = m /\ \A i \in 1..m : front[i] = boxes[i]
  <2>1. /\ Len(front) = IF 1 <= m THEN m - 1 + 1 ELSE 0
        /\ \A i \in 1..(m - 1 + 1) : front[i] = boxes[1 + i - 1]
    <3>1. 1 \in Int /\ m \in Int /\ \A i \in 1..m : boxes[i] \in Range(boxes)
      BY <1>1, <1>4 DEF n
    <3> QED BY <3>1, SubSeqProperties
  <2> HIDE DEF front
  <2>2. \A i \in 1..m : i \in 1..(m - 1 + 1) /\ 1 + i - 1 = i
    BY <1>4
  <2>3. \A i \in 1..m : front[i] = boxes[i]
    BY <2>1, <2>2
  <2>4. Len(front) = m
    BY <1>1, <1>4, <2>1
  <2> QED BY <2>3, <2>4
<1>9. ASSUME NEW type
      PROVE  Reached(box, type) = {i \in 1..m : boxes[i].type = type}
  <2>1. Reached(box, type) = {i \in 1..n : boxes[i].type = type /\ \A k \in 1..i : boxes[k].whole}
    BY DEF Reached, boxes, n
  <2>2. ASSUME NEW i \in 1..m PROVE i \in 1..n /\ \A k \in 1..i : boxes[k].whole
    <3>1. i \in 1..n /\ \A k \in 1..i : k \in 1..m
      BY <1>1, <1>4
    <3> QED BY <1>5, <3>1
  <2>3. ASSUME NEW i \in 1..n, \A k \in 1..i : boxes[k].whole PROVE i \in 1..m
    <3>1. CASE m = n
      BY <3>1
    <3>2. CASE m + 1 \in 1..n /\ ~boxes[m + 1].whole
      <4>1. m + 1 \notin 1..i
        BY <2>3, <3>2
      <4> QED BY <1>1, <1>4, <4>1
    <3> QED BY <1>6, <3>1, <3>2
  <2> QED BY <2>1, <2>2, <2>3
<1> QED BY <1>1, <1>4, <1>7, <1>8, <1>9 DEF boxes, n

\* The tags of the first n blocks, the last block that has one deciding it.
Having(blocks, n, tag) == {i \in 1..n : tag \in DOMAIN blocks[i].tags}
TagsBy(blocks, n) ==
  [tag \in UNION {DOMAIN blocks[i].tags : i \in 1..n} |-> blocks[Max(Having(blocks, n, tag))].tags[tag]]

\* One block more is one more merged.
LEMMA OneMoreBlock ==
  ASSUME NEW blocks, NEW n \in Nat \ {0}
  PROVE  /\ TagsBy(blocks, n) = Merge(TagsBy(blocks, n - 1), blocks[n].tags)
         /\ blocks[n].tags = <<>> => TagsBy(blocks, n) = TagsBy(blocks, n - 1)
<1> DEFINE tags(m) == UNION {DOMAIN blocks[i].tags : i \in 1..m}
           old == TagsBy(blocks, n - 1)
           new == TagsBy(blocks, n)
           more == blocks[n].tags
           value(m, x) == blocks[Max(Having(blocks, m, x))].tags[x]
<1>1. \A i : i \in 1..n <=> i \in 1..(n - 1) \/ i = n
  OBVIOUS
<1>2. tags(n) = tags(n - 1) \cup DOMAIN more
  BY <1>1
<1>3. \A x : x \notin DOMAIN more => Having(blocks, n, x) = Having(blocks, n - 1, x)
  BY <1>1 DEF Having
<1>4. ASSUME NEW x \in DOMAIN more PROVE Max(Having(blocks, n, x)) = n
  <2> DEFINE S == Having(blocks, n, x)
  <2>1. n \in S /\ S \in SUBSET (0..n)
    BY <1>1, <1>4 DEF Having
  <2> HIDE DEF S
  <2>2. Max(S) \in S /\ n <= Max(S)
    BY <2>1, GreatestNumber
  <2>3. Max(S) \in Nat /\ Max(S) <= n
    <3>1. Max(S) \in 0..n
      BY <2>1, <2>2
    <3> QED BY <3>1
  <2>4. Max(S) = n
    BY <2>2, <2>3
  <2> QED BY <2>4 DEF S
<1>5. old = [x \in tags(n - 1) |-> value(n - 1, x)] /\ new = [x \in tags(n) |-> value(n, x)]
  BY DEF TagsBy
<1>6. \A x \in tags(n) : value(n, x) = IF x \in DOMAIN more THEN more[x] ELSE value(n - 1, x)
  BY <1>3, <1>4
<1> HIDE DEF tags, value, old, new, more
<1>7. new = Merge(old, more)
  <2>1. DOMAIN old = tags(n - 1) /\ \A x \in tags(n - 1) : old[x] = value(n - 1, x)
    BY <1>5
  <2>2. \A x \in tags(n) : value(n, x) = IF x \in DOMAIN more THEN more[x] ELSE old[x]
    BY <1>2, <1>6, <2>1
  <2> QED BY <1>2, <1>5, <2>1, <2>2 DEF Merge
<1>8. ASSUME more = <<>> PROVE new = old
  <2>1. DOMAIN more = {}
    BY <1>8
  <2>2. tags(n) = tags(n - 1) /\ \A x \in tags(n) : value(n, x) = value(n - 1, x)
    BY <1>2, <1>6, <2>1
  <2> QED BY <1>5, <2>2
<1> QED BY <1>7, <1>8 DEF old, new, more

\* Parsing all blocks, none of which throws, merges the tags of all.
LEMMA ParsedTags ==
  ASSUME NEW blocks, NEW n \in Nat, DOMAIN blocks = 1..n, \A i \in 1..n : IsExif(blocks[i]),
         ParseBlocks(blocks).outcome = "ok"
  PROVE  /\ ParseBlocks(blocks).tags = TagsBy(blocks, n)
         /\ \A i \in 1..n : blocks[i].out \in {"tags", "none"}
<1>1. PICK r : /\ r[0] = RawOk(<<>>) /\ r[n] = ParseBlocks(blocks)
               /\ \A i \in 1..n : r[i] = ParseBlock(r[i - 1], blocks[i])
  BY ParseBlocksUnfolds
<1> DEFINE P(k) == r[k].outcome = "ok" =>
                     /\ r[k] = RawOk(TagsBy(blocks, k))
                     /\ \A i \in 1..k : blocks[i].out \in {"tags", "none"}
           T == {k \in Nat : k <= n => P(k)}
<1>2. 0 \in T
  <2>1. TagsBy(blocks, 0) = <<>>
    BY DEF TagsBy
  <2> QED BY <1>1, <2>1
<1>3. ASSUME NEW k \in 0..(n - 1), k \in T PROVE k + 1 \in T
  <2> SUFFICES ASSUME r[k + 1].outcome = "ok" PROVE P(k + 1)
    OBVIOUS
  <2> DEFINE s == r[k]
             one == blocks[k + 1]
  <2>1. k + 1 \in 1..n /\ (k + 1) - 1 = k /\ k <= n /\ k + 1 \in Nat \ {0}
    OBVIOUS
  <2>2. r[k + 1] = ParseBlock(s, one) /\ IsExif(one)
    BY <1>1, <2>1
  <2>3. /\ TagsBy(blocks, k + 1) = Merge(TagsBy(blocks, k), one.tags)
        /\ one.tags = <<>> => TagsBy(blocks, k + 1) = TagsBy(blocks, k)
    BY <2>1, OneMoreBlock
  <2>4. P(k)
    BY <1>3, <2>1
  <2> HIDE DEF one, s
  <2>5. RawError(ClassifyError(one)).outcome # "ok"
    BY DEF RawError, ClassifyError
  <2>6. s.outcome = "ok" /\ ~Throws(one)
    BY <2>2, <2>5 DEF ParseBlock, Throws
  <2>7. one.out \in {"tags", "none"}
    BY <2>2, <2>6 DEF IsExif, Throws
  <2>8. s = RawOk(TagsBy(blocks, k)) /\ s.tags = TagsBy(blocks, k)
    BY <2>4, <2>6 DEF RawOk, s
  <2>9. r[k + 1] = RawOk(TagsBy(blocks, k + 1))
    <3>1. CASE one.out = "none"
      BY <2>2, <2>3, <2>8, <3>1 DEF ParseBlock, IsExif
    <3>2. CASE one.out = "tags"
      BY <2>2, <2>3, <2>6, <2>8, <3>2 DEF ParseBlock
    <3> QED BY <2>7, <3>1, <3>2
  <2>10. \A i \in 1..(k + 1) : i \in 1..k \/ i = k + 1
    OBVIOUS
  <2>11. \A i \in 1..k : blocks[i].out \in {"tags", "none"}
    BY <2>4, <2>6 DEF s
  <2> QED BY <2>7, <2>9, <2>10, <2>11 DEF one
<1>4. \A k \in 0..n : k \in T
  <2> HIDE DEF T
  <2> QED BY <1>2, <1>3, StepByStep
<1>5. P(n)
  BY <1>4
<1> QED BY <1>1, <1>5 DEF RawOk

\* Parsing fails only on a block that exifr throws on.
LEMMA RefusedBlocks ==
  ASSUME NEW blocks, NEW n \in Nat, DOMAIN blocks = 1..n,
         ParseBlocks(blocks).outcome # "ok"
  PROVE  \E i \in 1..n : Throws(blocks[i])
<1>1. PICK r : /\ r[0] = RawOk(<<>>) /\ r[n] = ParseBlocks(blocks)
               /\ \A i \in 1..n : r[i] = ParseBlock(r[i - 1], blocks[i])
  BY ParseBlocksUnfolds
<1> DEFINE P(k) == r[k].outcome # "ok" => \E i \in 1..n : Throws(blocks[i])
           T == {k \in Nat : k <= n => P(k)}
<1>2. 0 \in T
  BY <1>1 DEF RawOk
<1>3. ASSUME NEW k \in 0..(n - 1), k \in T PROVE k + 1 \in T
  <2>1. k + 1 \in 1..n /\ (k + 1) - 1 = k /\ k <= n
    OBVIOUS
  <2>2. r[k + 1] = ParseBlock(r[k], blocks[k + 1]) /\ P(k)
    BY <1>1, <1>3, <2>1
  <2>3. r[k].outcome = "ok" /\ ~Throws(blocks[k + 1]) => r[k + 1].outcome = "ok"
    BY <2>2 DEF ParseBlock, RawOk
  <2> QED BY <2>1, <2>2, <2>3
<1>4. \A k \in 0..n : k \in T
  <2> HIDE DEF T
  <2> QED BY <1>2, <1>3, StepByStep
<1>5. P(n)
  BY <1>4
<1> QED BY <1>1, <1>5

\* What the parser says of a file: where its tags come from, and why there are none.
OneThrows(canon) == \E c \in canon : Gives(c, {"range", "throws"})
SomeTags(canon) == \E c \in canon : Gives(c, {"tags"})

TagsComeFrom(tags, exif, canon) ==
  /\ ~OneThrows(canon)
  /\ SomeTags(canon) => \E c \in canon : tags = TagsOfBlocks(c)
  /\ ~SomeTags(canon) => tags = exif.tags

RefusedFor(exif, canon) == OneThrows(canon) \/ (~SomeTags(canon) /\ Throws(exif))

Answers(r, exif, canon) ==
  /\ r.outcome = "ok" => TagsComeFrom(r.tags, exif, canon)
  /\ r.outcome # "ok" => RefusedFor(exif, canon)

CanonOf(raw) == IF raw.brand = "crx" THEN CanonBoxes(raw) ELSE {}

\* Canon's box, and what the adapter takes out of it.
LEMMA CanonIsFound ==
  ASSUME NEW raw, IsList(raw.boxes), \A box \in Range(raw.boxes) : IsBox(box)
  PROVE  LET canon == FindChildBox(FindChildBox(raw, "moov"), "canon")
         IN \/ /\ CanonBoxes(raw) = {canon} /\ IsList(canon.boxes)
               /\ \A one \in Range(canon.boxes) : IsExif(one.exif)
            \/ CanonBoxes(raw) = {} /\ canon = NoBox
<1> DEFINE moov == FindChildBox(raw, "moov")
           canon == FindChildBox(moov, "canon")
<1>1. \/ FirstChild(raw, "moov") = {moov} /\ moov \in Range(raw.boxes)
      \/ FirstChild(raw, "moov") = {} /\ moov = NoBox
  BY FoundIsFirst
<1>2. CASE FirstChild(raw, "moov") = {moov} /\ moov \in Range(raw.boxes)
  <2>1. IsBox(moov)
    BY <1>2
  <2> HIDE DEF moov
  <2>2. \/ FirstChild(moov, "canon") = {canon} /\ canon \in Range(moov.boxes)
        \/ FirstChild(moov, "canon") = {} /\ canon = NoBox
    BY <2>1, FoundIsFirst DEF IsBox
  <2>3. CanonBoxes(raw) = FirstChild(moov, "canon")
    BY <1>2 DEF CanonBoxes
  <2> HIDE DEF canon
  <2>4. canon \in Range(moov.boxes) =>
          IsList(canon.boxes) /\ \A one \in Range(canon.boxes) : IsExif(one.exif)
    BY <2>1 DEF IsBox
  <2> QED BY <2>2, <2>3, <2>4 DEF canon, moov
<1>3. CASE FirstChild(raw, "moov") = {} /\ moov = NoBox
  <2>1. CanonBoxes(raw) = {}
    BY <1>3 DEF CanonBoxes
  <2>2. IsList(NoBox.boxes) /\ Range(NoBox.boxes) = {}
    BY DEF NoBox, IsList, Range
  <2>3. canon = NoBox
    <3>1. \/ FindChildBox(NoBox, "canon") \in Range(NoBox.boxes)
          \/ FindChildBox(NoBox, "canon") = NoBox
      BY <2>2, FoundIsFirst
    <3> QED BY <1>3, <2>2, <3>1
  <2> QED BY <2>1, <2>3
<1> QED BY <1>1, <1>2, <1>3

\* What parseRawHeader returns of a file with something in it is what the boxes say.
LEMMA RawSays ==
  ASSUME NEW raw, IsList(raw.boxes), \A box \in Range(raw.boxes) : IsBox(box), ~raw.empty
  PROVE  Answers(ParseRawHeader(raw, BlocksOf(raw)), raw.exif, CanonOf(raw))
<1> DEFINE blocks == BlocksOf(raw)
           canon == FindChildBox(FindChildBox(raw, "moov"), "canon")
           children == Children(canon)
           r == ParseRawHeader(raw, blocks)
<1>1. \/ /\ CanonBoxes(raw) = {canon} /\ IsList(canon.boxes)
         /\ \A one \in Range(canon.boxes) : IsExif(one.exif)
      \/ CanonBoxes(raw) = {} /\ canon = NoBox
  BY CanonIsFound
<1>2. r = IF raw.empty THEN RawError("EMPTY_FILE")
          ELSE IF \E i \in 1..Len(blocks) : blocks[i].out # "none" THEN ParseBlocks(blocks)
          ELSE ParseWhole(raw.exif)
  BY DEF ParseRawHeader
<1>3. ~raw.empty
  OBVIOUS
<1>4. raw.brand = "crx" =>
        blocks = [i \in 1..Len(children) |-> IF children[i].type = "CMT" THEN children[i].exif ELSE NoBlock]
  BY DEF BlocksOf, LooksLikeCr3, ExtractCr3TiffBlocks
<1>5. raw.brand # "crx" => blocks = <<>>
  BY DEF BlocksOf, LooksLikeCr3
<1>6. /\ ParseWhole(raw.exif).outcome = "ok" => ParseWhole(raw.exif).tags = raw.exif.tags
      /\ ParseWhole(raw.exif).outcome # "ok" => Throws(raw.exif)
  BY DEF ParseWhole, RawOk, RawError, ClassifyError
<1> HIDE DEF blocks, canon, r
<1>10. ASSUME r = ParseWhole(raw.exif), NEW c, ~OneThrows(c), ~SomeTags(c)
       PROVE  Answers(r, raw.exif, c)
  BY <1>6, <1>10 DEF Answers, TagsComeFrom, RefusedFor
<1>7. CASE raw.brand # "crx"
  <2>1. r = ParseWhole(raw.exif)
    BY <1>2, <1>3, <1>5, <1>7
  <2>2. CanonOf(raw) = {}
    BY <1>7 DEF CanonOf
  <2> QED BY <1>10, <2>1, <2>2 DEF OneThrows, SomeTags, r, blocks
<1>8. CASE raw.brand = "crx" /\ CanonBoxes(raw) = {} /\ canon = NoBox
  <2>1. Len(children) = 0
    <3>1. IsList(NoBox.boxes) /\ Len(NoBox.boxes) = 0
      BY DEF NoBox, IsList, Range
    <3>2. PICK m \in 0..Len(NoBox.boxes) : Len(Children(NoBox)) = m
      BY <3>1, ChildrenAreReached
    <3> QED BY <1>8, <3>1, <3>2
  <2> HIDE DEF children
  <2>2. blocks = <<>>
    BY <1>4, <1>8, <2>1
  <2>3. r = ParseWhole(raw.exif)
    BY <1>2, <1>3, <2>2
  <2>4. CanonOf(raw) = {}
    BY <1>8 DEF CanonOf
  <2> QED BY <1>10, <2>3, <2>4 DEF OneThrows, SomeTags, r, blocks
<1>9. CASE /\ raw.brand = "crx" /\ CanonBoxes(raw) = {canon} /\ IsList(canon.boxes)
           /\ \A one \in Range(canon.boxes) : IsExif(one.exif)
  <2>1. PICK m \in 0..Len(canon.boxes) :
          /\ Len(canon.boxes) \in Nat
          /\ Len(children) = m /\ \A i \in 1..m : children[i] = canon.boxes[i]
          /\ \A type : Reached(canon, type) = {i \in 1..m : canon.boxes[i].type = type}
    BY <1>9, ChildrenAreReached
  <2> HIDE DEF children
  <2>2. \A i \in 1..m : IsExif(canon.boxes[i].exif)
    <3> TAKE i \in 1..m
    <3>1. canon.boxes[i] \in Range(canon.boxes)
      <4>1. i \in 1..Len(canon.boxes) /\ canon.boxes \in Seq(Range(canon.boxes))
        BY <1>9, <2>1 DEF IsList
      <4> QED BY <4>1
    <3> QED BY <1>9, <3>1
  <2>3. /\ m \in Nat /\ DOMAIN blocks = 1..m /\ Len(blocks) = m
        /\ \A i \in 1..m : blocks[i] = IF canon.boxes[i].type = "CMT" THEN canon.boxes[i].exif ELSE NoBlock
    BY <1>4, <1>9, <2>1
  <2>4. \A i \in 1..m : IsExif(blocks[i])
    BY <2>2, <2>3 DEF IsExif, NoBlock
  <2>5. ASSUME NEW out, "none" \notin out
        PROVE  Gives(canon, out) <=> \E i \in 1..m : blocks[i].out \in out
    <3>1. \A i : i \in Reached(canon, "CMT") <=> i \in 1..m /\ canon.boxes[i].type = "CMT"
      BY <2>1
    <3>2. \A i \in 1..m : blocks[i].out \in out <=>
                         canon.boxes[i].type = "CMT" /\ canon.boxes[i].exif.out \in out
      BY <2>3, <2>5 DEF NoBlock
    <3> QED BY <3>1, <3>2 DEF Gives
  <2>6. CanonOf(raw) = {canon}
    BY <1>9 DEF CanonOf
  <2>9. CASE (\E i \in 1..m : blocks[i].out # "none") /\ ParseBlocks(blocks).outcome # "ok"
    <3>1. r = ParseBlocks(blocks)
      BY <1>2, <1>3, <2>3, <2>9
    <3>2. PICK i \in 1..m : Throws(blocks[i])
      BY <2>3, <2>9, RefusedBlocks
    <3>3. Gives(canon, {"range", "throws"})
      BY <2>5, <3>2 DEF Throws
    <3> QED BY <2>6, <2>9, <3>1, <3>3 DEF Answers, RefusedFor, OneThrows, r, blocks
  <2>7. CASE (\E i \in 1..m : blocks[i].out # "none") /\ ParseBlocks(blocks).outcome = "ok"
    <3>1. r = ParseBlocks(blocks)
      BY <1>2, <1>3, <2>3, <2>7
    <3>2. r.tags = TagsBy(blocks, m) /\ \A i \in 1..m : blocks[i].out \in {"tags", "none"}
      BY <2>3, <2>4, <2>7, <3>1, ParsedTags
    <3>3. Gives(canon, {"tags"}) /\ ~Gives(canon, {"range", "throws"})
      BY <2>5, <2>7, <3>2
    <3>4. TagsOfBlocks(canon) = TagsBy(blocks, m)
      <4> DEFINE R == Reached(canon, "CMT")
                 boxes == canon.boxes
      <4>1. R \subseteq 1..m /\ (\A i \in R : blocks[i] = boxes[i].exif)
            /\ \A i \in 1..m : i \notin R => DOMAIN blocks[i].tags = {}
        BY <2>1, <2>3 DEF NoBlock
      <4> HIDE DEF R, boxes
      <4>2. UNION {DOMAIN boxes[i].exif.tags : i \in R} = UNION {DOMAIN blocks[i].tags : i \in 1..m}
        BY <4>1
      <4>3. \A x : {i \in R : x \in DOMAIN boxes[i].exif.tags} = Having(blocks, m, x)
        BY <4>1 DEF Having
      <4>4. ASSUME NEW x \in UNION {DOMAIN blocks[i].tags : i \in 1..m}
            PROVE  TagOfBlocks(canon, x) = blocks[Max(Having(blocks, m, x))].tags[x]
        <5>1. TagOfBlocks(canon, x) = boxes[Max(Having(blocks, m, x))].exif.tags[x]
          BY <4>3 DEF TagOfBlocks, R, boxes
        <5>2. Having(blocks, m, x) # {} /\ Having(blocks, m, x) \in SUBSET (0..m)
          BY DEF Having
        <5>3. Max(Having(blocks, m, x)) \in Having(blocks, m, x)
          BY <2>3, <5>2, GreatestNumber
        <5>4. Max(Having(blocks, m, x)) \in R
          BY <4>3, <5>3
        <5> QED BY <4>1, <5>1, <5>4
      <4> QED BY <4>2, <4>4 DEF TagsOfBlocks, TagsBy, R, boxes
    <3> QED BY <2>6, <2>7, <3>1, <3>2, <3>3, <3>4
            DEF Answers, TagsComeFrom, OneThrows, SomeTags, r, blocks
  <2>8. CASE ~\E i \in 1..m : blocks[i].out # "none"
    <3>1. r = ParseWhole(raw.exif)
      BY <1>2, <1>3, <2>3, <2>8
    <3>2. ~Gives(canon, {"range", "throws"}) /\ ~Gives(canon, {"tags"})
      BY <2>5, <2>8
    <3> QED BY <1>10, <2>6, <3>1, <3>2 DEF OneThrows, SomeTags, r, blocks
  <2> QED BY <2>7, <2>8, <2>9
<1> QED BY <1>1, <1>7, <1>8, <1>9

-----------------------------------------------------------------------------
(* The file, and what the capture program does to it.                       *)

FileForm ==
  file = [format |-> file.format, path |-> file.path, head |-> file.head,
          units |-> file.units, room |-> file.room]

\* The capture program appends one unit, and changes nothing else.
LEMMA GrowIs ==
  ASSUME FileForm, Grow
  PROVE  /\ UNCHANGED <<at, handle, scanner, block, extent, result>> /\ at # "done"
         /\ file'.format = file.format /\ file'.path = file.path /\ file'.head = file.head
         /\ \E u \in Units(file.format) : file'.units = Append(file.units, u)
         /\ FileForm'
<1>1. PICK u \in Units(file.format) :
        file' = [file EXCEPT !.units = Append(@, u), !.room = @ - 1]
  BY DEF Grow
<1>2. UNCHANGED <<at, handle, scanner, block, extent, result>> /\ at # "done"
  BY DEF Grow, worker
<1> DEFINE f == file.format
           p == file.path
           h == file.head
           r == file.room
           more == Append(file.units, u)
           g == [file EXCEPT !.units = more]
<1>3. file = [format |-> f, path |-> p, head |-> h, units |-> file.units, room |-> r]
  BY DEF FileForm
<1>4. file' = [g EXCEPT !.room = r - 1]
  BY <1>1
<1> HIDE DEF f, p, h, r, more
<1>5. g = [format |-> f, path |-> p, head |-> h, units |-> more, room |-> r]
  BY <1>3
<1> HIDE DEF g
<1>6. file' = [format |-> f, path |-> p, head |-> h, units |-> more, room |-> r - 1]
  BY <1>4, <1>5
<1>7. file'.format = f /\ file'.path = p /\ file'.head = h /\ file'.units = more
      /\ file'.room = r - 1
  BY <1>6
<1>8. FileForm'
  BY <1>6, <1>7 DEF FileForm
<1> QED BY <1>2, <1>7, <1>8 DEF f, p, h, more

\* The worker never changes the file.
LEMMA WorkKeepsFile == Work \/ UNCHANGED vars => UNCHANGED file
BY DEF Work, Open, FailToOpen, Unsupported, ReadFits, ReadPrologue, ReadXisf, ReadRaw, ReadFails,
       Close, Returns, vars

\* The file keeps its form.
LEMMA FormInvariant == Spec => []FileForm
<1>1. Init => FileForm
  BY FilesAssumption DEF Init, FileForm
<1>2. FileForm /\ [Next]_vars => FileForm'
  <2>1. ASSUME FileForm, Grow PROVE FileForm'
    BY <2>1, GrowIs
  <2>2. ASSUME FileForm, UNCHANGED file PROVE FileForm'
    BY <2>2 DEF FileForm
  <2> QED BY <2>1, <2>2, WorkKeepsFile DEF Next
<1> QED BY <1>1, <1>2, PTL DEF Spec

-----------------------------------------------------------------------------
(* FITS: the inductive invariant.                                           *)

\* No END card among the cards before the last block that was read.
NoEndBefore(n) ==
  n <= Len(file.units) /\ \A k \in 1..n : ~IsEnd(file.units, k)

FitsReading ==
  /\ scanner.outcome = "need-more" /\ block \in 0..(MaxHeaderBlocks - 1)
  /\ extent = block * CardsPerBlock /\ extent <= Len(file.units)
  /\ Says(scanner, file.units, extent)

FitsRead ==
  /\ result.outcome = "ok" => Ended(result.headers, file.units, Len(file.units))
  /\ result.outcome \in FaultsOfContent => Refused(file.units, Len(file.units))

FitsOK ==
  file.format = "fits" =>
    /\ file.units \in Seq(FitsCards)
    /\ extent \in Nat /\ extent <= MaxHeaderBlocks * CardsPerBlock
    /\ extent = 0 \/ NoEndBefore(extent - CardsPerBlock)
    /\ at \in {"idle", "reading", "closing", "done"}
    /\ at = "idle" => scanner = NewScanner /\ block = 0 /\ extent = 0
    /\ at = "reading" => FitsReading
    /\ at \in {"closing", "done"} => FitsRead

\* Cards that are appended leave the cards before them.
LEMMA GrowAgrees ==
  ASSUME NEW cards \in Seq(FitsCards), NEW c \in FitsCards
  PROVE  /\ Append(cards, c) \in Seq(FitsCards) /\ Len(Append(cards, c)) = Len(cards) + 1
         /\ Len(cards) \in Nat
         /\ \A n \in 0..Len(cards) : Agree(cards, Append(cards, c), n)
BY DEF Agree

\* What is known of some cards is known of more.
LEMMA MoreCards ==
  ASSUME NEW cards \in Seq(FitsCards), NEW c \in FitsCards
  PROVE  LET more == Append(cards, c)
         IN /\ \A keywords : Ended(keywords, cards, Len(cards)) => Ended(keywords, more, Len(more))
            /\ Refused(cards, Len(cards)) => Refused(more, Len(more))
            /\ \A k \in 1..Len(cards) : IsEnd(more, k) <=> IsEnd(cards, k)
<1> DEFINE more == Append(cards, c)
           n == Len(cards)
<1>1. more \in Seq(FitsCards) /\ Len(more) = n + 1 /\ n \in Nat /\ Agree(cards, more, n)
  BY GrowAgrees
<1> HIDE DEF more, n
<1>2. ASSUME NEW keywords, Ended(keywords, cards, n) PROVE Ended(keywords, more, n + 1)
  <2> DEFINE s == [keywords |-> keywords, outcome |-> "done"]
  <2>1. s.keywords = keywords /\ s.outcome = "done"
    OBVIOUS
  <2> HIDE DEF s
  <2>2. Says(s, cards, n)
    BY <1>2, <2>1 DEF Says, CardFaults
  <2>3. Says(s, more, n)
    BY <1>1, <2>2, SaysAgree
  <2>4. Ended(keywords, more, n)
    BY <2>1, <2>3 DEF Says
  <2>5. \A e \in 2..n : e \in 2..(n + 1)
    BY <1>1
  <2> QED BY <2>4, <2>5 DEF Ended
<1>3. ASSUME Refused(cards, n) PROVE Refused(more, n + 1)
  <2> DEFINE s == [outcome |-> "NOT_FITS"]
  <2>1. s.outcome = "NOT_FITS"
    OBVIOUS
  <2> HIDE DEF s
  <2>2. Says(s, cards, n)
    BY <1>3, <2>1 DEF Says, CardFaults
  <2>3. Says(s, more, n)
    BY <1>1, <2>2, SaysAgree
  <2>4. Refused(more, n)
    BY <2>1, <2>3 DEF Says, CardFaults
  <2>5. \A i \in 1..n : i \in 1..(n + 1)
    BY <1>1
  <2> QED BY <2>4, <2>5 DEF Refused
<1>4. \A k \in 1..n : IsEnd(more, k) <=> IsEnd(cards, k)
  BY <1>1, CardsAgree
<1> QED BY <1>1, <1>2, <1>3, <1>4 DEF more, n

\* Nothing has been read.
LEMMA FitsInit == Init => FitsOK
<1> SUFFICES ASSUME Init PROVE FitsOK
  OBVIOUS
<1>1. extent = 0 /\ at = "idle" /\ scanner = NewScanner /\ block = 0
  BY DEF Init
<1>2. 0 <= MaxHeaderBlocks * CardsPerBlock
  BY BlocksAssumption
<1> QED BY <1>1, <1>2, FitsAssumption DEF Init, FitsOK

\* The capture program appends a card.
LEMMA FitsGrow ==
  ASSUME FileForm, FitsOK, Grow
  PROVE  FitsOK'
<1>1. /\ UNCHANGED <<at, scanner, block, extent, result>> /\ at # "done"
      /\ file'.format = file.format
      /\ \E u \in Units(file.format) : file'.units = Append(file.units, u)
  BY GrowIs
<1>2. PICK u \in Units(file.format) : file'.units = Append(file.units, u)
  BY <1>1
<1> DEFINE cards == file.units
           more == Append(cards, u)
<1>6. CASE file.format # "fits"
  BY <1>1, <1>6 DEF FitsOK
<1>7. CASE file.format = "fits"
  <2>1. cards \in Seq(FitsCards) /\ u \in FitsCards
    BY <1>7, FitsAssumption DEF FitsOK
  <2>2. /\ more \in Seq(FitsCards) /\ Len(more) = Len(cards) + 1 /\ Len(cards) \in Nat
        /\ \A n \in 0..Len(cards) : Agree(cards, more, n)
    BY <2>1, GrowAgrees
  <2>3. /\ \A keywords : Ended(keywords, cards, Len(cards)) => Ended(keywords, more, Len(more))
        /\ Refused(cards, Len(cards)) => Refused(more, Len(more))
        /\ \A k \in 1..Len(cards) : IsEnd(more, k) <=> IsEnd(cards, k)
    BY <2>1, MoreCards
  <2>4. extent \in Nat /\ extent <= MaxHeaderBlocks * CardsPerBlock
        /\ (extent = 0 \/ NoEndBefore(extent - CardsPerBlock))
        /\ at \in {"idle", "reading", "closing", "done"}
        /\ (at = "idle" => scanner = NewScanner /\ block = 0 /\ extent = 0)
        /\ (at = "reading" => FitsReading)
        /\ (at \in {"closing", "done"} => FitsRead)
    BY <1>7 DEF FitsOK
  <2> HIDE DEF more, cards
  <2>5. extent = 0 \/ NoEndBefore(extent - CardsPerBlock)'
    <3>1. SUFFICES ASSUME NoEndBefore(extent - CardsPerBlock)
                   PROVE  NoEndBefore(extent - CardsPerBlock)'
      BY <2>4
    <3> DEFINE n == extent - CardsPerBlock
    <3>2. n \in Int
      BY <2>4, BlocksAssumption
    <3> HIDE DEF n
    <3>3. n <= Len(cards) /\ \A k \in 1..n : ~IsEnd(cards, k)
      BY <3>1 DEF NoEndBefore, n, cards
    <3>4. n <= Len(more) /\ \A k \in 1..n : k \in 1..Len(cards)
      BY <2>2, <3>2, <3>3
    <3>5. n <= Len(more) /\ \A k \in 1..n : ~IsEnd(more, k)
      BY <2>3, <3>3, <3>4
    <3>6. file'.units = more
      BY <1>2 DEF more, cards
    <3> QED BY <1>1, <3>5, <3>6 DEF NoEndBefore, n
  <2>6. at = "reading" => FitsReading'
    <3>1. SUFFICES ASSUME FitsReading PROVE FitsReading'
      BY <2>4
    <3>2. extent <= Len(cards) /\ Says(scanner, cards, extent)
      BY <3>1 DEF FitsReading, cards
    <3>3. extent <= Len(more) /\ Says(scanner, more, extent)
      BY <2>2, <2>4, <3>2, SaysAgree
    <3>4. file'.units = more
      BY <1>2 DEF more, cards
    <3> QED BY <1>1, <3>1, <3>3, <3>4 DEF FitsReading
  <2>7. at \in {"closing", "done"} => FitsRead'
    <3>1. SUFFICES ASSUME FitsRead PROVE FitsRead'
      BY <2>4
    <3> QED BY <1>1, <1>2, <2>3, <3>1 DEF FitsRead, cards, more
  <2> QED BY <1>1, <1>2, <1>7, <2>2, <2>4, <2>5, <2>6, <2>7 DEF FitsOK, more
<1> QED BY <1>6, <1>7

\* A header known up to n cards of the file is known of the whole file.
LEMMA UpToTheEnd ==
  ASSUME NEW cards \in Seq(FitsCards), NEW n \in 0..Len(cards)
  PROVE  /\ \A keywords : Ended(keywords, cards, n) => Ended(keywords, cards, Len(cards))
         /\ Refused(cards, n) => Refused(cards, Len(cards))
<1>1. \A e \in 2..n : e \in 2..Len(cards)
  OBVIOUS
<1>2. \A i \in 1..n : i \in 1..Len(cards)
  OBVIOUS
<1> QED BY <1>1, <1>2 DEF Ended, Refused

\* An error has its code.
LEMMA ErrorIs ==
  ASSUME NEW code
  PROVE  Error(code).outcome = code
BY DEF Error, NoResult

\* The next block of a FITS file is read.
LEMMA FitsReadBlock == FitsOK /\ ReadFits => FitsOK'
<1> SUFFICES ASSUME FitsOK, ReadFits PROVE FitsOK'
  OBVIOUS
<1> DEFINE s == ReadBlock(scanner, file.units, block)
           n == block * CardsPerBlock
           C == CardsPerBlock
           cards == file.units
<1>1. /\ at = "reading" /\ file.format = "fits" /\ file' = file
      /\ scanner' = s /\ block' = block + 1 /\ extent' = (block + 1) * C
      /\ \/ s.outcome = "need-more" /\ at' = at /\ result' = result
         \/ s.outcome # "need-more" /\ at' = "closing" /\ result' = FitsResult(s)
  BY DEF ReadFits, Returns
<1>2. /\ cards \in Seq(FitsCards) /\ FitsReading
  BY <1>1 DEF FitsOK
<1>3. /\ C \in Nat /\ C > 0 /\ MaxHeaderBlocks \in Nat /\ block \in Nat /\ block + 1 <= MaxHeaderBlocks
      /\ extent = n
  BY <1>2, BlocksAssumption DEF FitsReading
<1>4. /\ n \in Nat /\ n <= Len(cards) /\ scanner.outcome = "need-more" /\ Says(scanner, cards, n)
      /\ Len(cards) \in Nat
  BY <1>2, <1>3 DEF FitsReading
<1>5. (block + 1) * C = n + C
  BY <1>3
<1>6. (block + 1) * C <= MaxHeaderBlocks * C
  <2>1. \A a, b \in Nat : a <= b => a * C <= b * C
    BY <1>3
  <2> QED BY <1>3, <2>1
<1>7. NoEndBefore(n)
  <2>1. Reading(scanner, cards, n)
    BY <1>4 DEF Says
  <2>2. NoEndYet(cards, n)
    BY <2>1 DEF Reading
  <2> QED BY <1>4, <2>2 DEF NoEndBefore, NoEndYet
<1>8. \/ s.outcome \in CutOff
      \/ /\ n + C <= Len(cards) /\ Says(s, cards, n + C)
         /\ s.outcome = "need-more" => block + 1 # MaxHeaderBlocks
  <2> HIDE DEF s, n, cards
  <2>1. n = block * CardsPerBlock
    BY DEF n
  <2> QED BY <1>2, <1>3, <1>4, <2>1, ReadBlockSays DEF s, cards
<1> HIDE DEF s
<1>9. CASE s.outcome = "need-more"
  <2>1. at' = "reading" /\ n + C <= Len(cards) /\ Says(s, cards, n + C) /\ block + 1 # MaxHeaderBlocks
    BY <1>1, <1>8, <1>9 DEF CutOff
  <2>2. block' \in 0..(MaxHeaderBlocks - 1) /\ extent' = block' * C /\ extent' = n + C
    BY <1>1, <1>3, <1>5, <2>1
  <2>3. FitsReading'
    BY <1>1, <1>9, <2>1, <2>2 DEF FitsReading
  <2>4. extent' \in Nat /\ extent' <= MaxHeaderBlocks * C /\ extent' - C = n
    BY <1>1, <1>3, <1>4, <1>6, <2>2
  <2>5. NoEndBefore(extent - C)'
    BY <1>1, <1>7, <2>4 DEF NoEndBefore
  <2> QED BY <1>1, <2>1, <2>3, <2>4, <2>5 DEF FitsOK
<1>10. CASE s.outcome # "need-more"
  <2>1. at' = "closing" /\ result' = FitsResult(s)
    BY <1>1, <1>10
  <2>2. extent' \in Nat /\ extent' <= MaxHeaderBlocks * C /\ extent' - C = n
    BY <1>1, <1>3, <1>4, <1>5, <1>6
  <2>3. NoEndBefore(extent - C)'
    BY <1>1, <1>7, <2>2 DEF NoEndBefore
  <2>4. /\ \A keywords : Ended(keywords, cards, n + C) => Ended(keywords, cards, Len(cards))
        /\ Refused(cards, n + C) => Refused(cards, Len(cards))
        \/ ~(n + C <= Len(cards))
    <3> HIDE DEF n, cards
    <3> QED BY <1>2, <1>3, <1>4, UpToTheEnd
  <2>5. FitsRead'
    <3>1. CASE s.outcome = "done"
      <4>1. result'.outcome = "ok" /\ result'.headers = s.keywords
        BY <2>1, <3>1 DEF FitsResult, Parsed
      <4>2. n + C <= Len(cards) /\ Says(s, cards, n + C)
        BY <1>8, <3>1 DEF CutOff
      <4>3. Ended(s.keywords, cards, Len(cards))
        BY <2>4, <3>1, <4>2 DEF Says
      <4> QED BY <1>1, <4>1, <4>3 DEF FitsRead, FaultsOfContent
    <3>2. CASE s.outcome \in CutOff
      <4>1. result'.outcome = s.outcome
        BY <2>1, <3>2, ErrorIs DEF FitsResult, CutOff
      <4> QED BY <3>2, <4>1 DEF FitsRead, FaultsOfContent, CutOff
    <3>3. CASE s.outcome # "done" /\ s.outcome \notin CutOff
      <4>1. result'.outcome = s.outcome
        BY <2>1, <3>3, ErrorIs DEF FitsResult
      <4>2. n + C <= Len(cards) /\ Says(s, cards, n + C)
        BY <1>8, <3>3
      <4>3. s.outcome \in CardFaults /\ Refused(cards, Len(cards))
        BY <1>10, <2>4, <3>3, <4>2 DEF Says
      <4> QED BY <1>1, <4>1, <4>3 DEF FitsRead, CardFaults
    <3> QED BY <3>1, <3>2, <3>3
  <2> QED BY <1>1, <2>1, <2>2, <2>3, <2>5 DEF FitsOK
<1> QED BY <1>9, <1>10

\* Every other step of the worker, and none.
LEMMA FitsOther ==
  ASSUME FitsOK,
         \/ Open \/ FailToOpen \/ Unsupported \/ ReadPrologue \/ ReadXisf \/ ReadRaw \/ ReadFails
         \/ Close \/ UNCHANGED vars
  PROVE  FitsOK'
<1>1. file' = file
  BY DEF Open, FailToOpen, Unsupported, ReadPrologue, ReadXisf, ReadRaw, ReadFails, Close,
         Returns, vars
<1>2. CASE file.format # "fits"
  BY <1>1, <1>2 DEF FitsOK
<1>3. CASE file.format = "fits"
  <2>1. /\ file.units \in Seq(FitsCards)
        /\ extent \in Nat /\ extent <= MaxHeaderBlocks * CardsPerBlock
        /\ (extent = 0 \/ NoEndBefore(extent - CardsPerBlock))
        /\ at \in {"idle", "reading", "closing", "done"}
        /\ (at = "idle" => scanner = NewScanner /\ block = 0 /\ extent = 0)
        /\ (at = "reading" => FitsReading)
        /\ (at \in {"closing", "done"} => FitsRead)
    BY <1>3 DEF FitsOK
  <2>2. /\ FitsReading /\ UNCHANGED <<scanner, block, extent, file>> => FitsReading'
        /\ FitsRead /\ UNCHANGED <<result, file>> => FitsRead'
        /\ NoEndBefore(extent - CardsPerBlock) /\ UNCHANGED <<extent, file>>
             => NoEndBefore(extent - CardsPerBlock)'
    BY DEF FitsReading, FitsRead, NoEndBefore
  <2>3. CASE Open
    <3>1. at = "idle" /\ at' = "reading" /\ UNCHANGED <<file, scanner, block, extent, result>>
      BY <2>3 DEF Open
    <3>2. scanner = NewScanner /\ block = 0 /\ extent = 0
      BY <2>1, <3>1
    <3>3. FitsReading
      <4>1. Reading(NewScanner, file.units, 0) /\ NewScanner.outcome = "need-more"
        BY NewScannerReads DEF NewScanner
      <4>2. Says(NewScanner, file.units, 0)
        BY <4>1 DEF Says, CardFaults
      <4> QED BY <2>1, <3>2, <4>1, <4>2, BlocksAssumption DEF FitsReading
    <3> QED BY <1>1, <2>1, <2>2, <3>1, <3>3 DEF FitsOK
  <2>4. CASE FailToOpen
    <3>1. at' = "done" /\ UNCHANGED <<file, extent>> /\ result' = Error("READ_ERROR")
      BY <2>4 DEF FailToOpen
    <3>2. FitsRead'
      BY <3>1, ErrorIs DEF FitsRead, FaultsOfContent
    <3> QED BY <1>1, <2>1, <2>2, <3>1, <3>2 DEF FitsOK
  <2>5. CASE ReadFails
    <3>1. at' = "closing" /\ UNCHANGED <<file, extent>> /\ result' = Error("READ_ERROR")
      BY <2>5 DEF ReadFails, Returns
    <3>2. FitsRead'
      BY <3>1, ErrorIs DEF FitsRead, FaultsOfContent
    <3> QED BY <1>1, <2>1, <2>2, <3>1, <3>2 DEF FitsOK
  <2>6. CASE Close
    <3>1. at = "closing" /\ at' = "done" /\ UNCHANGED <<file, extent, result>>
      BY <2>6 DEF Close
    <3> QED BY <1>1, <2>1, <2>2, <3>1 DEF FitsOK
  <2>7. CASE UNCHANGED vars
    <3>1. UNCHANGED <<file, at, scanner, block, extent, result>>
      BY <2>7 DEF vars
    <3> QED BY <1>1, <2>1, <2>2, <3>1 DEF FitsOK
  <2>8. ~Unsupported /\ ~ReadPrologue /\ ~ReadXisf /\ ~ReadRaw
    BY <1>3, <2>1 DEF Unsupported, ReadPrologue, ReadXisf, ReadRaw
  <2> QED BY <2>3, <2>4, <2>5, <2>6, <2>7, <2>8
<1> QED BY <1>2, <1>3

\* What is read of a FITS file is what its cards say, block after block.
LEMMA FitsInvariant == Spec => []FitsOK
<1>1. FileForm /\ FitsOK /\ [Next]_vars => FitsOK'
  BY FitsGrow, FitsReadBlock, FitsOther DEF Next, Work
<1> QED BY FitsInit, FormInvariant, <1>1, PTL DEF Spec

-----------------------------------------------------------------------------
(* XISF: the inductive invariant.                                           *)

XisfSays(outcome, headers, properties, items) ==
  /\ outcome = "ok" =>
       /\ IsXml(items)
       /\ headers = [k \in DOMAIN AttributesOf(items, "FITSKeyword") |->
                       TextOf(AttributesOf(items, "FITSKeyword")[k])]
       /\ properties = AttributesOf(items, "Property")
  /\ outcome \in FaultsOfContent => ~Balanced(items)

\* The declared region lies within the file as it was when it was read.
XisfRead ==
  result.outcome \in {"ok"} \cup FaultsOfContent =>
    /\ file.head.declared <= Len(file.units)
    /\ XisfSays(result.outcome, result.headers, result.properties,
                SubSeq(file.units, 1, file.head.declared))

XisfOK ==
  file.format = "xisf" =>
    /\ file.units \in Seq(XmlItems)
    /\ file.head.declared \in Nat /\ extent \in {0, file.head.declared}
    /\ at \in {"closing", "done"} => XisfRead

\* What is read of a file stays when units are appended to it.
LEMMA PrefixStays ==
  ASSUME NEW S, NEW units \in Seq(S), NEW u \in S, NEW n \in 0..Len(units)
  PROVE  /\ SubSeq(Append(units, u), 1, n) = SubSeq(units, 1, n)
         /\ SubSeq(units, 1, n) \in Seq(S)
         /\ Append(units, u) \in Seq(S) /\ n <= Len(Append(units, u))
<1> DEFINE more == Append(units, u)
           a == SubSeq(units, 1, n)
           b == SubSeq(more, 1, n)
<1>1. /\ more \in Seq(S) /\ Len(more) = Len(units) + 1 /\ Len(units) \in Nat
      /\ \A i \in 1..Len(units) : more[i] = units[i]
  OBVIOUS
<1> HIDE DEF more
<1>2. /\ 1 \in Int /\ n \in Int /\ (\A i \in 1..n : units[i] \in S)
      /\ \A i \in 1..n : more[i] \in S /\ more[i] = units[i]
  BY <1>1
<1>3. /\ a \in Seq(S) /\ Len(a) = IF 1 <= n THEN n - 1 + 1 ELSE 0
      /\ \A i \in 1..(n - 1 + 1) : a[i] = units[1 + i - 1]
  BY <1>2, SubSeqProperties
<1>4. /\ b \in Seq(S) /\ Len(b) = IF 1 <= n THEN n - 1 + 1 ELSE 0
      /\ \A i \in 1..(n - 1 + 1) : b[i] = more[1 + i - 1]
  BY <1>2, SubSeqProperties
<1> HIDE DEF a, b
<1>5. n \in Nat /\ \A i \in 1..n : i \in 1..(n - 1 + 1) /\ 1 + i - 1 = i
  OBVIOUS
<1>6. Len(a) = n /\ \A i \in 1..n : a[i] = units[i]
  BY <1>3, <1>5
<1>7. Len(b) = n /\ \A i \in 1..n : b[i] = more[i]
  BY <1>4, <1>5
<1>8. a = b
  <2>1. \A i \in 1..Len(a) : a[i] = b[i]
    BY <1>2, <1>6, <1>7
  <2> QED BY <1>3, <1>4, <1>6, <1>7, <2>1, SeqEqual
<1> QED BY <1>1, <1>3, <1>8 DEF more, a, b

\* Nothing has been read.
LEMMA XisfInit == Init => XisfOK
BY XisfAssumption DEF Init, XisfOK

\* An item that is appended leaves the declared region.
LEMMA XisfGrow ==
  ASSUME FileForm, XisfOK, Grow
  PROVE  XisfOK'
<1>1. /\ UNCHANGED <<at, extent, result>> /\ at # "done"
      /\ file'.format = file.format /\ file'.head = file.head
      /\ \E u \in Units(file.format) : file'.units = Append(file.units, u)
  BY GrowIs
<1>2. PICK u \in Units(file.format) : file'.units = Append(file.units, u)
  BY <1>1
<1>3. CASE file.format # "xisf"
  BY <1>1, <1>3 DEF XisfOK
<1>4. CASE file.format = "xisf"
  <2> DEFINE items == file.units
             more == Append(items, u)
             n == file.head.declared
  <2>1. /\ items \in Seq(XmlItems) /\ u \in XmlItems /\ n \in Nat /\ extent \in {0, n}
        /\ at \in {"closing", "done"} => XisfRead
    BY <1>4, XisfAssumption DEF XisfOK
  <2>2. file'.units = more /\ file'.head.declared = n /\ result' = result
    BY <1>1, <1>2
  <2> HIDE DEF items, n
  <2>3. more \in Seq(XmlItems)
    BY <2>1
  <2>4. ASSUME XisfRead PROVE XisfRead'
    <3> SUFFICES ASSUME result.outcome \in {"ok"} \cup FaultsOfContent
                 PROVE  n <= Len(more) /\ SubSeq(more, 1, n) = SubSeq(items, 1, n)
      BY <2>2, <2>4 DEF XisfRead, items, n
    <3>1. n <= Len(items)
      BY <2>4 DEF XisfRead, items, n
    <3>2. n \in 0..Len(items)
      BY <2>1, <3>1
    <3> QED BY <2>1, <3>2, PrefixStays
  <2> QED BY <1>1, <2>1, <2>2, <2>3, <2>4 DEF XisfOK
<1> QED BY <1>3, <1>4

\* The declared region is read.
LEMMA XisfReadXml ==
  ASSUME XisfOK, ReadXisf
  PROVE  XisfOK'
<1>1. /\ extent' = file.head.declared /\ file' = file /\ at' = "closing"
      /\ result' = XisfResult(ReadXml(file.units, file.head.declared))
  BY DEF ReadXisf, Returns
<1>2. CASE file.format # "xisf"
  BY <1>1, <1>2 DEF XisfOK
<1>3. CASE file.format = "xisf"
  <2> DEFINE n == file.head.declared
             units == file.units
             items == SubSeq(units, 1, n)
             s == ReadXml(units, n)
  <2>1. units \in Seq(XmlItems) /\ n \in Nat
    BY <1>3 DEF XisfOK
  <2>2. CASE Len(units) < n
    <3>1. s.outcome = "TRUNCATED_HEADER"
      BY <2>2 DEF ReadXml, ScanFails, NewScan
    <3>2. result'.outcome = "TRUNCATED_HEADER"
      BY <1>1, <3>1, ErrorIs DEF XisfResult
    <3>3. XisfRead'
      BY <3>2 DEF XisfRead, FaultsOfContent
    <3> QED BY <1>1, <2>1, <3>3 DEF XisfOK
  <2>3. CASE ~(Len(units) < n)
    <3>1. n \in 0..Len(units) /\ items \in Seq(XmlItems)
      <4> HIDE DEF units, n
      <4>1. n \in 0..Len(units)
        BY <2>1, <2>3
      <4>2. \A i \in 1..n : units[i] \in XmlItems
        BY <2>1, <4>1
      <4>3. SubSeq(units, 1, n) \in Seq(XmlItems)
        BY <4>1, <4>2, SubSeqProperties
      <4> QED BY <4>1, <4>3
    <3>2. s = ScanXml(items)
      BY <2>3 DEF ReadXml
    <3> HIDE DEF items, s
    <3>3. /\ s.outcome \in {"ok"} \cup Faults
          /\ s.outcome = "ok" => /\ IsXml(items)
                                 /\ s.keywords = AttributesOf(items, "FITSKeyword")
                                 /\ s.properties = AttributesOf(items, "Property")
          /\ s.outcome = "MALFORMED_XML" => ~Balanced(items)
      BY <3>1, <3>2, ScanIsXml
    <3>4. XisfSays(result'.outcome, result'.headers, result'.properties, items)
      <4>1. result' = XisfResult(s)
        BY <1>1 DEF s
      <4>2. CASE s.outcome = "ok"
        <5>1. result' = Parsed([k \in DOMAIN s.keywords |-> TextOf(s.keywords[k])], s.properties)
          BY <4>1, <4>2 DEF XisfResult
        <5> DEFINE a == AttributesOf(items, "FITSKeyword")
                   p == AttributesOf(items, "Property")
        <5>2. s.keywords = a /\ s.properties = p
          BY <3>3, <4>2
        <5> HIDE DEF a, p
        <5>3. result' = Parsed([k \in DOMAIN a |-> TextOf(a[k])], p)
          BY <5>1, <5>2
        <5>4. result'.outcome = "ok" /\ result'.headers = [k \in DOMAIN a |-> TextOf(a[k])]
              /\ result'.properties = p
          BY <5>3 DEF Parsed
        <5> QED BY <3>3, <4>2, <5>4 DEF XisfSays, FaultsOfContent, a, p
      <4>3. CASE s.outcome = "MALFORMED_XML"
        <5>1. result'.outcome = "MALFORMED_XML"
          BY <4>1, <4>3, ErrorIs DEF XisfResult
        <5> QED BY <3>3, <4>3, <5>1 DEF XisfSays
      <4>4. CASE s.outcome = "RangeError"
        <5>1. result'.outcome = "READ_ERROR"
          BY <4>1, <4>4, ErrorIs DEF XisfResult
        <5> QED BY <5>1 DEF XisfSays, FaultsOfContent
      <4> QED BY <3>3, <4>2, <4>3, <4>4 DEF Faults
    <3>5. XisfRead'
      BY <1>1, <3>1, <3>4 DEF XisfRead, items
    <3> QED BY <1>1, <2>1, <3>5 DEF XisfOK
  <2> QED BY <2>2, <2>3
<1> QED BY <1>2, <1>3

\* The outcomes that say nothing of a header.
LEMMA PrologueFaults ==
  ASSUME NEW bytes, NEW signature, NEW declared
  PROVE  CheckPrologue(bytes, signature, declared) \in
           {"ok", "EMPTY_FILE", "TRUNCATED_HEADER", "BAD_SIGNATURE"}
BY DEF CheckPrologue

\* Every other step, and none, leaves the file, what is read of it, or both outcomes out of it.
LEMMA OtherSteps ==
  ASSUME \/ Open \/ FailToOpen \/ Unsupported \/ ReadPrologue \/ ReadFails \/ Close \/ UNCHANGED vars
  PROVE  /\ UNCHANGED <<file, extent>>
         /\ \/ at' \notin {"closing", "done"} /\ at \in {"idle", "reading"} /\ result' = result
            \/ at' \in {"closing", "done"} /\ result'.outcome \notin {"ok"} \cup FaultsOfContent
            \/ at' = "done" /\ at = "closing" /\ result' = result
            \/ at' = at /\ result' = result
<1>1. CASE Open
  BY <1>1 DEF Open
<1>2. CASE FailToOpen
  BY <1>2, ErrorIs DEF FailToOpen, FaultsOfContent
<1>3. CASE Unsupported
  BY <1>3, ErrorIs DEF Unsupported, Returns, FaultsOfContent
<1>4. CASE ReadPrologue
  <2> DEFINE outcome == CheckPrologue(file.head.bytes, file.head.signature, file.head.declared)
  <2>1. /\ at = "reading" /\ UNCHANGED <<file, extent>>
        /\ \/ at' = "xml" /\ result' = result
           \/ outcome # "ok" /\ at' = "closing" /\ result' = Error(outcome)
    BY <1>4 DEF ReadPrologue, Returns
  <2>2. outcome \in {"ok", "EMPTY_FILE", "TRUNCATED_HEADER", "BAD_SIGNATURE"}
    BY PrologueFaults
  <2> HIDE DEF outcome
  <2>3. outcome # "ok" => Error(outcome).outcome \notin {"ok"} \cup FaultsOfContent
    BY <2>2, ErrorIs DEF FaultsOfContent
  <2> QED BY <2>1, <2>3
<1>5. CASE ReadFails
  BY <1>5, ErrorIs DEF ReadFails, Returns, FaultsOfContent
<1>6. CASE Close
  BY <1>6 DEF Close
<1>7. CASE UNCHANGED vars
  BY <1>7 DEF vars
<1> QED BY <1>1, <1>2, <1>3, <1>4, <1>5, <1>6, <1>7

\* The other steps read no XML.
LEMMA XisfOther ==
  ASSUME XisfOK,
         \/ Open \/ FailToOpen \/ Unsupported \/ ReadFits \/ ReadPrologue \/ ReadRaw \/ ReadFails
         \/ Close \/ UNCHANGED vars
  PROVE  XisfOK'
<1>1. CASE file.format # "xisf"
  BY <1>1, WorkKeepsFile DEF XisfOK, Work
<1>2. CASE file.format = "xisf"
  <2>1. ~ReadFits /\ ~ReadRaw
    BY <1>2 DEF ReadFits, ReadRaw
  <2>2. /\ UNCHANGED <<file, extent>>
        /\ \/ at' \notin {"closing", "done"} /\ at \in {"idle", "reading"} /\ result' = result
           \/ at' \in {"closing", "done"} /\ result'.outcome \notin {"ok"} \cup FaultsOfContent
           \/ at' = "done" /\ at = "closing" /\ result' = result
           \/ at' = at /\ result' = result
    BY <2>1, OtherSteps
  <2>3. result'.outcome \notin {"ok"} \cup FaultsOfContent => XisfRead'
    BY DEF XisfRead
  <2>4. XisfRead /\ result' = result => XisfRead'
    BY <2>2 DEF XisfRead
  <2> QED BY <2>2, <2>3, <2>4 DEF XisfOK
<1> QED BY <1>1, <1>2

\* What is read of a XISF file is what its declared region says.
LEMMA XisfInvariant == Spec => []XisfOK
<1>1. FileForm /\ XisfOK /\ [Next]_vars => XisfOK'
  BY XisfGrow, XisfReadXml, XisfOther DEF Next, Work
<1> QED BY XisfInit, FormInvariant, <1>1, PTL DEF Spec

-----------------------------------------------------------------------------
(* RAW: the inductive invariant.                                            *)

\* Canon's boxes among the first n boxes of a file.
CanonIn(f, n) ==
  IF f.head.brand = "crx" THEN CanonBoxes([boxes |-> SubSeq(f.units, 1, n)]) ELSE {}

RawFaults == {"TRUNCATED_HEADER", "UNRECOGNIZED_RAW"}

RawRead ==
  result.outcome \in {"ok"} \cup RawFaults =>
    /\ extent \in 0..Len(file.units)
    /\ result.outcome = "ok" =>
         TagsComeFrom(result.headers, file.head.exif, CanonIn(file, extent))
    /\ result.outcome # "ok" => RefusedFor(file.head.exif, CanonIn(file, extent))

RawReadOK ==
  file.format = "raw" =>
    /\ file.units \in Seq(Units("raw"))
    /\ at \in {"idle", "reading", "closing", "done"}
    /\ at \in {"closing", "done"} => RawRead

\* Canon's boxes are those of the boxes of a file, whatever else it holds.
LEMMA CanonOfBoxes ==
  ASSUME NEW a, NEW b, a.boxes = b.boxes
  PROVE  CanonBoxes(a) = CanonBoxes(b)
<1>1. \A type : FirstChild(a, type) = FirstChild(b, type)
  BY DEF FirstChild, Reached
<1> QED BY <1>1 DEF CanonBoxes

\* A RAW file is its boxes and what exifr makes of the whole.
LEMMA RawFileIs ==
  /\ RawFile.boxes = file.units /\ RawFile.exif = file.head.exif /\ RawFile.brand = file.head.brand
  /\ \A boxes : [RawFile EXCEPT !.boxes = boxes].boxes = boxes
BY DEF RawFile

\* Nothing has been read.
LEMMA RawInit == Init => RawReadOK
BY RawAssumption DEF Init, RawReadOK

\* A box that is appended leaves those that were read.
LEMMA RawGrow ==
  ASSUME FileForm, RawReadOK, Grow
  PROVE  RawReadOK'
<1>1. /\ UNCHANGED <<at, extent, result>> /\ at # "done"
      /\ file'.format = file.format /\ file'.head = file.head
      /\ \E u \in Units(file.format) : file'.units = Append(file.units, u)
  BY GrowIs
<1>2. PICK u \in Units(file.format) : file'.units = Append(file.units, u)
  BY <1>1
<1>3. CASE file.format # "raw"
  BY <1>1, <1>3 DEF RawReadOK
<1>4. CASE file.format = "raw"
  <2> DEFINE units == file.units
             more == Append(units, u)
  <2>1. /\ units \in Seq(Units("raw")) /\ u \in Units("raw")
        /\ at \in {"idle", "reading", "closing", "done"}
        /\ at \in {"closing", "done"} => RawRead
    BY <1>4 DEF RawReadOK
  <2>2. file'.units = more
    BY <1>2
  <2> HIDE DEF units
  <2>3. more \in Seq(Units("raw"))
    BY <2>1
  <2>4. ASSUME RawRead PROVE RawRead'
    <3> SUFFICES ASSUME result.outcome \in {"ok"} \cup RawFaults
                 PROVE  extent \in 0..Len(more) /\ CanonIn(file', extent) = CanonIn(file, extent)
      BY <1>1, <2>2, <2>4 DEF RawRead
    <3>1. extent \in 0..Len(units)
      BY <2>4 DEF RawRead, units
    <3>2. SubSeq(more, 1, extent) = SubSeq(units, 1, extent) /\ extent <= Len(more)
      BY <2>1, <3>1, PrefixStays
    <3>4. CanonIn(file', extent) = CanonIn(file, extent)
      BY <1>1, <2>2, <3>2 DEF CanonIn, units
    <3>5. extent \in 0..Len(more)
      BY <2>3, <3>1, <3>2
    <3> QED BY <3>4, <3>5
  <2> QED BY <1>1, <2>1, <2>2, <2>3, <2>4 DEF RawReadOK
<1> QED BY <1>3, <1>4

\* The one read of the file.
LEMMA RawReadsFile ==
  ASSUME RawReadOK, ReadRaw
  PROVE  RawReadOK'
<1>1. /\ file.format = "raw" /\ file' = file /\ at' = "closing" /\ extent' = Len(file.units)
      /\ result' = RawResult(ParseRawHeader(RawFile, BlocksOf(RawFile)))
  BY DEF ReadRaw, Returns
<1> DEFINE units == file.units
           r == ParseRawHeader(RawFile, BlocksOf(RawFile))
<1>2. units \in Seq(Units("raw")) /\ Len(units) \in Nat
  BY <1>1 DEF RawReadOK
<1>3. IsList(units) /\ \A box \in Range(units) : IsBox(box)
  <2>1. DOMAIN units = 1..Len(units) /\ \A i \in 1..Len(units) : units[i] \in Units("raw")
    BY <1>2
  <2>2. \A i \in 1..Len(units) : units[i] \in Range(units)
    BY <2>1 DEF Range
  <2>3. units \in Seq(Range(units))
    BY <1>2, <2>1, <2>2
  <2>4. \A box \in Range(units) : box \in Units("raw")
    BY <2>1 DEF Range
  <2> QED BY <2>3, <2>4, RawAssumption DEF IsList
<1>4. ASSUME result'.outcome \in {"ok"} \cup RawFaults
      PROVE  Answers([outcome |-> result'.outcome, tags |-> result'.headers], file.head.exif,
                     CanonIn(file, Len(file.units)))
  <2>1. r.outcome = result'.outcome /\ (r.outcome = "ok" => result'.headers = r.tags)
    BY <1>1, ErrorIs DEF RawResult, Parsed
  <2>5. ~RawFile.empty
    <3>1. RawFile.empty => r.outcome = "EMPTY_FILE"
      BY DEF ParseRawHeader, RawError
    <3> QED BY <1>4, <2>1, <3>1 DEF RawFaults
  <2>2. RawFile.boxes = units /\ RawFile.exif = file.head.exif /\ RawFile.brand = file.head.brand
    BY RawFileIs
  <2>3. Answers(r, RawFile.exif, CanonOf(RawFile))
    BY <1>3, <2>2, <2>5, RawSays
  <2>4. SubSeq(units, 1, Len(units)) = units
    <3> DEFINE n == Len(units)
               a == SubSeq(units, 1, n)
    <3>1. 1 \in Int /\ n \in Int /\ \A i \in 1..n : units[i] \in Units("raw")
      BY <1>2
    <3>2. /\ a \in Seq(Units("raw")) /\ Len(a) = IF 1 <= n THEN n - 1 + 1 ELSE 0
          /\ \A i \in 1..(n - 1 + 1) : a[i] = units[1 + i - 1]
      BY <3>1, SubSeqProperties
    <3> HIDE DEF a
    <3>3. \A i \in 1..n : i \in 1..(n - 1 + 1) /\ 1 + i - 1 = i
      BY <1>2
    <3>4. Len(a) = Len(units) /\ \A i \in 1..Len(a) : a[i] = units[i]
      BY <1>2, <3>2, <3>3
    <3>5. a = units
      BY <1>2, <3>2, <3>4, SeqEqual
    <3> QED BY <3>5 DEF a
  <2>6. CanonIn(file, Len(file.units)) = CanonOf(RawFile)
    <3> DEFINE b == [boxes |-> units]
    <3>1. b.boxes = RawFile.boxes
      BY <2>2
    <3> HIDE DEF b
    <3>2. CanonBoxes(b) = CanonBoxes(RawFile)
      BY <3>1, CanonOfBoxes
    <3>3. CanonIn(file, Len(units)) = IF file.head.brand = "crx" THEN CanonBoxes(b) ELSE {}
      BY <2>4 DEF b, CanonIn
    <3> QED BY <2>2, <3>2, <3>3 DEF CanonOf
  <2> HIDE DEF r
  <2> QED BY <2>1, <2>2, <2>3, <2>6 DEF Answers
<1>5. RawRead'
  BY <1>1, <1>2, <1>4 DEF RawRead, Answers
<1> QED BY <1>1, <1>2, <1>5 DEF RawReadOK

\* The other steps read no RAW file.
LEMMA RawOther ==
  ASSUME RawReadOK,
         \/ Open \/ FailToOpen \/ Unsupported \/ ReadFits \/ ReadPrologue \/ ReadXisf \/ ReadFails
         \/ Close \/ UNCHANGED vars
  PROVE  RawReadOK'
<1>1. CASE file.format # "raw"
  BY <1>1, WorkKeepsFile DEF RawReadOK, Work
<1>2. CASE file.format = "raw"
  <2>1. ~ReadFits /\ ~ReadPrologue /\ ~ReadXisf
    BY <1>2 DEF ReadFits, ReadPrologue, ReadXisf, RawReadOK
  <2>2. /\ UNCHANGED <<file, extent>>
        /\ \/ at' \notin {"closing", "done"} /\ at \in {"idle", "reading"} /\ result' = result
           \/ at' \in {"closing", "done"} /\ result'.outcome \notin {"ok"} \cup RawFaults
           \/ at' = "done" /\ at = "closing" /\ result' = result
           \/ at' = at /\ result' = result
    <3>1. FailToOpen \/ Unsupported \/ ReadFails =>
            result'.outcome \in {"READ_ERROR", "UNSUPPORTED_EXTENSION"}
      BY ErrorIs DEF FailToOpen, Unsupported, ReadFails, Returns
    <3>2. CASE FailToOpen \/ Unsupported \/ ReadFails
      BY <2>1, <3>1, <3>2, OtherSteps DEF RawFaults, FailToOpen, Unsupported, ReadFails, Returns
    <3>3. CASE Open \/ Close \/ UNCHANGED vars
      BY <3>3 DEF Open, Close, vars
    <3> QED BY <2>1, <3>2, <3>3
  <2>3. at' \in {"idle", "reading", "closing", "done"}
    BY <1>2, <2>1
       DEF RawReadOK, Open, FailToOpen, Unsupported, ReadFails, Close, Returns, vars
  <2>4. result'.outcome \notin {"ok"} \cup RawFaults => RawRead'
    BY DEF RawRead
  <2>5. RawRead /\ result' = result => RawRead'
    BY <2>2 DEF RawRead
  <2> QED BY <2>2, <2>3, <2>4, <2>5 DEF RawReadOK
<1> QED BY <1>1, <1>2

\* What is read of a RAW file is what its boxes said at the time.
LEMMA RawInvariant == Spec => []RawReadOK
<1>1. FileForm /\ RawReadOK /\ [Next]_vars => RawReadOK'
  BY RawGrow, RawReadsFile, RawOther DEF Next, Work
<1> QED BY RawInit, FormInvariant, <1>1, PTL DEF Spec

-----------------------------------------------------------------------------
(* The frame that is made of a header.                                      *)

FrameOK ==
  /\ file.path \in Seq(Seq(STRING))
  /\ at = "xml" => file.format = "xisf"
  /\ result.outcome = "ok" => file.format \in {"fits", "xisf", "raw"}

\* Only files of a known format give a header, and paths are lists of segments.
LEMMA FrameInvariant == Spec => []FrameOK
<1>1. Init => FrameOK
  BY FilesAssumption DEF Init, FrameOK, NoResult
<1>2. ASSUME FileForm, FrameOK, [Next]_vars PROVE FrameOK'
  <2>1. CASE Grow
    BY <1>2, <2>1, GrowIs DEF FrameOK
  <2>2. CASE Work \/ UNCHANGED vars
    <3>1. file' = file
      BY <2>2, WorkKeepsFile
    <3>2. at' = "xml" => file.format = "xisf"
      BY <1>2, <2>2
         DEF FrameOK, Work, Open, FailToOpen, Unsupported, ReadFits, ReadPrologue, ReadXisf, ReadRaw,
             ReadFails, Close, Returns, vars
    <3>3. result'.outcome = "ok" => file.format \in {"fits", "xisf", "raw"}
      <4>1. CASE ReadFits \/ ReadXisf \/ ReadRaw
        BY <1>2, <4>1 DEF FrameOK, ReadFits, ReadXisf, ReadRaw
      <4>2. CASE \/ Open \/ FailToOpen \/ Unsupported \/ ReadPrologue \/ ReadFails \/ Close
                 \/ UNCHANGED vars
        <5>1. result'.outcome = "ok" => result' = result
          BY <4>2, OtherSteps
        <5> QED BY <1>2, <5>1 DEF FrameOK
      <4> QED BY <2>2, <4>1, <4>2 DEF Work
    <3> QED BY <1>2, <3>1, <3>2, <3>3 DEF FrameOK
  <2> QED BY <1>2, <2>1, <2>2 DEF Next
<1> QED BY <1>1, <1>2, FormInvariant, PTL DEF Spec

Rotator == "rotatorAngleDegrees"

\* The keywords of the two fields the properties are about.
LEMMA FieldsAre ==
  /\ "imageType" \in DOMAIN TextFields /\ TextFields["imageType"] = "IMAGETYP"
  /\ "imageType" \notin DOMAIN NumberFields /\ "imageType" \notin DOMAIN PropertyOf
  /\ Rotator \in DOMAIN NumberFields /\ NumberFields[Rotator] = "OBJCTROT"
  /\ Rotator \notin DOMAIN TextFields
  /\ "imageType" \in Fields /\ Rotator \in Fields
BY DEF TextFields, NumberFields, PropertyOf, Fields, Rotator

\* The two fields the properties are about, by format.
LEMMA FitsFields ==
  ASSUME NEW k
  PROVE  /\ FitsMetadata(k)["imageType"] = FitsStr(k, "IMAGETYP")
         /\ FitsMetadata(k)[Rotator] = FitsNum(k, "OBJCTROT")
         /\ DOMAIN FitsMetadata(k) = Fields
<1> USE FieldsAre
<1>1. DOMAIN FitsMetadata(k) = Fields
  BY DEF FitsMetadata
<1>2. FitsMetadata(k)["imageType"] = FitsStr(k, "IMAGETYP")
  BY DEF FitsMetadata
<1>3. FitsMetadata(k)[Rotator] = FitsNum(k, "OBJCTROT")
  BY DEF FitsMetadata, Rotator
<1> QED BY <1>1, <1>2, <1>3

\* The type that is read of a XISF header.
LEMMA XisfFields ==
  ASSUME NEW k, NEW p
  PROVE  /\ XisfMetadata(k, p)["imageType"] = XisfStr(k, "IMAGETYP")
         /\ DOMAIN XisfMetadata(k, p) = Fields
<1> USE FieldsAre
<1>1. DOMAIN XisfMetadata(k, p) = Fields
  BY DEF XisfMetadata
<1>2. XisfMetadata(k, p)["imageType"] = Or(XisfStr(k, "IMAGETYP"), StrProperty(p, "imageType"))
  BY DEF XisfMetadata
<1>3. StrProperty(p, "imageType") = Null
  BY DEF StrProperty
<1> QED BY <1>1, <1>2, <1>3 DEF Or

\* A RAW header gives neither type nor angle.
LEMMA RawFields ==
  ASSUME NEW k
  PROVE  /\ RawMetadata(k)["imageType"] = Null /\ RawMetadata(k)[Rotator] = Null
         /\ DOMAIN RawMetadata(k) = Fields
<1> USE FieldsAre
<1>1. DOMAIN RawMetadata(k) = Fields
  BY DEF RawMetadata
<1>2. RawMetadata(k)["imageType"] = Null
  BY DEF RawMetadata
<1>3. RawMetadata(k)[Rotator] = Null
  BY DEF RawMetadata, Rotator
<1> QED BY <1>1, <1>2, <1>3

\* A profile changes the rotator's angle alone, and only where there is none.
LEMMA ProfileIs ==
  ASSUME NEW m, NEW headers, DOMAIN m = Fields
  PROVE  LET profiled == ApplyCaptureProfile(m, headers)
         IN /\ profiled["imageType"] = m["imageType"]
            /\ m[Rotator] # Null \/ DetectProfile(headers) # "sgpro" => profiled[Rotator] = m[Rotator]
<1>1. ApplyCaptureProfile(m, headers) =
        IF DetectProfile(headers) = "sgpro" /\ m[Rotator] = Null
        THEN [m EXCEPT ![Rotator] = FitsNum(headers, "ANGLE")] ELSE m
  BY DEF ApplyCaptureProfile, AngleFixup, Rotator
<1>2. "imageType" # Rotator
  BY DEF Rotator
<1> QED BY <1>1, <1>2, FieldsAre

\* A path says what its deepest telling segment says.
LEMMA MatchPathIs ==
  ASSUME NEW path \in Seq(Seq(STRING))
  PROVE  \/ MatchPath(path) = Unknown /\ \A i \in 1..Len(path) : SegmentType(path[i]) = Unknown
         \/ /\ MatchPath(path) # Unknown
            /\ \E i \in 1..Len(path) : /\ SegmentType(path[i]) = MatchPath(path)
                                       /\ \A k \in (i + 1)..Len(path) : SegmentType(path[k]) = Unknown
<1> DEFINE n == Len(path)
           telling == {i \in 1..n : SegmentType(path[i]) # Unknown}
           i == Max(telling)
<1>1. n \in Nat /\ telling \in SUBSET (0..n)
  OBVIOUS
<1>2. CASE telling = {}
  BY <1>2 DEF MatchPath
<1>3. CASE telling # {}
  <2>1. i \in telling /\ \A k \in telling : k <= i
    <3> HIDE DEF telling
    <3> QED BY <1>1, <1>3, GreatestNumber
  <2>2. MatchPath(path) = SegmentType(path[i])
    BY <1>3 DEF MatchPath
  <2> HIDE DEF i
  <2>3. \A k \in (i + 1)..n : SegmentType(path[k]) = Unknown
    <3> SUFFICES ASSUME NEW k \in (i + 1)..n, SegmentType(path[k]) # Unknown PROVE FALSE
      OBVIOUS
    <3>1. k \in 1..n /\ i \in 1..n
      BY <1>1, <2>1
    <3>2. k \in telling
      BY <3>1
    <3>3. k <= i
      BY <2>1, <3>2
    <3> QED BY <3>1, <3>3
  <2> QED BY <2>1, <2>2, <2>3
<1> QED BY <1>2, <1>3

\* What a frame is made of.
LEMMA FrameIs ==
  ASSUME FrameOK, XisfOK, Done, result.outcome = "ok"
  PROVE  LET h == result.headers
             m == Metadata(h, result.properties)
         IN /\ DOMAIN m = Fields
            /\ m["imageType"] = Null \/ /\ "IMAGETYP" \in DOMAIN h
                                        /\ MatchImageType(m["imageType"]) = MatchImageType(h["IMAGETYP"])
            /\ file.format = "fits" => m[Rotator] = FitsNum(h, "OBJCTROT")
            /\ file.format = "xisf" => FitsNum(h, "ANGLE") = Null
            /\ file.format = "raw" => m[Rotator] = Null
            /\ file.format \in {"fits", "xisf", "raw"}
<1> DEFINE h == result.headers
           p == result.properties
           m == Metadata(h, p)
<1>1. file.format \in {"fits", "xisf", "raw"}
  BY DEF FrameOK
<1>2. CASE file.format = "fits"
  <2>1. m = FitsMetadata(h)
    BY <1>2 DEF Metadata
  <2> HIDE DEF h, m
  <2>2. m["imageType"] = FitsStr(h, "IMAGETYP") /\ m[Rotator] = FitsNum(h, "OBJCTROT")
        /\ DOMAIN m = Fields
    BY <2>1, FitsFields
  <2>3. m["imageType"] = Null \/ ("IMAGETYP" \in DOMAIN h /\ m["imageType"] = h["IMAGETYP"])
    BY <2>2 DEF FitsStr, Typed
  <2> QED BY <1>2, <2>2, <2>3 DEF h, m, p
<1>3. CASE file.format = "xisf"
  <2>1. m = XisfMetadata([k \in DOMAIN h |-> h[k].text], p)
    BY <1>3 DEF Metadata
  <2>2. \A k \in DOMAIN h : h[k].type = "string"
    <3> DEFINE items == SubSeq(file.units, 1, file.head.declared)
               a == AttributesOf(items, "FITSKeyword")
    <3>1. h = [k \in DOMAIN a |-> TextOf(a[k])]
      BY <1>3 DEF XisfOK, XisfRead, XisfSays, Done
    <3> HIDE DEF a, h
    <3> QED BY <3>1 DEF TextOf
  <2> DEFINE texts == [k \in DOMAIN h |-> h[k].text]
  <2>3. DOMAIN texts = DOMAIN h /\ \A k \in DOMAIN h : texts[k] = h[k].text
    OBVIOUS
  <2> HIDE DEF h, m, p, texts
  <2>4. m["imageType"] = XisfStr(texts, "IMAGETYP") /\ DOMAIN m = Fields
    BY <2>1, XisfFields DEF texts
  <2>5. FitsNum(h, "ANGLE") = Null
    BY <2>2 DEF FitsNum, Typed
  <2>6. m["imageType"] = Null \/ /\ "IMAGETYP" \in DOMAIN h
                                 /\ MatchImageType(m["imageType"]) = MatchImageType(h["IMAGETYP"])
    <3> SUFFICES ASSUME "IMAGETYP" \in DOMAIN h
                 PROVE  MatchImageType(m["imageType"]) = MatchImageType(h["IMAGETYP"])
      BY <2>3, <2>4 DEF XisfStr
    <3> DEFINE v == h["IMAGETYP"]
               w == m["imageType"]
    <3>1. w = TextOf(v.text) /\ v.type = "string"
      BY <2>2, <2>3, <2>4 DEF XisfStr
    <3> HIDE DEF v, w
    <3>2. w.text = v.text /\ w # Null /\ v # Null
      BY <3>1 DEF TextOf, Null
    <3>3. MatchImageType(w) = MatchImageType(v)
      BY <3>2 DEF MatchImageType
    <3> QED BY <3>3 DEF v, w
  <2> QED BY <1>3, <2>4, <2>5, <2>6 DEF h, m, p
<1>4. CASE file.format = "raw"
  <2> DEFINE k == ToKeywords(h)
  <2>1. m = RawMetadata(k)
    BY <1>4 DEF Metadata
  <2> HIDE DEF k, m
  <2>2. m["imageType"] = Null /\ m[Rotator] = Null /\ DOMAIN m = Fields
    BY <2>1, RawFields
  <2> QED BY <1>4, <2>2 DEF h, m, p
<1> QED BY <1>1, <1>2, <1>3, <1>4

-----------------------------------------------------------------------------
(* The properties.                                                          *)

(* A FITS header that is accepted is one, and its keywords are those of the cards up to END,
   wherever the blocks were cut and whatever was appended meanwhile; a header that is refused
   for its content is none: for any cards and any block size.                             *)
THEOREM FitsHeadersAreRead == Spec => []FitsHeaderIsTheFiles
<1>1. FitsOK => FitsHeaderIsTheFiles
  <2> SUFFICES ASSUME FitsOK, Done, file.format = "fits"
               PROVE  /\ result.outcome = "ok" => /\ IsHeader(file.units)
                                                  /\ result.headers = KeywordsOf(file.units)
                      /\ result.outcome \in FaultsOfContent => ~IsHeader(file.units)
    BY DEF FitsHeaderIsTheFiles
  <2>1. file.units \in Seq(FitsCards) /\ FitsRead
    BY DEF FitsOK, Done
  <2>2. Len(file.units) \in 0..Len(file.units)
    BY <2>1
  <2>3. ASSUME result.outcome = "ok"
        PROVE  IsHeader(file.units) /\ result.headers = KeywordsOf(file.units)
    BY <2>1, <2>2, <2>3, EndedIsHeader DEF FitsRead
  <2>4. ASSUME result.outcome \in FaultsOfContent
        PROVE  ~IsHeader(file.units)
    BY <2>1, <2>2, <2>4, RefusedIsNone DEF FitsRead
  <2> QED BY <2>3, <2>4
<1> QED BY FitsInvariant, <1>1, PTL

(* A XISF header that is accepted is nested as XML must be and gives the last element of each
   key, wherever it stands; one refused as malformed is not well nested, so that one which is,
   but for a reference beyond Unicode, is neither: for any items, any declared length and
   whatever is appended meanwhile.                                                        *)
THEOREM XisfHeadersAreRead == Spec => []XisfHeaderIsTheFiles
<1>1. XisfOK => XisfHeaderIsTheFiles
  BY DEF XisfOK, XisfRead, XisfSays, XisfHeaderIsTheFiles, Done
<1> QED BY XisfInvariant, <1>1, PTL

(* No read goes past the block of the END card, the bound on blocks or the declared length. *)
THEOREM ReadsEndWithTheHeader == Spec => []ReadsStayInTheHeader
<1>1. FitsOK /\ file.format = "fits" =>
        /\ extent <= MaxHeaderBlocks * CardsPerBlock
        /\ EndCards(file.units) # {} => extent < HeaderEnd(file.units) + CardsPerBlock
  <2> SUFFICES ASSUME FitsOK, file.format = "fits", EndCards(file.units) # {}
               PROVE  extent < HeaderEnd(file.units) + CardsPerBlock
    BY DEF FitsOK
  <2> DEFINE ends == EndCards(file.units)
             e == HeaderEnd(file.units)
             n == extent - CardsPerBlock
  <2>1. /\ file.units \in Seq(FitsCards) /\ extent \in Nat /\ CardsPerBlock \in Nat
        /\ CardsPerBlock > 0 /\ (extent = 0 \/ NoEndBefore(n))
    BY BlocksAssumption DEF FitsOK
  <2>2. ends \in SUBSET Nat /\ \A i \in ends : IsEnd(file.units, i)
    BY DEF EndCards, IsEnd
  <2>3. e \in ends
    <3> HIDE DEF ends
    <3>1. ends # {}
      BY DEF ends
    <3>2. Min(ends) \in ends
      BY <2>2, <3>1, LeastNumber
    <3> QED BY <3>2 DEF HeaderEnd, ends
  <2>4. e \in Nat /\ e >= 2 /\ IsEnd(file.units, e)
    BY <2>2, <2>3 DEF EndCards
  <2> HIDE DEF e
  <2>5. CASE extent = 0
    BY <2>1, <2>4, <2>5 DEF e
  <2>6. CASE NoEndBefore(n)
    <3>1. ~(e \in 1..n)
      BY <2>4, <2>6 DEF NoEndBefore
    <3>2. n < e
      BY <2>1, <2>4, <3>1
    <3>3. extent < e + CardsPerBlock
      BY <2>1, <2>4, <3>2
    <3> QED BY <3>3 DEF e
  <2> QED BY <2>1, <2>5, <2>6
<1>2. XisfOK /\ file.format = "xisf" => extent <= file.head.declared
  BY DEF XisfOK
<1>3. FitsOK /\ XisfOK => ReadsStayInTheHeader
  BY <1>1, <1>2 DEF ReadsStayInTheHeader
<1> QED BY FitsInvariant, XisfInvariant, <1>3, PTL

(* The tags of a RAW file that is accepted are those of Canon's blocks, the last that has one
   deciding it, or, where no block gives any, the whole file's.  One that has a block exifr
   throws on is never accepted, whatever its other blocks hold; one is refused for no other
   reason but that exifr throws on the whole: for any boxes, and whatever is appended
   meanwhile.                                                                             *)
THEOREM RawHeadersAreRead == Spec => []RawHeaderIsTheFiles
<1> DEFINE boxes == SubSeq(file.units, 1, extent)
           a == [RawFile EXCEPT !.boxes = SubSeq(@, 1, extent)]
           b == [boxes |-> boxes]
<1>1. CanonBoxes(a) = CanonBoxes(b)
  <2>1. a = [RawFile EXCEPT !.boxes = boxes]
    BY RawFileIs
  <2>2. a.boxes = b.boxes
    <3> HIDE DEF boxes
    <3> QED BY <2>1, RawFileIs
  <2> HIDE DEF a, b
  <2> QED BY <2>2, CanonOfBoxes
<1>2. RawReadOK => RawHeaderIsTheFiles
  <2>1. CanonIn(file, extent) = IF file.head.brand = "crx" THEN CanonBoxes(a) ELSE {}
    BY <1>1 DEF CanonIn
  <2> QED BY <2>1 DEF RawReadOK, RawRead, RawFaults, TagsComeFrom, RefusedFor, OneThrows,
                      SomeTags, RawHeaderIsTheFiles, Done
<1> QED BY RawInvariant, <1>2, PTL

(* A frame has its type from an IMAGETYP of its header, or from the deepest segment of its path
   that says one; it is unknown only when neither does: for any header and any path.      *)
THEOREM TypesHaveEvidence == Spec => []FrameTypeHasEvidence
<1>1. FrameOK /\ XisfOK => FrameTypeHasEvidence
  <2> SUFFICES ASSUME FrameOK, XisfOK, Done, result.outcome = "ok"
               PROVE  LET class == Frame.class
                          says(i) == SegmentType(file.path[i])
                      IN /\ class.source = "header" =>
                              /\ "IMAGETYP" \in DOMAIN result.headers
                              /\ class.frameType = MatchImageType(result.headers["IMAGETYP"])
                         /\ class.frameType = Unknown => \A i \in 1..Len(file.path) : says(i) = Unknown
                         /\ class.source = "path_heuristic" /\ class.frameType # Unknown =>
                              \E i \in 1..Len(file.path) :
                                /\ says(i) = class.frameType
                                /\ \A k \in (i + 1)..Len(file.path) : says(k) = Unknown
    BY DEF FrameTypeHasEvidence
  <2> DEFINE h == result.headers
             m == Metadata(h, result.properties)
             profiled == ApplyCaptureProfile(m, h)
             class == ClassifyFrame(profiled, file.path)
             header == MatchImageType(m["imageType"])
  <2>1. Frame.class = class
    BY DEF Frame
  <2>2. /\ DOMAIN m = Fields
        /\ m["imageType"] = Null \/ ("IMAGETYP" \in DOMAIN h /\ header = MatchImageType(h["IMAGETYP"]))
    BY FrameIs
  <2> HIDE DEF m
  <2>3. profiled["imageType"] = m["imageType"]
    BY <2>2, ProfileIs
  <2> HIDE DEF profiled
  <2>4. class = IF header # Unknown THEN [frameType |-> header, source |-> "header"]
                ELSE [frameType |-> MatchPath(file.path), source |-> "path_heuristic"]
    BY <2>3 DEF ClassifyFrame
  <2>5. m["imageType"] = Null => header = Unknown
    BY DEF MatchImageType
  <2> HIDE DEF class, header, h
  <2>6. file.path \in Seq(Seq(STRING))
    BY DEF FrameOK
  <2>7. CASE header # Unknown
    <3>1. class.source = "header" /\ class.frameType = header
      BY <2>4, <2>7
    <3> QED BY <2>1, <2>2, <2>5, <2>7, <3>1 DEF h
  <2>8. CASE header = Unknown
    <3>1. class.source = "path_heuristic" /\ class.frameType = MatchPath(file.path)
      BY <2>4, <2>8
    <3> QED BY <2>1, <2>6, <3>1, MatchPathIs
  <2> QED BY <2>7, <2>8
<1> QED BY FrameInvariant, XisfInvariant, <1>1, PTL

(* A capture profile replaces nothing a header says, and only SGPro's reads ANGLE: for any
   header and any order of its keywords.                                                  *)
THEOREM ProfilesFillGaps == Spec => []ProfileFillsGaps
<1>1. FrameOK /\ XisfOK => ProfileFillsGaps
  <2> SUFFICES ASSUME FrameOK, XisfOK, Done, result.outcome = "ok"
               PROVE  LET angle(k) == FitsNum(result.headers, k)
                          rotator == Frame.metadata["rotatorAngleDegrees"]
                      IN /\ file.format = "fits" /\ angle("OBJCTROT") # Null =>
                              rotator = angle("OBJCTROT")
                         /\ DetectProfile(result.headers) # "sgpro" =>
                              rotator # angle("ANGLE") \/ angle("ANGLE") \in {Null, angle("OBJCTROT")}
    BY DEF ProfileFillsGaps
  <2> DEFINE h == result.headers
             m == Metadata(h, result.properties)
             profiled == ApplyCaptureProfile(m, h)
  <2>1. Frame.metadata["rotatorAngleDegrees"] = profiled[Rotator]
    BY DEF Frame, Rotator
  <2>2. /\ DOMAIN m = Fields
        /\ file.format = "fits" => m[Rotator] = FitsNum(h, "OBJCTROT")
        /\ file.format = "xisf" => FitsNum(h, "ANGLE") = Null
        /\ file.format = "raw" => m[Rotator] = Null
        /\ file.format \in {"fits", "xisf", "raw"}
    BY FrameIs
  <2> HIDE DEF m
  <2>3. m[Rotator] # Null \/ DetectProfile(h) # "sgpro" => profiled[Rotator] = m[Rotator]
    BY <2>2, ProfileIs
  <2> HIDE DEF profiled, h
  <2>4. file.format = "fits" /\ FitsNum(h, "OBJCTROT") # Null => profiled[Rotator] = FitsNum(h, "OBJCTROT")
    BY <2>2, <2>3
  <2>5. DetectProfile(h) # "sgpro" =>
          profiled[Rotator] # FitsNum(h, "ANGLE") \/ FitsNum(h, "ANGLE") \in {Null, FitsNum(h, "OBJCTROT")}
    BY <2>2, <2>3
  <2> QED BY <2>1, <2>4, <2>5 DEF h
<1> QED BY FrameInvariant, XisfInvariant, <1>1, PTL

=============================================================================
