----------------------------- MODULE PanelsProofs -----------------------------
(***************************************************************************)
(* Proofs about the panels, for any folders, pool, jobs, loads of the page *)
(* and calls and messages on their way.                                    *)
(*                                                                         *)
(* What the window shows may be behind what the main process does, but     *)
(* then the news is on its way.  The inductive invariant says so of each   *)
(* thing shown and of each message on the wire: if it is not true of the   *)
(* main process any more, then a later message replaces it, or the call    *)
(* that brings one has been made.                                          *)
(***************************************************************************)
EXTENDS Panels, WellFoundedInduction, FiniteSetTheorems, SequenceTheorems, TLAPS

-----------------------------------------------------------------------------
(* Types.                                                                   *)

Statuses == {"queued", "running", "over"}
Modes == {"off", "watching", "fallback"}
Labels == {"on", "off", "absent"}
Askers == {"mount", "toggle", "remove", "closed"}
Answers == {"jobs.enqueueScan", "watchFolders.remove", "enable", "disable"}

Calls ==
  [call : {"jobs.list"}, folder : {NoFolder}, life : Nat]
    \cup [call : {"watchFolders.list"}, folder : {NoFolder}, life : Nat, asker : Askers]
    \cup [call : Answers, folder : Folders, life : Nat]

Seeds == {NoEvent} \cup [job : Nat, status : Active]

Messages ==
  [msg : {"progress"}, job : Nat, status : Statuses]
    \cup [msg : {"status"}, folder : Folders, mode : Modes]
    \cup [msg : {"jobs.list"}, life : Nat, seed : Seeds]
    \cup [msg : {"watchFolders.list"}, life : Nat, asker : Askers, rows : [Folders -> Labels]]
    \cup [msg : Answers, folder : Folders, life : Nat, ok : BOOLEAN, job : Nat]

MainTypes ==
  /\ jobs \in Seq([folder : Folders, status : Statuses])
  /\ kept \in SUBSET Folders
  /\ flag \in [Folders -> BOOLEAN]
  /\ mode \in [Folders -> Modes \cup {"forgotten"}]
  /\ ready \in [Folders -> BOOLEAN]
  /\ waiting \in [Folders -> SUBSET Nat]
  /\ \A f \in Folders : IsFiniteSet(waiting[f])

ChannelTypes == calls \in Seq(Calls) /\ wire \in Seq(Messages)

WindowTypes ==
  /\ life \in Nat /\ page \in Nat
  /\ header \in Seeds
  /\ ended \in BOOLEAN /\ tools \in BOOLEAN
  /\ listed \in [Folders -> Labels]
  /\ scanEvents \in [Folders -> {NoEvent} \cup [job : Nat, status : Statuses]]
  /\ watchStatus \in [Folders -> Modes \cup {"none"}]

(* What is on its way names jobs there are and lives there were.           *)
MovesHeader(m) ==
  \/ m.msg = "progress"
  \/ m.msg = "jobs.list" /\ m.life = page /\ m.seed # NoEvent

EventOf(m) ==
  IF m.msg = "progress" THEN [job |-> m.job, status |-> m.status] ELSE m.seed

IsStarted(m) == m.msg = "jobs.enqueueScan" /\ m.ok

Names(m) ==
  /\ MovesHeader(m) => EventOf(m).job \in 1..Len(jobs)
  /\ IsStarted(m) => /\ m.life <= life
                     /\ m.job \in 1..Len(jobs) /\ jobs[m.job].folder = m.folder

Bounds ==
  /\ page <= life
  /\ tools => page # 0
  /\ page = 0 => wire = <<>> /\ header = NoEvent
  /\ header # NoEvent => header.job \in 1..Len(jobs)
  /\ \A n \in 1..Len(calls) : calls[n].life <= life
  /\ \A n \in 1..Len(wire) : Names(wire[n])
  /\ \A i \in DOMAIN folderByJob : i \in 1..Len(jobs) /\ folderByJob[i] = jobs[i].folder

-----------------------------------------------------------------------------
(* What is shown, or will be, and is not true is replaced later.            *)

IsPast(event) == event.status \in Active /\ jobs[event.job].status # event.status

HeaderComesTrue ==
  /\ IsPast(header) => \E k \in 1..Len(wire) : MovesHeader(wire[k])
  /\ \A n \in 1..Len(wire) :
       MovesHeader(wire[n]) /\ IsPast(EventOf(wire[n])) =>
         \E k \in n+1..Len(wire) : MovesHeader(wire[k])

SeedIsAsked == \E n \in 1..Len(calls) : calls[n].call = "jobs.list" /\ calls[n].life = page

WorkComesUp ==
  page # 0 /\ ~ended =>
    /\ \A n \in 1..Len(wire) : wire[n].msg = "progress" => wire[n].status \in Active
    /\ \/ ActiveJobs = {} \/ header # NoEvent \/ SeedIsAsked
       \/ \E n \in 1..Len(wire) : MovesHeader(wire[n])

(* The rows know a job from the reply that names it on.                    *)
TellsRow(m) == IsStarted(m) /\ m.life = life

Told(i, n) ==
  \/ i \in DOMAIN folderByJob
  \/ \E k \in 1..n-1 : TellsRow(wire[k]) /\ wire[k].job = i

MovesRow(n, f) ==
  \/ wire[n].msg = "progress" /\ Told(wire[n].job, n) /\ jobs[wire[n].job].folder = f
  \/ TellsRow(wire[n]) /\ wire[n].folder = f

IsOver(i) == jobs[i].status = "over"

MissesTheEnd(m) == IsOver(m.job) /\ ~(m.msg = "progress" /\ m.status = "over")

RowComesTrue(f) ==
  LET scans == {i \in DOMAIN folderByJob : jobs[i].folder = f}
  IN /\ scans # {} /\ (\A i \in scans : IsOver(i)) /\ scanEvents[f].status # "over" =>
          \E k \in 1..Len(wire) : MovesRow(k, f)
     /\ \A n \in 1..Len(wire) :
          MovesRow(n, f) /\ MissesTheEnd(wire[n]) => \E k \in n+1..Len(wire) : MovesRow(k, f)

Reports(m, f) == m.msg = "status" /\ m.folder = f

FlagsAreFollowed ==
  \A f \in Folders : mode[f] # "forgotten" => f \in kept /\ (flag[f] <=> mode[f] # "off")

ModeComesTrue(f) ==
  /\ tools /\ watchStatus[f] \notin {"none", mode[f]} => \E k \in 1..Len(wire) : Reports(wire[k], f)
  /\ \A n \in 1..Len(wire) :
       Reports(wire[n], f) /\ wire[n].mode # mode[f] => \E k \in n+1..Len(wire) : Reports(wire[k], f)

IsList(m) == m.msg = "watchFolders.list" /\ m.life >= page

ListIsAsked == \E n \in 1..Len(calls) : calls[n].call = "watchFolders.list" /\ calls[n].life >= page

IsStale(label, f) == label \notin {"absent", IF flag[f] THEN "on" ELSE "off"}

ListComesTrue(f) ==
  \/ watchStatus[f] # "none" \/ ListIsAsked
  \/ \E k \in 1..Len(wire) : Reports(wire[k], f)
  \/ /\ IsStale(listed[f], f) => \E k \in 1..Len(wire) : IsList(wire[k])
     /\ \A n \in 1..Len(wire) :
          IsList(wire[n]) /\ IsStale(wire[n].rows[f], f) => \E k \in n+1..Len(wire) : IsList(wire[k])

PanelTypes == MainTypes /\ ChannelTypes /\ WindowTypes

PanelInvariant ==
  /\ PanelTypes /\ Bounds
  /\ HeaderComesTrue /\ WorkComesUp /\ FlagsAreFollowed
  /\ tools => \A f \in Folders : RowComesTrue(f)
  /\ \A f \in Folders : mode[f] # "forgotten" =>
       ModeComesTrue(f) /\ (tools => ListComesTrue(f))

-----------------------------------------------------------------------------
(* The invariant says what the properties say once all is heard.            *)

\* With an empty wire nothing can be replaced any more, so what is shown is true.
LEMMA InvariantShowsTruth ==
  PanelInvariant => HeaderIsTrue /\ HeaderShowsWork /\ RowShowsTheEnd /\ RowTellsTheMode
<1> SUFFICES ASSUME PanelInvariant
             PROVE  HeaderIsTrue /\ HeaderShowsWork /\ RowShowsTheEnd /\ RowTellsTheMode
  OBVIOUS
<1>1. wire = <<>> => Len(wire) = 0
  OBVIOUS
<1>2. HeaderIsTrue
  BY <1>1 DEF PanelInvariant, HeaderComesTrue, IsPast, HeaderIsTrue, Heard, PanelTypes,
              WindowTypes, Seeds
<1>3. HeaderShowsWork
  BY <1>1 DEF PanelInvariant, WorkComesUp, SeedIsAsked, HeaderShowsWork, Heard
<1>4. RowShowsTheEnd
  <2> SUFFICES ASSUME NEW f \in Folders, Heard, tools,
                      {i \in DOMAIN folderByJob : folderByJob[i] = f} # {},
                      {i \in DOMAIN folderByJob : folderByJob[i] = f} \cap ActiveJobs = {}
               PROVE  scanEvents[f].status = "over"
    BY DEF RowShowsTheEnd
  <2>1. \A i \in DOMAIN folderByJob : i \in 1..Len(jobs) /\ folderByJob[i] = jobs[i].folder
    BY DEF PanelInvariant, Bounds
  <2>2. \A i \in 1..Len(jobs) : jobs[i].status \in Statuses
    <3>1. jobs \in Seq([folder : Folders, status : Statuses])
      BY DEF PanelInvariant, PanelTypes, MainTypes
    <3>2. \A i \in 1..Len(jobs) : jobs[i] \in [folder : Folders, status : Statuses]
      BY <3>1, ElementOfSeq
    <3> QED BY <3>2
  <2>3. ASSUME NEW i \in DOMAIN folderByJob, jobs[i].folder = f PROVE IsOver(i)
    BY <2>1, <2>2, <2>3 DEF ActiveJobs, Active, Statuses, IsOver
  <2> QED BY <1>1, <2>1, <2>3 DEF PanelInvariant, RowComesTrue, Heard
<1>5. RowTellsTheMode
  <2> SUFFICES ASSUME Heard, tools, calls = <<>>, NEW f \in Folders,
                      listed[f] # "absent", mode[f] # "forgotten"
               PROVE  /\ (IF watchStatus[f] = "none"
                          THEN IF listed[f] = "on" THEN "watching" ELSE "off"
                          ELSE watchStatus[f]) = "off" <=> mode[f] = "off"
                      /\ watchStatus[f] # "none" => watchStatus[f] = mode[f]
    BY DEF RowTellsTheMode
  <2>1. Len(calls) = 0
    OBVIOUS
  <2>2. ModeComesTrue(f) /\ ListComesTrue(f) /\ (flag[f] <=> mode[f] # "off")
    BY DEF PanelInvariant, FlagsAreFollowed
  <2>3. watchStatus[f] \in {"none", mode[f]}
    BY <1>1, <2>2 DEF ModeComesTrue, Heard
  <2>4. watchStatus[f] = "none" => ~IsStale(listed[f], f)
    BY <1>1, <2>1, <2>2 DEF ListComesTrue, ListIsAsked, Heard
  <2>5. watchStatus[f] = "none" => (listed[f] = "on" <=> mode[f] # "off")
    BY <2>2, <2>4 DEF IsStale
  <2> QED BY <2>3, <2>5
<1> QED BY <1>2, <1>3, <1>4, <1>5

\* Nothing is shown and nothing is on its way yet.
LEMMA PanelInit == Init => PanelInvariant
<1> SUFFICES ASSUME Init PROVE PanelInvariant
  OBVIOUS
<1> USE DEF Init
<1>1. Len(wire) = 0 /\ Len(calls) = 0 /\ Len(jobs) = 0 /\ DOMAIN folderByJob = {}
  OBVIOUS
<1>2. MainTypes
  BY FS_EmptySet DEF MainTypes, Modes
<1>3. ChannelTypes
  BY DEF ChannelTypes
<1>4. WindowTypes
  BY DEF WindowTypes, Seeds, Labels
<1>5. Bounds
  BY <1>1 DEF Bounds
<1>6. HeaderComesTrue
  BY <1>1 DEF HeaderComesTrue, IsPast, NoEvent, Active
<1>7. WorkComesUp
  BY DEF WorkComesUp
<1>8. FlagsAreFollowed
  BY DEF FlagsAreFollowed
<1>9. \A f \in Folders : ModeComesTrue(f)
  BY <1>1 DEF ModeComesTrue
<1> QED BY <1>2, <1>3, <1>4, <1>5, <1>6, <1>7, <1>8, <1>9 DEF PanelInvariant, PanelTypes
-----------------------------------------------------------------------------
(* Small facts.                                                             *)

\* What the sending of M leaves on the wire.
Carries(M) ==
  /\ Len(wire') = Len(wire) + Len(M)
  /\ \A n \in 1..Len(wire) : wire'[n] = wire[n]
  /\ \A k \in 1..Len(M) : wire'[Len(wire) + k] = M[k]

\* Sending appends to the wire once there is a page.
LEMMA SendCarries ==
  ASSUME PanelTypes, NEW M \in Seq(Messages), Send(M)
  PROVE  /\ wire' \in Seq(Messages) /\ Len(wire) \in Nat /\ Len(M) \in Nat
         /\ page # 0 => Carries(M)
         /\ page = 0 => wire' = wire
<1>1. wire \in Seq(Messages)
  BY DEF PanelTypes, ChannelTypes
<1>2. CASE page = 0
  BY <1>1, <1>2, LenProperties DEF Send
<1>3. CASE page # 0
  <2>1. wire' = wire \o M
    BY <1>3 DEF Send
  <2>2. Len(wire) \in Nat /\ Len(M) \in Nat
    BY <1>1, LenProperties
  <2>3. /\ wire \o M \in Seq(Messages)
        /\ Len(wire \o M) = Len(wire) + Len(M)
        /\ \A i \in 1..Len(wire) + Len(M) :
             (wire \o M)[i] = IF i <= Len(wire) THEN wire[i] ELSE M[i - Len(wire)]
    BY <1>1, ConcatProperties
  <2>4. \A n \in 1..Len(wire) : wire'[n] = wire[n]
    BY <2>1, <2>2, <2>3
  <2>5. ASSUME NEW k \in 1..Len(M) PROVE wire'[Len(wire) + k] = M[k]
    <3>1. Len(wire) + k \in 1..Len(wire) + Len(M) /\ ~(Len(wire) + k <= Len(wire))
          /\ Len(wire) + k - Len(wire) = k
      BY <2>2
    <3> QED BY <2>1, <2>3, <3>1
  <2> QED BY <1>3, <2>1, <2>2, <2>3, <2>4, <2>5 DEF Carries
<1> QED BY <1>2, <1>3

\* CHOOSE finds the least of some numbers.
LEMMA LeastOfNats ==
  ASSUME NEW T \in SUBSET Nat, T # {}
  PROVE  Min(T) \in T
<1> DEFINE Less == OpToRel(<, Nat)
<1>1. IsWellFoundedOn(Less, Nat)
  BY NatLessThanWellFounded
<1>2. \A x, y \in Nat : x < y => <<x, y>> \in Less
  BY DEF OpToRel
<1>3. IsWellFoundedOn(Less, T)
  BY <1>1, IsWellFoundedOnSubset
<1> HIDE DEF Less
<1>4. PICK x \in T : \A y \in T : ~(<<y, x>> \in Less)
  BY <1>1, WFMin
<1>5. ASSUME NEW y \in T PROVE x <= y
  <2>1. x \in Nat /\ y \in Nat /\ ~(y < x)
    BY <1>2, <1>4
  <2> QED BY <2>1
<1>6. \E z \in T : \A y \in T : z =< y
  BY <1>5
<1> QED BY <1>6 DEF Min

\* The answers to those who wait are replies to enable().
LEMMA AnswersAreReplies ==
  ASSUME PanelTypes, NEW f \in Folders
  PROVE  /\ Answer(f) \in Seq(Messages)
         /\ \A k \in 1..Len(Answer(f)) : Answer(f)[k].msg = "enable"
<1> DEFINE R(l) == Reply([call |-> "enable", folder |-> f, life |-> l], TRUE, 0)
           S == {R(l) : l \in waiting[f]}
<1>1. waiting[f] \subseteq Nat /\ IsFiniteSet(waiting[f])
  BY DEF PanelTypes, MainTypes
<1>2. \A l \in waiting[f] : R(l) \in Messages /\ R(l).msg = "enable"
  BY <1>1 DEF Reply, Messages, Answers
<1> HIDE DEF R
<1>3. IsFiniteSet(S)
  <2>1. [l \in waiting[f] |-> R(l)] \in Surjection(waiting[f], S)
    BY DEF Surjection
  <2> QED BY <1>1, <2>1, FS_Surjection
<1>4. S \subseteq Messages /\ \A m \in S : m.msg = "enable"
  BY <1>2
<1>5. Answer(f) = SetToSeq(S)
  BY DEF Answer, R
<1> HIDE DEF S
<1>6. Cardinality(S) \in Nat /\ ExistsBijection(1..Cardinality(S), S)
  BY <1>3, FS_CardinalityType
<1>7. PICK g \in Bijection(1..Cardinality(S), S) : TRUE
  BY <1>6 DEF ExistsBijection
<1>8. \E g2 \in [1..Cardinality(S) -> S] : IsInjective(g2)
  BY <1>7 DEF Bijection, Injection
<1>9. SetToSeq(S) \in [1..Cardinality(S) -> S]
  BY <1>8 DEF SetToSeq
<1>10. SetToSeq(S) \in Seq(S)
  BY <1>6, <1>9
<1>11. Len(SetToSeq(S)) = Cardinality(S)
  BY <1>6, <1>9, <1>10, LenProperties
<1> QED BY <1>4, <1>5, <1>9, <1>10, <1>11, SeqMonotonic
-----------------------------------------------------------------------------
(* The main process goes on and sends M: the news must be true, and nothing *)
(* shown may change without any.                                            *)

WindowWaits ==
  UNCHANGED <<life, page, header, tools, listed, folderByJob, scanEvents, watchStatus>>

JobsStay ==
  /\ Len(jobs) \in Nat /\ Len(jobs') \in Nat /\ Len(jobs) <= Len(jobs')
  /\ \A i \in 1..Len(jobs) : jobs'[i].folder = jobs[i].folder

NewsOfJobs(M) ==
  /\ \A i \in 1..Len(jobs) :
       /\ jobs'[i].status # jobs[i].status => \E k \in 1..Len(M) : MovesHeader(M[k])
       /\ IsOver(i)' /\ ~IsOver(i) =>
            \E k \in 1..Len(M) : M[k].msg = "progress" /\ M[k].job = i
  /\ ended' # ended => ended' = TRUE
  /\ ActiveJobs' # {} /\ (ActiveJobs = {} \/ (SeedIsAsked /\ ~SeedIsAsked')) =>
       \E k \in 1..Len(M) : MovesHeader(M[k])
  /\ \A k \in 1..Len(M) :
       /\ Names(M[k])'
       /\ MovesHeader(M[k]) /\ IsPast(EventOf(M[k]))' =>
            \E l \in k+1..Len(M) : MovesHeader(M[l])
       /\ M[k].msg = "progress" => M[k].status \in Active \/ ended'
       /\ M[k].msg = "progress" \/ IsStarted(M[k]) => ~MissesTheEnd(M[k])'

NewsOfFolders(M) ==
  /\ ListIsAsked => ListIsAsked' \/ \E k \in 1..Len(M) : IsList(M[k])
  /\ \A f \in Folders : mode'[f] # "forgotten" =>
       /\ mode[f] # "forgotten"
       /\ mode'[f] # mode[f] \/ flag'[f] # flag[f] => \E k \in 1..Len(M) : Reports(M[k], f)
       /\ \A k \in 1..Len(M) :
            /\ Reports(M[k], f) => M[k].mode = mode'[f]
            /\ IsList(M[k]) => ~IsStale(M[k].rows[f], f)'

\* A position on the wire after the step is one of before or one of M.
LEMMA WireAfter ==
  ASSUME NEW M, Carries(M), Len(wire) \in Nat, Len(M) \in Nat, NEW n \in 1..Len(wire')
  PROVE  \/ n \in 1..Len(wire) /\ wire'[n] = wire[n]
         \/ \E k \in 1..Len(M) : n = Len(wire) + k /\ wire'[n] = M[k]
<1>1. CASE n \in 1..Len(wire)
  BY <1>1 DEF Carries
<1>2. CASE n \notin 1..Len(wire)
  <2>1. n - Len(wire) \in 1..Len(M) /\ n = Len(wire) + (n - Len(wire))
    BY <1>2 DEF Carries
  <2> QED BY <2>1 DEF Carries
<1> QED BY <1>1, <1>2

\* The indicator: what is new of the jobs is told last.
LEMMA HeaderNews ==
  ASSUME PanelInvariant, PanelTypes', WindowWaits, page # 0, NEW M, Carries(M), Len(wire) \in Nat,
         Len(M) \in Nat, JobsStay, NewsOfJobs(M)
  PROVE  HeaderComesTrue' /\ WorkComesUp'
<1>1. \A m : MovesHeader(m)' <=> MovesHeader(m)
  BY DEF WindowWaits, MovesHeader
<1>2. \A n \in 1..Len(wire) : n \in 1..Len(wire') /\ wire'[n] = wire[n]
  BY DEF Carries
<1>3. \A k \in 1..Len(M) : Len(wire) + k \in 1..Len(wire') /\ wire'[Len(wire) + k] = M[k]
  BY DEF Carries
<1>4. ASSUME NEW e, e.job \in 1..Len(jobs), IsPast(e)', ~ \E k \in 1..Len(M) : MovesHeader(M[k])
      PROVE  IsPast(e)
  BY <1>4 DEF IsPast, NewsOfJobs, JobsStay
<1>5. HeaderComesTrue'
  <2>1. ASSUME IsPast(header)' PROVE \E k \in 1..Len(wire') : MovesHeader(wire'[k])
    <3>1. CASE \E k \in 1..Len(M) : MovesHeader(M[k])
      BY <1>3, <3>1
    <3>2. CASE ~ \E k \in 1..Len(M) : MovesHeader(M[k])
      <4>1. header' = header /\ header # NoEvent
        BY <2>1 DEF WindowWaits, IsPast, NoEvent, Active
      <4>2. IsPast(header)
        BY <1>4, <2>1, <3>2, <4>1 DEF PanelInvariant, Bounds
      <4> QED BY <1>2, <4>2 DEF PanelInvariant, HeaderComesTrue
    <3> QED BY <3>1, <3>2
  <2>2. ASSUME NEW n \in 1..Len(wire'), MovesHeader(wire'[n]), IsPast(EventOf(wire[n]))'
        PROVE  \E k \in n+1..Len(wire') : MovesHeader(wire'[k])
    <3>1. CASE n \in 1..Len(wire)
      <4>1. wire'[n] = wire[n] /\ EventOf(wire[n])' = EventOf(wire[n])
        BY <1>2, <3>1 DEF EventOf
      <4>2. CASE \E k \in 1..Len(M) : MovesHeader(M[k])
        <5>1. PICK k \in 1..Len(M) : MovesHeader(M[k])
          BY <4>2
        <5>2. Len(wire) + k \in n+1..Len(wire')
          BY <3>1 DEF Carries
        <5> QED BY <1>3, <5>1, <5>2
      <4>3. CASE ~ \E k \in 1..Len(M) : MovesHeader(M[k])
        <5>1. EventOf(wire[n]).job \in 1..Len(jobs)
          BY <2>2, <3>1, <4>1 DEF PanelInvariant, Bounds, Names
        <5>2. IsPast(EventOf(wire[n]))
          <6> DEFINE e == EventOf(wire[n])
          <6>1. PICK x : x = EventOf(wire[n])
            OBVIOUS
          <6>2. IsPast(x)'
            BY <2>2, <4>1, <6>1
          <6> QED BY <1>4, <4>3, <5>1, <6>1, <6>2
        <5>3. PICK k \in n+1..Len(wire) : MovesHeader(wire[k])
          BY <2>2, <3>1, <4>1, <5>2 DEF PanelInvariant, HeaderComesTrue
        <5>4. k \in 1..Len(wire) /\ k \in n+1..Len(wire')
          BY <3>1 DEF Carries
        <5> QED BY <1>2, <5>3, <5>4
      <4> QED BY <4>2, <4>3
    <3>2. CASE \E k \in 1..Len(M) : n = Len(wire) + k /\ wire'[n] = M[k]
      <4>1. PICK k \in 1..Len(M) : n = Len(wire) + k /\ wire'[n] = M[k]
        BY <3>2
      <4>2. EventOf(wire[n])' = EventOf(M[k])
        BY <4>1 DEF EventOf
      <4>3. IsPast(EventOf(M[k]))'
        BY <2>2, <4>2 DEF IsPast, EventOf
      <4>4. PICK l \in k+1..Len(M) : MovesHeader(M[l])
        BY <2>2, <4>1, <4>3 DEF NewsOfJobs, JobsStay
      <4>5. Len(wire) + l \in n+1..Len(wire') /\ l \in 1..Len(M)
        BY <4>1 DEF Carries
      <4> QED BY <1>3, <4>4, <4>5
    <3> QED BY <3>1, <3>2, WireAfter
  <2> QED BY <1>1, <2>1, <2>2 DEF HeaderComesTrue
<1>6. WorkComesUp'
  <2> SUFFICES ASSUME ~ended'
               PROVE  /\ \A n \in 1..Len(wire') : wire'[n].msg = "progress" => wire'[n].status \in Active
                      /\ \/ ActiveJobs' = {} \/ header' # NoEvent \/ SeedIsAsked'
                         \/ \E n \in 1..Len(wire') : MovesHeader(wire'[n])
    BY <1>1 DEF WorkComesUp
  <2>1. ~ended
    BY DEF NewsOfJobs, JobsStay
  <2>2. ASSUME NEW n \in 1..Len(wire'), wire'[n].msg = "progress" PROVE wire'[n].status \in Active
    <3>1. CASE n \in 1..Len(wire) /\ wire'[n] = wire[n]
      BY <2>1, <2>2, <3>1 DEF PanelInvariant, WorkComesUp
    <3>2. CASE \E k \in 1..Len(M) : n = Len(wire) + k /\ wire'[n] = M[k]
      BY <2>2, <3>2 DEF NewsOfJobs, JobsStay
    <3> QED BY <3>1, <3>2, WireAfter
  <2>3. ASSUME ActiveJobs' # {}, header' = NoEvent, ~SeedIsAsked'
        PROVE  \E n \in 1..Len(wire') : MovesHeader(wire'[n])
    <3>1. CASE \E k \in 1..Len(M) : MovesHeader(M[k])
      BY <1>3, <3>1
    <3>2. CASE ~ \E k \in 1..Len(M) : MovesHeader(M[k])
      <4>1. ActiveJobs # {} /\ ~SeedIsAsked
        BY <2>3, <3>2 DEF NewsOfJobs, JobsStay
      <4>2. header = NoEvent
        BY <2>3 DEF WindowWaits
      <4> QED BY <1>2, <2>1, <4>1, <4>2 DEF PanelInvariant, WorkComesUp
    <3> QED BY <3>1, <3>2
  <2> QED BY <2>2, <2>3
<1> QED BY <1>5, <1>6

\* A row: the end of a job it knows, or will know by then, is told after all the rest.
LEMMA RowNews ==
  ASSUME PanelInvariant, WindowWaits, tools, page # 0, NEW M, Carries(M), Len(wire) \in Nat,
         Len(M) \in Nat, JobsStay, NewsOfJobs(M), NEW f \in Folders
  PROVE  RowComesTrue(f)'
<1>1. \A m : TellsRow(m)' <=> TellsRow(m)
  BY DEF WindowWaits, TellsRow, IsStarted
<1>2. \A n \in 1..Len(wire) : n \in 1..Len(wire') /\ wire'[n] = wire[n] /\ Names(wire[n])
  BY DEF Carries, PanelInvariant, Bounds
<1>3. \A k \in 1..Len(M) : Len(wire) + k \in 1..Len(wire') /\ wire'[Len(wire) + k] = M[k]
  BY DEF Carries
<1>4. \A i \in 1..Len(jobs) : jobs'[i].folder = jobs[i].folder
  BY DEF NewsOfJobs, JobsStay
<1>5. folderByJob' = folderByJob /\ scanEvents' = scanEvents
  BY DEF WindowWaits
<1>6. \A i \in DOMAIN folderByJob : i \in 1..Len(jobs)
  BY DEF PanelInvariant, Bounds
<1>7. ASSUME NEW n \in 1..Len(wire) PROVE MovesRow(n, f)' <=> MovesRow(n, f)
  <2>1. \A i : Told(i, n)' <=> Told(i, n)
    <3>1. \A k \in 1..n-1 : k \in 1..Len(wire)
      OBVIOUS
    <3> QED BY <1>1, <1>2, <1>5, <3>1 DEF Told
  <2>2. wire[n].msg = "progress" => wire[n].job \in 1..Len(jobs)
    BY <1>2 DEF Names, MovesHeader, EventOf
  <2> QED BY <1>1, <1>2, <1>4, <2>1, <2>2 DEF MovesRow
<1>8. ASSUME NEW i \in 1..Len(jobs), jobs[i].folder = f, NEW n \in 1..Len(wire)+1, Told(i, n),
             NEW k \in 1..Len(M), M[k].msg = "progress", M[k].job = i,
             NEW m \in Nat, m = Len(wire) + k
      PROVE  m \in 1..Len(wire') /\ MovesRow(m, f)'
  <2>1. Told(i, m)'
    <3>1. CASE i \in DOMAIN folderByJob
      BY <1>5, <3>1 DEF Told
    <3>2. CASE \E l \in 1..n-1 : TellsRow(wire[l]) /\ wire[l].job = i
      <4>1. PICK l \in 1..n-1 : TellsRow(wire[l]) /\ wire[l].job = i
        BY <3>2
      <4>2. l \in 1..Len(wire) /\ l \in 1..m-1
        BY <1>8
      <4>3. wire'[l] = wire[l] /\ TellsRow(wire[l])
        BY <1>2, <4>1, <4>2
      <4>4. TellsRow(wire'[l]) /\ wire'[l].job = i
        BY <4>1, <4>3
      <4> QED BY <1>1, <4>2, <4>4 DEF Told
    <3> QED BY <1>8, <3>1, <3>2 DEF Told
  <2>2. m \in 1..Len(wire') /\ wire'[m] = M[k] /\ jobs'[i].folder = f
    BY <1>3, <1>4, <1>8
  <2> QED BY <1>8, <2>1, <2>2 DEF MovesRow
<1>9. ASSUME {i \in DOMAIN folderByJob : jobs'[i].folder = f} # {},
             \A i \in {i \in DOMAIN folderByJob : jobs'[i].folder = f} : IsOver(i)',
             scanEvents[f].status # "over"
      PROVE  \E k \in 1..Len(wire') : MovesRow(k, f)'
  <2>1. {i \in DOMAIN folderByJob : jobs'[i].folder = f} = {i \in DOMAIN folderByJob : jobs[i].folder = f}
    BY <1>4, <1>6
  <2>2. CASE \A i \in {i \in DOMAIN folderByJob : jobs[i].folder = f} : IsOver(i)
    <3>1. PICK k \in 1..Len(wire) : MovesRow(k, f)
      BY <1>9, <2>1, <2>2 DEF PanelInvariant, RowComesTrue
    <3> QED BY <1>2, <1>7, <3>1
  <2>3. CASE \E i \in DOMAIN folderByJob : jobs[i].folder = f /\ ~IsOver(i)
    <3>1. PICK i \in DOMAIN folderByJob : jobs[i].folder = f /\ ~IsOver(i)
      BY <2>3
    <3>2. IsOver(i)'
      BY <1>9, <2>1, <3>1
    <3>3. PICK k \in 1..Len(M) : M[k].msg = "progress" /\ M[k].job = i
      BY <1>6, <3>1, <3>2 DEF NewsOfJobs, JobsStay
    <3>4. PICK m \in Nat : m = Len(wire) + k
      OBVIOUS
    <3>5. Told(i, 1)
      BY <3>1 DEF Told
    <3> QED BY <1>6, <1>8, <3>1, <3>3, <3>4, <3>5
  <2> QED BY <2>2, <2>3
<1>10. ASSUME NEW n \in 1..Len(wire'), MovesRow(n, f)', MissesTheEnd(wire[n])'
       PROVE  \E k \in n+1..Len(wire') : MovesRow(k, f)'
  <2>1. CASE n \in 1..Len(wire) /\ wire'[n] = wire[n]
    <3>1. MovesRow(n, f)
      BY <1>7, <1>10, <2>1
    <3>2. CASE MissesTheEnd(wire[n])
      <4>1. PICK k \in n+1..Len(wire) : MovesRow(k, f)
        BY <2>1, <3>1, <3>2 DEF PanelInvariant, RowComesTrue
      <4>2. k \in 1..Len(wire) /\ k \in n+1..Len(wire')
        BY <2>1 DEF Carries
      <4> QED BY <1>7, <4>1, <4>2
    <3>3. CASE ~MissesTheEnd(wire[n])
      <4> DEFINE i == wire[n].job
      <4>1. i \in 1..Len(jobs) /\ jobs[i].folder = f /\ Told(i, n + 1)
        BY <1>2, <2>1, <3>1 DEF MovesRow, Names, MovesHeader, EventOf, TellsRow, Told
      <4>2. PICK j \in 1..Len(jobs) : j = i
        BY <4>1
      <4>3. IsOver(j)' /\ ~IsOver(j)
        BY <1>10, <2>1, <3>3, <4>2 DEF MissesTheEnd, IsOver
      <4>4. PICK k \in 1..Len(M) : M[k].msg = "progress" /\ M[k].job = j
        BY <4>3 DEF NewsOfJobs, JobsStay
      <4>5. PICK m \in Nat : m = Len(wire) + k
        OBVIOUS
      <4>6. Told(j, n + 1) /\ jobs[j].folder = f /\ n + 1 \in 1..Len(wire)+1
        BY <2>1, <4>1, <4>2
      <4>7. m \in n+1..Len(wire')
        BY <2>1, <4>5 DEF Carries
      <4> QED BY <1>8, <4>4, <4>5, <4>6, <4>7
    <3> QED BY <3>2, <3>3
  <2>2. CASE \E k \in 1..Len(M) : n = Len(wire) + k /\ wire'[n] = M[k]
    <3>1. PICK k \in 1..Len(M) : n = Len(wire) + k /\ wire'[n] = M[k]
      BY <2>2
    <3>2. MissesTheEnd(M[k])' /\ (M[k].msg = "progress" \/ IsStarted(M[k]))
      BY <1>10, <3>1 DEF MissesTheEnd, MovesRow, TellsRow, IsStarted, IsOver
    <3> QED BY <3>2 DEF NewsOfJobs, JobsStay
  <2> QED BY <2>1, <2>2, WireAfter
<1> QED BY <1>5, <1>9, <1>10 DEF RowComesTrue

\* A mode and a list: a change is told by a status event after all the rest.
LEMMA FolderNews ==
  ASSUME PanelInvariant, PanelTypes', WindowWaits, page # 0, NEW M, Carries(M), Len(wire) \in Nat,
         Len(M) \in Nat, NewsOfFolders(M), NEW f \in Folders, mode'[f] # "forgotten"
  PROVE  ModeComesTrue(f)' /\ (tools => ListComesTrue(f)')
<1>1. \A n \in 1..Len(wire) : n \in 1..Len(wire') /\ wire'[n] = wire[n]
  BY DEF Carries
<1>2. \A k \in 1..Len(M) : Len(wire) + k \in 1..Len(wire') /\ wire'[Len(wire) + k] = M[k]
  BY DEF Carries
<1>3. mode[f] # "forgotten" /\ ModeComesTrue(f) /\ (tools => ListComesTrue(f))
  BY DEF NewsOfFolders, PanelInvariant
<1>4. \A m : /\ Reports(m, f)' <=> Reports(m, f)
             /\ IsList(m)' <=> IsList(m)
  BY DEF WindowWaits, Reports, IsList
<1>5. (\E k \in 1..Len(M) : Reports(M[k], f)) \/ (mode'[f] = mode[f] /\ flag'[f] = flag[f])
  BY DEF NewsOfFolders
<1>6. CASE \E k \in 1..Len(M) : Reports(M[k], f)
  <2>1. PICK k \in 1..Len(M) : Reports(M[k], f)
    BY <1>6
  <2>2. Len(wire) + k \in 1..Len(wire') /\ Reports(wire'[Len(wire) + k], f)
    BY <1>2, <2>1
  <2>3. ASSUME NEW n \in 1..Len(wire'), Reports(wire'[n], f), wire'[n].mode # mode'[f]
        PROVE  \E j \in n+1..Len(wire') : Reports(wire'[j], f)
    <3>1. CASE n \in 1..Len(wire)
      <4>1. Len(wire) + k \in n+1..Len(wire')
        BY <2>2, <3>1
      <4> QED BY <2>2, <4>1
    <3>2. CASE \E l \in 1..Len(M) : n = Len(wire) + l /\ wire'[n] = M[l]
      BY <2>3, <3>2 DEF NewsOfFolders
    <3> QED BY <3>1, <3>2, WireAfter
  <2>4. ModeComesTrue(f)'
    BY <1>4, <2>2, <2>3 DEF ModeComesTrue
  <2>5. ListComesTrue(f)'
    BY <1>4, <2>2 DEF ListComesTrue
  <2> QED BY <2>4, <2>5
<1>7. CASE mode'[f] = mode[f] /\ flag'[f] = flag[f] /\ ~ \E k \in 1..Len(M) : Reports(M[k], f)
  <2>1. \A label : IsStale(label, f)' <=> IsStale(label, f)
    BY <1>7 DEF IsStale
  <2>2. ASSUME NEW n \in 1..Len(wire'), Reports(wire'[n], f), wire'[n].mode # mode'[f]
        PROVE  \E k \in n+1..Len(wire') : Reports(wire'[k], f)
    <3>1. n \in 1..Len(wire) /\ wire'[n] = wire[n]
      BY <1>7, <2>2, WireAfter
    <3>2. PICK k \in n+1..Len(wire) : Reports(wire[k], f)
      BY <1>3, <1>7, <2>2, <3>1 DEF ModeComesTrue
    <3>3. k \in 1..Len(wire) /\ k \in n+1..Len(wire')
      BY <3>1 DEF Carries
    <3> QED BY <1>1, <3>2, <3>3
  <2>3. ModeComesTrue(f)'
    <3>1. tools /\ watchStatus[f] \notin {"none", mode[f]} => \E k \in 1..Len(wire') : Reports(wire'[k], f)
      BY <1>1, <1>3 DEF ModeComesTrue
    <3>2. tools' = tools /\ watchStatus' = watchStatus
      BY DEF WindowWaits
    <3> QED BY <1>4, <1>7, <2>2, <3>1, <3>2 DEF ModeComesTrue
  <2>4. ASSUME tools PROVE ListComesTrue(f)'
    <3>1. watchStatus' = watchStatus /\ listed' = listed
      BY DEF WindowWaits
    <3>2. CASE watchStatus[f] # "none"
      BY <3>1, <3>2 DEF ListComesTrue
    <3>3. CASE \E k \in 1..Len(wire) : Reports(wire[k], f)
      BY <1>1, <1>4, <3>3 DEF ListComesTrue
    <3>4. ASSUME NEW n \in 1..Len(wire'), IsList(wire'[n]), IsStale(wire'[n].rows[f], f),
                 \A m \in 1..Len(wire) : IsList(wire[m]) /\ IsStale(wire[m].rows[f], f) =>
                     \E k \in m+1..Len(wire) : IsList(wire[k])
          PROVE  \E k \in n+1..Len(wire') : IsList(wire'[k])
      <4>1. CASE n \in 1..Len(wire) /\ wire'[n] = wire[n]
        <5>1. PICK k \in n+1..Len(wire) : IsList(wire[k])
          BY <3>4, <4>1
        <5>2. k \in 1..Len(wire) /\ k \in n+1..Len(wire')
          BY <4>1 DEF Carries
        <5> QED BY <1>1, <5>1, <5>2
      <4>2. CASE \E l \in 1..Len(M) : n = Len(wire) + l /\ wire'[n] = M[l]
        <5>1. PICK l \in 1..Len(M) : wire'[n] = M[l]
          BY <4>2
        <5>2. IsList(M[l]) /\ IsStale(M[l].rows[f], f)'
          BY <2>1, <3>4, <5>1
        <5> QED BY <5>2 DEF NewsOfFolders
      <4> QED BY <4>1, <4>2, WireAfter
    <3>5. CASE ListIsAsked /\ ListIsAsked'
      BY <3>5 DEF ListComesTrue
    <3>6. CASE \E k \in 1..Len(M) : IsList(M[k])
      <4>1. PICK l \in 1..Len(M) : IsList(M[l])
        BY <3>6
      <4>2. Len(wire) + l \in 1..Len(wire') /\ IsList(wire'[Len(wire) + l])
        BY <1>2, <4>1
      <4>3. ASSUME NEW n \in 1..Len(wire'), IsList(wire'[n]), IsStale(wire'[n].rows[f], f)
            PROVE  \E k \in n+1..Len(wire') : IsList(wire'[k])
        <5>1. CASE n \in 1..Len(wire)
          <6>1. Len(wire) + l \in n+1..Len(wire')
            BY <4>2, <5>1
          <6> QED BY <4>2, <6>1
        <5>2. CASE \E j \in 1..Len(M) : n = Len(wire) + j /\ wire'[n] = M[j]
          <6>1. PICK j \in 1..Len(M) : wire'[n] = M[j]
            BY <5>2
          <6>2. IsList(M[j]) /\ IsStale(M[j].rows[f], f)'
            BY <2>1, <4>3, <6>1
          <6> QED BY <6>2 DEF NewsOfFolders
        <5> QED BY <5>1, <5>2, WireAfter
      <4> QED BY <1>4, <2>1, <4>2, <4>3 DEF ListComesTrue
    <3>7. CASE /\ IsStale(listed[f], f) => \E k \in 1..Len(wire) : IsList(wire[k])
               /\ \A n \in 1..Len(wire) : IsList(wire[n]) /\ IsStale(wire[n].rows[f], f) =>
                     \E k \in n+1..Len(wire) : IsList(wire[k])
      <4>1. IsStale(listed[f], f) => \E k \in 1..Len(wire') : IsList(wire'[k])
        BY <1>1, <3>7
      <4> QED BY <1>4, <2>1, <3>1, <3>4, <3>7, <4>1 DEF ListComesTrue
    <3> QED BY <1>3, <2>4, <3>2, <3>3, <3>5, <3>6, <3>7 DEF ListComesTrue, NewsOfFolders
  <2> QED BY <2>3, <2>4
<1> QED BY <1>5, <1>6, <1>7

\* A step of the main process keeps the invariant if it tells its news.
LEMMA MainKeeps ==
  ASSUME PanelInvariant, PanelTypes', WindowWaits, JobsStay, FlagsAreFollowed',
         \A n \in 1..Len(calls') : calls'[n].life <= life,
         NEW M \in Seq(Messages), Send(M), page # 0 => NewsOfJobs(M) /\ NewsOfFolders(M)
  PROVE  PanelInvariant'
<1>1. page' = page /\ life' = life /\ header' = header /\ tools' = tools /\ folderByJob' = folderByJob
  BY DEF WindowWaits
<1>2. Bounds
  BY DEF PanelInvariant
<1>3. /\ header' # NoEvent => header'.job \in 1..Len(jobs')
      /\ \A i \in DOMAIN folderByJob' : i \in 1..Len(jobs') /\ folderByJob'[i] = jobs'[i].folder
  BY <1>1, <1>2 DEF Bounds, JobsStay
<1>4. Len(wire) \in Nat /\ Len(M) \in Nat /\ (page # 0 => Carries(M)) /\ (page = 0 => wire' = wire)
  BY SendCarries DEF PanelInvariant
<1>5. CASE page = 0
  <2>1. wire' = <<>> /\ Len(wire') = 0 /\ header' = NoEvent /\ ~tools'
    BY <1>1, <1>2, <1>4, <1>5 DEF Bounds
  <2>2. Bounds'
    BY <1>1, <1>2, <1>3, <2>1 DEF Bounds
  <2>3. HeaderComesTrue' /\ WorkComesUp'
    BY <1>1, <1>5, <2>1 DEF HeaderComesTrue, WorkComesUp, IsPast, NoEvent, Active
  <2>4. \A f \in Folders : ModeComesTrue(f)'
    BY <2>1 DEF ModeComesTrue
  <2> QED BY <2>1, <2>2, <2>3, <2>4 DEF PanelInvariant
<1>6. CASE page # 0
  <2>1. HeaderComesTrue' /\ WorkComesUp'
    BY <1>4, <1>6, HeaderNews
  <2>2. tools' => \A f \in Folders : RowComesTrue(f)'
    BY <1>1, <1>4, <1>6, RowNews
  <2>3. \A f \in Folders : mode'[f] # "forgotten" =>
           ModeComesTrue(f)' /\ (tools' => ListComesTrue(f)')
    BY <1>1, <1>4, <1>6, FolderNews
  <2>4. ASSUME NEW n \in 1..Len(wire') PROVE Names(wire[n])'
    <3>1. CASE n \in 1..Len(wire) /\ wire'[n] = wire[n]
      <4>1. Names(wire[n])
        BY <1>2, <3>1 DEF Bounds
      <4> QED BY <1>1, <3>1, <4>1 DEF Names, MovesHeader, IsStarted, EventOf, JobsStay
    <3>2. CASE \E k \in 1..Len(M) : n = Len(wire) + k /\ wire'[n] = M[k]
      <4>1. PICK k \in 1..Len(M) : wire'[n] = M[k]
        BY <3>2
      <4>2. Names(M[k])'
        BY <1>6 DEF NewsOfJobs
      <4> QED BY <4>1, <4>2 DEF Names, MovesHeader, IsStarted, EventOf
    <3> QED BY <1>4, <1>6, <3>1, <3>2, WireAfter
  <2>5. Bounds'
    BY <1>1, <1>2, <1>3, <1>6, <2>4 DEF Bounds
  <2> QED BY <2>1, <2>2, <2>3, <2>5 DEF PanelInvariant
<1> QED BY <1>5, <1>6

-----------------------------------------------------------------------------
(* The window hears m, the first message of the wire.                       *)

Hears(m) ==
  /\ wire # <<>> /\ m = wire[1] /\ wire' = Tail(wire)
  /\ UNCHANGED <<main, life, page, tools, ended>>
  /\ header' = IF MovesHeader(m) THEN HeaderAfter(EventOf(m)) ELSE header
  /\ watchStatus' = IF m.msg = "status" /\ tools THEN [watchStatus EXCEPT ![m.folder] = m.mode]
                    ELSE watchStatus
  /\ listed' = IF IsList(m) THEN m.rows ELSE listed

HearsOfScan(m) ==
  /\ m.msg = "progress" => scanEvents' = RowsAfter(EventOf(m))
  /\ IF TellsRow(m) /\ tools
     THEN /\ folderByJob' = [i \in DOMAIN folderByJob \cup {m.job} |->
                               IF i = m.job THEN m.folder ELSE folderByJob[i]]
          /\ scanEvents' = [scanEvents EXCEPT ![m.folder] = NoEvent]
     ELSE folderByJob' = folderByJob /\ (m.msg # "progress" => scanEvents' = scanEvents)

CallsGo ==
  /\ Len(calls) \in Nat /\ Len(calls') \in Nat /\ Len(calls) <= Len(calls')
  /\ \A n \in 1..Len(calls) : calls'[n] = calls[n]

Shifted ==
  /\ Len(wire) \in Nat \ {0} /\ Len(wire') = Len(wire) - 1
  /\ \A n \in 1..Len(wire') : n + 1 \in 1..Len(wire) /\ wire'[n] = wire[n + 1]

\* The first message goes, and the others move up.
LEMMA TailShifts ==
  ASSUME PanelTypes, wire # <<>>, wire' = Tail(wire)
  PROVE  Shifted /\ wire' \in Seq(Messages) /\ wire[1] \in Messages
<1>1. wire \in Seq(Messages)
  BY DEF PanelTypes, ChannelTypes
<1>2. Len(wire) \in Nat \ {0}
  BY <1>1, EmptySeq
<1> QED BY <1>1, <1>2, HeadTailProperties, ElementOfSeq DEF Shifted

\* What comes after position n + 1 comes after position n of what is left.
LEMMA LaterStays ==
  ASSUME Shifted, NEW n \in 0..Len(wire'), NEW k \in n+2..Len(wire)
  PROVE  \E j \in n+1..Len(wire') : k = j + 1 /\ wire'[j] = wire[k] /\ j \in 1..Len(wire')
<1>1. k - 1 \in n+1..Len(wire') /\ k = (k - 1) + 1 /\ k - 1 \in 1..Len(wire')
  BY DEF Shifted
<1>2. wire'[k - 1] = wire[(k - 1) + 1]
  BY <1>1 DEF Shifted
<1> QED BY <1>1, <1>2

\* The indicator shows the event that was heard: what would have replaced the message replaces
\* what is shown.
LEMMA HeaderHeard ==
  ASSUME PanelInvariant, PanelTypes', NEW m, m \in Messages, Hears(m), Shifted, CallsGo
  PROVE  HeaderComesTrue' /\ WorkComesUp'
<1>1. /\ jobs' = jobs /\ page' = page /\ ended' = ended
      /\ \A x : (MovesHeader(x)' <=> MovesHeader(x)) /\ (IsPast(x)' <=> IsPast(x))
  BY DEF Hears, main, MovesHeader, IsPast
<1>2. ASSUME IsPast(header)' PROVE \E k \in 1..Len(wire') : MovesHeader(wire'[k])
  <2>1. CASE MovesHeader(m)
    <3>1. header' = EventOf(m) /\ IsPast(EventOf(wire[1])) /\ MovesHeader(wire[1])
      BY <1>1, <1>2, <2>1 DEF Hears, HeaderAfter, IsPast, NoEvent, Active
    <3>2. PICK k \in 2..Len(wire) : MovesHeader(wire[k])
      BY <3>1 DEF PanelInvariant, HeaderComesTrue, Shifted
    <3>3. 0 \in 0..Len(wire') /\ k \in 0+2..Len(wire)
      BY DEF Shifted
    <3> QED BY <3>2, <3>3, LaterStays
  <2>2. CASE ~MovesHeader(m)
    <3>1. header' = header /\ IsPast(header)
      BY <1>1, <1>2, <2>2 DEF Hears
    <3>2. PICK k \in 1..Len(wire) : MovesHeader(wire[k])
      BY <3>1 DEF PanelInvariant, HeaderComesTrue
    <3>3. 0 \in 0..Len(wire') /\ k \in 0+2..Len(wire)
      BY <2>2, <3>2 DEF Shifted, Hears
    <3> QED BY <3>2, <3>3, LaterStays
  <2> QED BY <2>1, <2>2
<1>3. ASSUME NEW n \in 1..Len(wire'), MovesHeader(wire'[n]), IsPast(EventOf(wire[n]))'
      PROVE  \E k \in n+1..Len(wire') : MovesHeader(wire'[k])
  <2>1. wire'[n] = wire[n + 1] /\ n + 1 \in 1..Len(wire)
    BY DEF Shifted
  <2>2. IsPast(EventOf(wire[n + 1]))
    BY <1>1, <1>3, <2>1 DEF IsPast, EventOf
  <2>3. PICK k \in (n + 1) + 1..Len(wire) : MovesHeader(wire[k])
    BY <1>3, <2>1, <2>2 DEF PanelInvariant, HeaderComesTrue
  <2>4. n \in 0..Len(wire') /\ k \in n + 2..Len(wire)
    BY DEF Shifted
  <2> QED BY <2>3, <2>4, LaterStays
<1>4. HeaderComesTrue'
  BY <1>1, <1>2, <1>3 DEF HeaderComesTrue
<1>5. ASSUME page # 0, ~ended
      PROVE  /\ \A n \in 1..Len(wire') : wire'[n].msg = "progress" => wire'[n].status \in Active
             /\ \/ ActiveJobs = {} \/ header' # NoEvent \/ SeedIsAsked'
                \/ \E n \in 1..Len(wire') : MovesHeader(wire'[n])
  <2>1. \A n \in 1..Len(wire) : wire[n].msg = "progress" => wire[n].status \in Active
    BY <1>5 DEF PanelInvariant, WorkComesUp
  <2>2. \A n \in 1..Len(wire') : wire'[n].msg = "progress" => wire'[n].status \in Active
    BY <2>1 DEF Shifted
  <2>3. CASE MovesHeader(m)
    <3>1. EventOf(m).status \in Active
      <4>1. CASE m.msg = "progress"
        BY <2>1, <4>1 DEF Hears, Shifted, EventOf
      <4>2. CASE m.msg = "jobs.list" /\ m.seed # NoEvent
        BY <4>2 DEF Messages, Seeds, EventOf, Answers
      <4> QED BY <2>3, <4>1, <4>2 DEF MovesHeader
    <3>2. header' # NoEvent
      BY <2>3, <3>1 DEF Hears, HeaderAfter, NoEvent, Active
    <3> QED BY <2>2, <3>2
  <2>4. CASE ~MovesHeader(m)
    <3>1. header' = header
      BY <2>4 DEF Hears
    <3>2. SeedIsAsked => SeedIsAsked'
      <4>1. \A n \in 1..Len(calls) : n \in 1..Len(calls') /\ calls'[n] = calls[n]
        BY DEF CallsGo
      <4> QED BY <1>1, <4>1 DEF SeedIsAsked
    <3>3. ASSUME NEW k \in 1..Len(wire), MovesHeader(wire[k])
          PROVE  \E n \in 1..Len(wire') : MovesHeader(wire'[n])
      <4>1. 0 \in 0..Len(wire') /\ k \in 0+2..Len(wire)
        BY <2>4, <3>3 DEF Shifted, Hears
      <4> QED BY <3>3, <4>1, LaterStays
    <3> QED BY <1>5, <2>2, <3>1, <3>2, <3>3 DEF PanelInvariant, WorkComesUp
  <2> QED BY <2>3, <2>4
<1>6. WorkComesUp'
  BY <1>1, <1>5 DEF WorkComesUp, ActiveJobs
<1> QED BY <1>4, <1>6

\* So does a row; a reply makes the later events of its job reach it.
LEMMA RowHeard ==
  ASSUME PanelInvariant, NEW m, m \in Messages, Hears(m), HearsOfScan(m), Shifted, tools,
         NEW f \in Folders
  PROVE  RowComesTrue(f)'
<1>1. jobs' = jobs /\ life' = life /\ m = wire[1] /\ Names(m)
  BY DEF Hears, main, PanelInvariant, Bounds, Shifted
<1>2. \A x : (TellsRow(x)' <=> TellsRow(x)) /\ (MissesTheEnd(x)' <=> MissesTheEnd(x))
              /\ (IsOver(x)' <=> IsOver(x))
  BY <1>1 DEF TellsRow, IsStarted, MissesTheEnd, IsOver
<1>3. DOMAIN folderByJob' = IF TellsRow(m) THEN DOMAIN folderByJob \cup {m.job} ELSE DOMAIN folderByJob
  BY DEF HearsOfScan
<1>4. ASSUME NEW n \in 1..Len(wire') PROVE MovesRow(n, f)' <=> MovesRow(n + 1, f)
  <2>1. wire'[n] = wire[n + 1]
    BY DEF Shifted
  <2>2. ASSUME NEW i PROVE Told(i, n)' <=> Told(i, n + 1)
    <3>1. ASSUME Told(i, n)' PROVE Told(i, n + 1)
      <4>1. CASE i \in DOMAIN folderByJob'
        <5>1. 1 \in 1..(n + 1) - 1
          OBVIOUS
        <5> QED BY <1>1, <1>3, <4>1, <5>1 DEF Told
      <4>2. CASE \E k \in 1..n-1 : TellsRow(wire'[k]) /\ wire'[k].job = i
        <5>1. PICK k \in 1..n-1 : TellsRow(wire'[k]) /\ wire'[k].job = i
          BY <4>2
        <5>2. k \in 1..Len(wire') /\ k + 1 \in 1..(n + 1) - 1
          BY DEF Shifted
        <5>3. wire'[k] = wire[k + 1]
          BY <5>2 DEF Shifted
        <5> QED BY <5>1, <5>2, <5>3 DEF Told
      <4> QED BY <1>2, <3>1, <4>1, <4>2 DEF Told
    <3>2. ASSUME Told(i, n + 1) PROVE Told(i, n)'
      <4>1. CASE i \in DOMAIN folderByJob
        BY <1>3, <4>1 DEF Told
      <4>2. CASE \E k \in 1..n : TellsRow(wire[k]) /\ wire[k].job = i
        <5>1. PICK k \in 1..n : TellsRow(wire[k]) /\ wire[k].job = i
          BY <4>2
        <5>2. CASE k = 1
          BY <1>1, <1>3, <5>1, <5>2 DEF Told
        <5>3. CASE k # 1
          <6>1. k - 1 \in 1..n-1 /\ k - 1 \in 1..Len(wire') /\ (k - 1) + 1 = k
            BY <5>3 DEF Shifted
          <6>2. wire'[k - 1] = wire[k]
            BY <6>1 DEF Shifted
          <6>3. \E l \in 1..n-1 : TellsRow(wire'[l]) /\ wire'[l].job = i
            BY <5>1, <6>1, <6>2
          <6> QED BY <1>2, <6>3 DEF Told
        <5> QED BY <5>2, <5>3
      <4>3. (n + 1) - 1 = n
        OBVIOUS
      <4> QED BY <3>2, <4>1, <4>2, <4>3 DEF Told
    <3> QED BY <3>1, <3>2
  <2> QED BY <1>1, <1>2, <2>1, <2>2 DEF MovesRow
<1>5. ASSUME NEW n \in 0..Len(wire'), NEW k \in n+2..Len(wire), MovesRow(k, f)
      PROVE  \E j \in n+1..Len(wire') : j \in 1..Len(wire') /\ MovesRow(j, f)'
  <2>1. PICK j \in n+1..Len(wire') : k = j + 1 /\ j \in 1..Len(wire')
    BY LaterStays
  <2> QED BY <1>4, <1>5, <2>1
<1>6. ASSUME NEW n \in 1..Len(wire'), MovesRow(n, f)', MissesTheEnd(wire[n])'
      PROVE  \E k \in n+1..Len(wire') : MovesRow(k, f)'
  <2>1. wire'[n] = wire[n + 1] /\ n + 1 \in 1..Len(wire) /\ n \in 0..Len(wire')
    BY DEF Shifted
  <2>2. MovesRow(n + 1, f) /\ MissesTheEnd(wire[n + 1])
    BY <1>1, <1>4, <1>6, <2>1 DEF MissesTheEnd, IsOver
  <2>3. PICK k \in (n + 1) + 1..Len(wire) : MovesRow(k, f)
    BY <2>1, <2>2 DEF PanelInvariant, RowComesTrue
  <2>4. k \in n + 2..Len(wire)
    BY DEF Shifted
  <2> QED BY <1>5, <2>1, <2>3, <2>4
<1>7. ASSUME NEW i \in DOMAIN folderByJob', jobs[i].folder = f,
             \A j \in DOMAIN folderByJob' : jobs[j].folder = f => IsOver(j),
             scanEvents'[f].status # "over"
      PROVE  \E k \in 1..Len(wire') : MovesRow(k, f)'
  <2>1. 0 \in 0..Len(wire') /\ 1 \in 1..Len(wire)
    BY DEF Shifted
  <2>2. \A j \in DOMAIN folderByJob : folderByJob[j] = jobs[j].folder
    BY DEF PanelInvariant, Bounds
  <2>3. scanEvents \in [Folders -> {NoEvent} \cup [job : Nat, status : Statuses]]
    BY DEF PanelInvariant, PanelTypes, WindowTypes
  <2>4. CASE MovesRow(1, f)
    <3>1. MissesTheEnd(m)
      <4>1. CASE TellsRow(m)
        <5>1. m.job \in DOMAIN folderByJob' /\ jobs[m.job].folder = f
          BY <1>1, <1>3, <2>4, <4>1 DEF Names, TellsRow, MovesRow, IsStarted
        <5>2. m.msg # "progress"
          BY <4>1 DEF TellsRow, IsStarted
        <5> QED BY <1>7, <5>1, <5>2 DEF MissesTheEnd
      <4>2. CASE ~TellsRow(m)
        <5>1. m.msg = "progress" /\ Told(m.job, 1) /\ jobs[m.job].folder = f
          BY <1>1, <2>4, <4>2 DEF MovesRow
        <5>2. m.job \in DOMAIN folderByJob
          BY <5>1 DEF Told
        <5>3. scanEvents' = [scanEvents EXCEPT ![f] = EventOf(m)]
          BY <2>2, <5>1, <5>2 DEF HearsOfScan, RowsAfter, EventOf
        <5>4. m.status # "over"
          BY <1>7, <2>3, <5>1, <5>3 DEF EventOf
        <5> QED BY <1>3, <1>7, <5>1, <5>2, <5>4 DEF MissesTheEnd
      <4> QED BY <4>1, <4>2
    <3>2. PICK k \in 1+1..Len(wire) : MovesRow(k, f)
      BY <1>1, <2>1, <2>4, <3>1 DEF PanelInvariant, RowComesTrue
    <3> QED BY <1>5, <2>1, <3>2
  <2>5. CASE ~MovesRow(1, f)
    <3>1. TellsRow(m) => m.folder # f /\ jobs[m.job].folder # f
      BY <1>1, <2>5 DEF MovesRow, Names, TellsRow
    <3>2. scanEvents'[f] = scanEvents[f]
      <4>1. CASE TellsRow(m)
        BY <2>3, <3>1, <4>1 DEF HearsOfScan
      <4>2. CASE ~TellsRow(m) /\ m.msg # "progress"
        BY <4>2 DEF HearsOfScan
      <4>3. CASE m.msg = "progress"
        <5>1. m.job \in DOMAIN folderByJob => folderByJob[m.job] # f
          BY <1>1, <2>2, <2>5, <4>3 DEF MovesRow, Told
        <5>2. EventOf(m).job = m.job
          BY <4>3 DEF EventOf
        <5> QED BY <2>3, <4>3, <5>1, <5>2 DEF HearsOfScan, RowsAfter
      <4> QED BY <4>1, <4>2, <4>3
    <3>3. i \in DOMAIN folderByJob /\ \A j \in DOMAIN folderByJob : jobs[j].folder = f => IsOver(j)
      BY <1>3, <1>7, <3>1
    <3>4. PICK k \in 1..Len(wire) : MovesRow(k, f)
      BY <1>7, <3>2, <3>3 DEF PanelInvariant, RowComesTrue
    <3>5. k \in 0+2..Len(wire)
      BY <2>5, <3>4 DEF Shifted
    <3> QED BY <1>5, <2>1, <3>4, <3>5
  <2> QED BY <2>4, <2>5
<1> QED BY <1>1, <1>2, <1>6, <1>7 DEF RowComesTrue

\* So do the mode and the list of a folder; an answered mutation asks for the list again.
LEMMA FolderHeard ==
  ASSUME PanelInvariant, PanelTypes', NEW m, m \in Messages, Hears(m), Shifted, CallsGo,
         NEW f \in Folders, mode[f] # "forgotten"
  PROVE  ModeComesTrue(f)' /\ (tools => ListComesTrue(f)')
<1>1. /\ mode' = mode /\ flag' = flag /\ page' = page /\ tools' = tools /\ m = wire[1]
      /\ 0 \in 0..Len(wire') /\ 1 \in 1..Len(wire)
  BY DEF Hears, main, Shifted
<1>2. \A x : /\ Reports(x, f)' <=> Reports(x, f)
             /\ IsList(x)' <=> IsList(x)
             /\ IsStale(x, f)' <=> IsStale(x, f)
  BY <1>1 DEF Reports, IsList, IsStale
<1>3. ModeComesTrue(f) /\ (tools => ListComesTrue(f))
  BY DEF PanelInvariant
<1>4. watchStatus \in [Folders -> Modes \cup {"none"}]
  BY DEF PanelInvariant, PanelTypes, WindowTypes
<1>5. ASSUME Reports(m, f) PROVE m.mode \in Modes
  BY <1>5 DEF Messages, Reports, Answers
<1>6. tools => watchStatus'[f] = IF Reports(m, f) THEN m.mode ELSE watchStatus[f]
  BY <1>4 DEF Hears, Reports
<1>7. ASSUME NEW k \in 1..Len(wire), Reports(wire[k], f), ~Reports(m, f)
      PROVE  \E j \in 1..Len(wire') : Reports(wire'[j], f)
  <2>1. k \in 0+2..Len(wire)
    BY <1>1, <1>7
  <2> QED BY <1>1, <1>7, <2>1, LaterStays
<1>8. ModeComesTrue(f)'
  <2>1. ASSUME tools, watchStatus'[f] \notin {"none", mode[f]}
        PROVE  \E k \in 1..Len(wire') : Reports(wire'[k], f)
    <3>1. CASE Reports(m, f)
      <4>1. m.mode # mode[f]
        BY <1>6, <2>1, <3>1
      <4>2. PICK k \in 1+1..Len(wire) : Reports(wire[k], f)
        BY <1>1, <1>3, <3>1, <4>1 DEF ModeComesTrue
      <4> QED BY <1>1, <4>2, LaterStays
    <3>2. CASE ~Reports(m, f)
      BY <1>3, <1>6, <1>7, <2>1, <3>2 DEF ModeComesTrue
    <3> QED BY <3>1, <3>2
  <2>2. ASSUME NEW n \in 1..Len(wire'), Reports(wire'[n], f), wire'[n].mode # mode[f]
        PROVE  \E k \in n+1..Len(wire') : Reports(wire'[k], f)
    <3>1. wire'[n] = wire[n + 1] /\ n + 1 \in 1..Len(wire) /\ n \in 0..Len(wire')
      BY DEF Shifted
    <3>2. PICK k \in (n + 1) + 1..Len(wire) : Reports(wire[k], f)
      BY <1>3, <2>2, <3>1 DEF ModeComesTrue
    <3>3. k \in n+2..Len(wire)
      BY DEF Shifted
    <3> QED BY <3>1, <3>2, <3>3, LaterStays
  <2> QED BY <1>1, <1>2, <2>1, <2>2 DEF ModeComesTrue
<1>9. ASSUME tools PROVE ListComesTrue(f)'
  <2>1. CASE watchStatus[f] # "none" \/ Reports(m, f)
    <3>1. watchStatus'[f] # "none"
      BY <1>5, <1>6, <1>9, <2>1 DEF Modes
    <3> QED BY <3>1 DEF ListComesTrue
  <2>2. CASE ListIsAsked
    <3>1. \A n \in 1..Len(calls) : n \in 1..Len(calls') /\ calls'[n] = calls[n]
      BY DEF CallsGo
    <3>2. ListIsAsked'
      BY <1>1, <2>2, <3>1 DEF ListIsAsked
    <3> QED BY <3>2 DEF ListComesTrue
  <2>3. CASE ~Reports(m, f) /\ \E k \in 1..Len(wire) : Reports(wire[k], f)
    BY <1>2, <1>7, <2>3 DEF ListComesTrue
  <2>4. CASE /\ IsStale(listed[f], f) => \E k \in 1..Len(wire) : IsList(wire[k])
             /\ \A n \in 1..Len(wire) : IsList(wire[n]) /\ IsStale(wire[n].rows[f], f) =>
                  \E k \in n+1..Len(wire) : IsList(wire[k])
    <3>1. ASSUME IsStale(listed'[f], f) PROVE \E k \in 1..Len(wire') : IsList(wire'[k])
      <4>1. PICK k \in 0+2..Len(wire) : IsList(wire[k])
        <5>1. CASE IsList(m)
          BY <1>1, <2>4, <3>1, <5>1 DEF Hears
        <5>2. CASE ~IsList(m)
          <6>1. PICK k \in 1..Len(wire) : IsList(wire[k])
            BY <2>4, <3>1, <5>2 DEF Hears
          <6>2. k \in 0+2..Len(wire)
            BY <1>1, <5>2, <6>1
          <6> QED BY <6>1, <6>2
        <5> QED BY <5>1, <5>2
      <4> QED BY <1>1, <4>1, LaterStays
    <3>2. ASSUME NEW n \in 1..Len(wire'), IsList(wire'[n]), IsStale(wire'[n].rows[f], f)
          PROVE  \E k \in n+1..Len(wire') : IsList(wire'[k])
      <4>1. wire'[n] = wire[n + 1] /\ n + 1 \in 1..Len(wire) /\ n \in 0..Len(wire')
        BY DEF Shifted
      <4>2. PICK k \in (n + 1) + 1..Len(wire) : IsList(wire[k])
        BY <2>4, <3>2, <4>1
      <4>3. k \in n+2..Len(wire)
        BY DEF Shifted
      <4> QED BY <4>1, <4>2, <4>3, LaterStays
    <3> QED BY <1>2, <3>1, <3>2 DEF ListComesTrue
  <2> QED BY <1>3, <1>9, <2>1, <2>2, <2>3, <2>4 DEF ListComesTrue
<1> QED BY <1>8, <1>9

\* A message heard keeps the invariant.
LEMMA HearKeeps ==
  ASSUME PanelInvariant, PanelTypes', NEW m, m \in Messages, Hears(m), HearsOfScan(m), CallsGo,
         \A n \in 1..Len(calls') : calls'[n].life <= life
  PROVE  PanelInvariant'
<1>1. Shifted
  BY TailShifts DEF Hears, PanelInvariant
<1>2. /\ jobs' = jobs /\ mode' = mode /\ flag' = flag /\ kept' = kept
      /\ page' = page /\ life' = life /\ tools' = tools
      /\ m = wire[1] /\ 1 \in 1..Len(wire)
  BY <1>1 DEF Hears, main, Shifted
<1>3. Bounds
  BY DEF PanelInvariant
<1>4. Bounds'
  <2>1. \A n \in 1..Len(wire') : Names(wire[n])'
    <3>1. ASSUME NEW n \in 1..Len(wire') PROVE Names(wire[n])'
      <4>1. wire'[n] = wire[n + 1] /\ Names(wire[n + 1])
        BY <1>1, <1>3 DEF Bounds, Shifted
      <4> QED BY <1>2, <4>1 DEF Names, MovesHeader, IsStarted, EventOf
    <3> QED BY <3>1
  <2>2. header' # NoEvent => header'.job \in 1..Len(jobs')
    <3>1. Names(m)
      BY <1>2, <1>3 DEF Bounds
    <3> QED BY <1>2, <1>3, <3>1 DEF Bounds, Hears, Names, HeaderAfter
  <2>3. \A i \in DOMAIN folderByJob' : i \in 1..Len(jobs') /\ folderByJob'[i] = jobs'[i].folder
    <3>1. CASE TellsRow(m) /\ tools
      <4>1. m.job \in 1..Len(jobs) /\ jobs[m.job].folder = m.folder
        BY <1>2, <1>3, <3>1 DEF Bounds, Names, TellsRow
      <4> QED BY <1>2, <1>3, <3>1, <4>1 DEF Bounds, HearsOfScan
    <3>2. CASE ~(TellsRow(m) /\ tools)
      BY <1>2, <1>3, <3>2 DEF Bounds, HearsOfScan
    <3> QED BY <3>1, <3>2
  <2>4. page # 0
    BY <1>2, <1>3 DEF Bounds, Hears
  <2> QED BY <1>2, <1>3, <2>1, <2>2, <2>3, <2>4 DEF Bounds
<1>5. HeaderComesTrue' /\ WorkComesUp'
  BY <1>1, HeaderHeard
<1>6. tools => \A f \in Folders : RowComesTrue(f)'
  BY <1>1, RowHeard
<1>7. \A f \in Folders : mode[f] # "forgotten" => ModeComesTrue(f)' /\ (tools => ListComesTrue(f)')
  BY <1>1, FolderHeard
<1>8. FlagsAreFollowed'
  BY <1>2 DEF PanelInvariant, FlagsAreFollowed
<1> QED BY <1>2, <1>4, <1>5, <1>6, <1>7, <1>8 DEF PanelInvariant

\* A message heard keeps the types.
LEMMA HearTypes ==
  ASSUME PanelTypes, NEW m, m \in Messages, Hears(m), HearsOfScan(m), calls' \in Seq(Calls)
  PROVE  PanelTypes'
<1>1. MainTypes'
  BY DEF PanelTypes, MainTypes, Hears, main
<1>2. ChannelTypes'
  BY TailShifts DEF ChannelTypes, Hears
<1>3. header' \in Seeds
  BY DEF Hears, HeaderAfter, MovesHeader, EventOf, Messages, Seeds, Answers, PanelTypes, WindowTypes,
         Statuses
<1>4. listed' \in [Folders -> Labels]
  BY DEF Hears, IsList, Messages, Answers, PanelTypes, WindowTypes
<1>5. watchStatus' \in [Folders -> Modes \cup {"none"}]
  BY DEF Hears, Messages, Answers, PanelTypes, WindowTypes
<1>6. scanEvents' \in [Folders -> {NoEvent} \cup [job : Nat, status : Statuses]]
  <2>1. scanEvents \in [Folders -> {NoEvent} \cup [job : Nat, status : Statuses]]
    BY DEF PanelTypes, WindowTypes
  <2>2. m.msg = "progress" => EventOf(m) \in [job : Nat, status : Statuses]
    BY DEF Messages, EventOf, Answers
  <2>3. CASE m.msg = "progress"
    BY <2>1, <2>2, <2>3 DEF HearsOfScan, RowsAfter
  <2>4. CASE m.msg # "progress"
    BY <2>1, <2>4 DEF HearsOfScan
  <2> QED BY <2>3, <2>4
<1>7. life' \in Nat /\ page' \in Nat /\ ended' \in BOOLEAN /\ tools' \in BOOLEAN
  BY DEF Hears, PanelTypes, WindowTypes
<1> QED BY <1>1, <1>2, <1>3, <1>4, <1>5, <1>6, <1>7 DEF PanelTypes, WindowTypes

\* No call is made.
LEMMA CallsSame ==
  ASSUME PanelInvariant, calls' = calls
  PROVE  CallsGo /\ calls' \in Seq(Calls) /\ \A n \in 1..Len(calls') : calls'[n].life <= life
<1>1. calls \in Seq(Calls) /\ \A n \in 1..Len(calls) : calls[n].life <= life
  BY DEF PanelInvariant, PanelTypes, ChannelTypes, Bounds
<1> QED BY <1>1, LenProperties DEF CallsGo

\* One call is made.
LEMMA OneMoreCall ==
  ASSUME PanelInvariant, NEW c \in Calls, c.life <= life', life' \in Nat, life <= life',
         calls' = Append(calls, c)
  PROVE  /\ CallsGo /\ calls' \in Seq(Calls) /\ \A n \in 1..Len(calls') : calls'[n].life <= life'
         /\ Len(calls') \in 1..Len(calls') /\ calls'[Len(calls')] = c
<1>1. calls \in Seq(Calls) /\ \A n \in 1..Len(calls) : calls[n].life <= life
  BY DEF PanelInvariant, PanelTypes, ChannelTypes, Bounds
<1>2. life \in Nat /\ \A n \in 1..Len(calls) : calls[n].life \in Nat
  <2>1. \A n \in 1..Len(calls) : calls[n] \in Calls
    BY <1>1, ElementOfSeq
  <2> QED BY <2>1 DEF Calls, PanelInvariant, PanelTypes, WindowTypes
<1>3. Len(calls) \in Nat /\ calls' \in Seq(Calls) /\ Len(calls') = Len(calls) + 1
      /\ \A n \in 1..Len(calls') : calls'[n] = IF n = Len(calls) + 1 THEN c ELSE calls[n]
  BY <1>1
<1> QED BY <1>1, <1>2, <1>3 DEF CallsGo

\* Each of the handlers of the window is an instance of Hears.
LEMMA HearStep ==
  ASSUME PanelInvariant, HearAny
  PROVE  PanelInvariant'
<1>1. wire # <<>> /\ wire' = Tail(wire) /\ PanelTypes
  BY DEF HearAny, HearProgress, HearStatus, HearJobs, HearFolders, HearScan, HearRemoved,
         HearToggled, Hear, PanelInvariant
<1>2. Head(wire) = wire[1] /\ wire[1] \in Messages
  BY <1>1, TailShifts
<1>3. PICK m \in Messages : m = wire[1]
  BY <1>2
<1>4. m = Head(wire)
  BY <1>2, <1>3
<1>5. CASE calls' = calls /\ Hears(m) /\ HearsOfScan(m)
  BY <1>1, <1>5, CallsSame, HearTypes, HearKeeps
<1>6. CASE (\E asker \in Askers : Refetch(asker)) /\ Hears(m) /\ HearsOfScan(m)
  <2>1. PICK asker \in Askers : Refetch(asker)
    BY <1>6
  <2>2. PICK reason \in Askers : reason = IF Mine THEN asker ELSE "closed"
    BY <2>1 DEF Askers
  <2>3. PICK c : c = ListCall(life, reason)
    OBVIOUS
  <2>4. c \in Calls /\ c.life = life /\ life \in Nat /\ life' = life
    BY <1>1, <1>6, <2>3 DEF ListCall, Calls, PanelTypes, WindowTypes, Hears
  <2>5. calls' = calls \/ calls' = Append(calls, c)
    BY <2>1, <2>2, <2>3 DEF Refetch
  <2>6. CASE calls' = Append(calls, c)
    <3>1. c.life <= life' /\ life' \in Nat /\ life <= life'
      BY <2>4
    <3>2. CallsGo /\ calls' \in Seq(Calls) /\ \A n \in 1..Len(calls') : calls'[n].life <= life
      BY <2>4, <2>6, <3>1, OneMoreCall
    <3> QED BY <1>1, <1>6, <3>2, HearTypes, HearKeeps
  <2> QED BY <1>5, <1>6, <2>5, <2>6
<1>7. CASE HearProgress
  <2>1. m.msg = "progress" /\ EventOf(m) = [job |-> m.job, status |-> m.status]
    BY <1>4, <1>7 DEF HearProgress, Hear, EventOf
  <2>2. Hears(m)
    BY <1>1, <1>3, <1>4, <1>7, <2>1 DEF HearProgress, Hears, MovesHeader, IsList
  <2>3. HearsOfScan(m)
    BY <1>4, <1>7, <2>1 DEF HearProgress, HearsOfScan, TellsRow, IsStarted
  <2> QED BY <1>5, <1>7, <2>2, <2>3 DEF HearProgress
<1>8. CASE HearStatus
  <2>1. m.msg = "status"
    BY <1>4, <1>8 DEF HearStatus, Hear
  <2>2. Hears(m)
    BY <1>1, <1>3, <1>4, <1>8, <2>1 DEF HearStatus, Hears, MovesHeader, IsList
  <2>3. HearsOfScan(m)
    BY <1>8, <2>1 DEF HearStatus, HearsOfScan, TellsRow, IsStarted
  <2> QED BY <1>5, <1>8, <2>2, <2>3 DEF HearStatus
<1>9. CASE HearJobs
  <2>1. m.msg = "jobs.list" /\ EventOf(m) = m.seed
    BY <1>4, <1>9 DEF HearJobs, Hear, EventOf
  <2>2. m.seed # NoEvent => HeaderAfter(m.seed) = m.seed
    BY <2>1, <1>3 DEF Messages, Seeds, Answers, HeaderAfter
  <2>3. Hears(m)
    BY <1>1, <1>3, <1>4, <1>9, <2>1, <2>2 DEF HearJobs, Hears, MovesHeader, IsList, panel
  <2>4. HearsOfScan(m)
    BY <1>9, <2>1 DEF HearJobs, HearsOfScan, TellsRow, IsStarted, panel
  <2> QED BY <1>5, <1>9, <2>3, <2>4 DEF HearJobs
<1>10. CASE HearFolders
  <2>1. m.msg = "watchFolders.list"
    BY <1>4, <1>10 DEF HearFolders, Hear
  <2>2. Hears(m)
    BY <1>1, <1>3, <1>4, <1>10, <2>1 DEF HearFolders, Hears, MovesHeader, IsList, panel
  <2>3. HearsOfScan(m)
    BY <1>10, <2>1 DEF HearFolders, HearsOfScan, TellsRow, IsStarted, panel
  <2> QED BY <1>5, <1>10, <2>2, <2>3 DEF HearFolders
<1>11. CASE HearScan
  <2>1. m.msg = "jobs.enqueueScan"
    BY <1>4, <1>11 DEF HearScan, Hear
  <2>2. Hears(m)
    BY <1>1, <1>3, <1>4, <1>11, <2>1 DEF HearScan, Hears, MovesHeader, IsList
  <2>3. TellsRow(m) /\ tools <=> Mine /\ m.ok
    BY <1>4, <2>1 DEF TellsRow, IsStarted, Mine
  <2>4. HearsOfScan(m)
    BY <1>4, <1>11, <2>1, <2>3 DEF HearScan, HearsOfScan
  <2> QED BY <1>5, <1>11, <2>2, <2>4 DEF HearScan
<1>12. CASE HearRemoved \/ HearToggled
  <2>1. m.msg \in {"watchFolders.remove", "enable", "disable"}
    BY <1>4, <1>12 DEF HearRemoved, HearToggled, Hear
  <2>2. Hears(m)
    BY <1>1, <1>3, <1>4, <1>12, <2>1 DEF HearRemoved, HearToggled, Hears, MovesHeader, IsList
  <2>3. HearsOfScan(m)
    BY <1>12, <2>1 DEF HearRemoved, HearToggled, HearsOfScan, TellsRow, IsStarted
  <2>4. \E asker \in Askers : Refetch(asker)
    BY <1>12 DEF HearRemoved, HearToggled, Askers
  <2> QED BY <1>6, <2>2, <2>3, <2>4
<1> QED BY <1>7, <1>8, <1>9, <1>10, <1>11, <1>12 DEF HearAny

-----------------------------------------------------------------------------
(* The user loads the page, opens and closes the tools, and clicks.         *)

\* A page that is loaded shows nothing and has asked for the seed.
LEMMA LoadKeeps ==
  ASSUME PanelInvariant, Load
  PROVE  PanelInvariant'
<1>1. /\ wire' = <<>> /\ Len(wire') = 0 /\ header' = NoEvent /\ ~tools' /\ ~ended'
      /\ life' = life + 1 /\ page' = life + 1 /\ life \in Nat /\ life <= life'
      /\ DOMAIN folderByJob' = {} /\ UNCHANGED main
  BY DEF Load, ResetPanel, PanelInvariant, PanelTypes, WindowTypes
<1>2. PICK c : c = [call |-> "jobs.list", folder |-> NoFolder, life |-> life + 1]
  OBVIOUS
<1>3. c \in Calls /\ calls' = Append(calls, c) /\ c.life <= life' /\ life' \in Nat
  BY <1>1, <1>2 DEF Load, Calls
<1>4. /\ calls' \in Seq(Calls) /\ \A n \in 1..Len(calls') : calls'[n].life <= life'
      /\ Len(calls') \in 1..Len(calls') /\ calls'[Len(calls')] = c
  BY <1>1, <1>3, OneMoreCall
<1>5. MainTypes' /\ ChannelTypes'
  BY <1>1, <1>4 DEF PanelInvariant, PanelTypes, MainTypes, ChannelTypes, main
<1>6. WindowTypes'
  <2>1. life' \in Nat /\ page' \in Nat
    BY <1>1
  <2>2. tools' \in BOOLEAN /\ ended' \in BOOLEAN /\ header' \in Seeds
    BY DEF Load, Seeds
  <2>3. listed' \in [Folders -> Labels]
    BY DEF Load, Labels
  <2>4. scanEvents' \in [Folders -> {NoEvent} \cup [job : Nat, status : Statuses]]
        /\ watchStatus' \in [Folders -> Modes \cup {"none"}]
    BY DEF Load, ResetPanel
  <2> QED BY <2>1, <2>2, <2>3, <2>4 DEF WindowTypes
<1>7. Bounds'
  BY <1>1, <1>4 DEF Bounds
<1>8. HeaderComesTrue'
  BY <1>1 DEF HeaderComesTrue, IsPast, NoEvent, Active
<1>9. WorkComesUp'
  <2>1. SeedIsAsked'
    BY <1>1, <1>2, <1>4 DEF SeedIsAsked
  <2> QED BY <1>1, <2>1 DEF WorkComesUp
<1>10. FlagsAreFollowed'
  BY <1>1 DEF PanelInvariant, FlagsAreFollowed, main
<1>11. \A f \in Folders : ModeComesTrue(f)'
  BY <1>1 DEF ModeComesTrue
<1> QED BY <1>1, <1>5, <1>6, <1>7, <1>8, <1>9, <1>10, <1>11 DEF PanelInvariant, PanelTypes

\* A call more, and nothing else that the invariant is about.
LEMMA ClickKeeps ==
  ASSUME PanelInvariant, NEW c \in Calls, c.life = life, calls' = Append(calls, c),
         UNCHANGED <<main, wire, life, page, header, ended, tools, listed, folderByJob,
                     scanEvents, watchStatus>>
  PROVE  PanelInvariant'
<1>1. c.life <= life' /\ life' \in Nat /\ life <= life'
  BY DEF PanelInvariant, PanelTypes, WindowTypes
<1>2. CallsGo /\ calls' \in Seq(Calls) /\ \A n \in 1..Len(calls') : calls'[n].life <= life'
  BY <1>1, OneMoreCall
<1>3. \A n \in 1..Len(calls) : n \in 1..Len(calls') /\ calls'[n] = calls[n]
  BY <1>2 DEF CallsGo
<1>4. PanelTypes'
  BY <1>2 DEF PanelInvariant, PanelTypes, MainTypes, ChannelTypes, WindowTypes, main
<1>5. Bounds'
  BY <1>2 DEF PanelInvariant, Bounds, Names, MovesHeader, IsStarted, EventOf, main
<1>6. HeaderComesTrue'
  BY DEF PanelInvariant, HeaderComesTrue, IsPast, MovesHeader, EventOf, main
<1>7. SeedIsAsked => SeedIsAsked'
  BY <1>3 DEF SeedIsAsked
<1>8. WorkComesUp'
  BY <1>7 DEF PanelInvariant, WorkComesUp, MovesHeader, ActiveJobs, main
<1>9. FlagsAreFollowed'
  BY DEF PanelInvariant, FlagsAreFollowed, main
<1>10. ASSUME tools, NEW f \in Folders PROVE RowComesTrue(f)'
  <2>1. RowComesTrue(f)
    BY <1>10 DEF PanelInvariant
  <2> QED BY <2>1 DEF RowComesTrue, MovesRow, Told, TellsRow, MissesTheEnd, IsOver, IsStarted, main
<1>11. ASSUME NEW f \in Folders, mode[f] # "forgotten"
       PROVE  ModeComesTrue(f)' /\ (tools => ListComesTrue(f)')
  <2>1. ModeComesTrue(f) /\ (tools => ListComesTrue(f))
    BY <1>11 DEF PanelInvariant
  <2>2. ModeComesTrue(f)'
    BY <2>1 DEF ModeComesTrue, Reports, main
  <2>3. ListIsAsked => ListIsAsked'
    BY <1>3 DEF ListIsAsked
  <2>4. tools => ListComesTrue(f)'
    BY <2>1, <2>3 DEF ListComesTrue, Reports, IsList, IsStale, main
  <2> QED BY <2>2, <2>4
<1> QED BY <1>4, <1>5, <1>6, <1>8, <1>9, <1>10, <1>11 DEF PanelInvariant, main

\* The panel of a new life knows nothing yet, and has asked for the list.
LEMMA OpenKeeps ==
  ASSUME PanelInvariant, OpenTools
  PROVE  PanelInvariant'
<1>1. /\ UNCHANGED main /\ wire' = wire /\ page' = page /\ header' = header /\ ended' = ended
      /\ listed' = listed /\ tools' /\ page # 0 /\ life' = life + 1 /\ life \in Nat /\ life <= life'
      /\ page \in Nat /\ page <= life
      /\ DOMAIN folderByJob' = {} /\ \A f \in Folders : watchStatus'[f] = "none"
  BY DEF OpenTools, ResetPanel, PanelInvariant, PanelTypes, WindowTypes, Bounds
<1>2. PICK c : c = ListCall(life + 1, "mount")
  OBVIOUS
<1>3. c \in Calls /\ calls' = Append(calls, c) /\ c.life <= life' /\ life' \in Nat
  BY <1>1, <1>2 DEF OpenTools, ListCall, Calls, Askers
<1>4. /\ CallsGo /\ calls' \in Seq(Calls) /\ \A n \in 1..Len(calls') : calls'[n].life <= life'
      /\ Len(calls') \in 1..Len(calls') /\ calls'[Len(calls')] = c
  BY <1>1, <1>3, OneMoreCall
<1>5. MainTypes' /\ ChannelTypes'
  BY <1>1, <1>4 DEF PanelInvariant, PanelTypes, MainTypes, ChannelTypes, main
<1>6. WindowTypes'
  BY <1>1 DEF OpenTools, ResetPanel, WindowTypes, PanelInvariant, PanelTypes
<1>7. wire \in Seq(Messages) /\ \A n \in 1..Len(wire) : wire[n] \in Messages /\ Names(wire[n])
  BY ElementOfSeq DEF PanelInvariant, PanelTypes, ChannelTypes, Bounds
<1>8. \A n \in 1..Len(wire) : IsStarted(wire[n]) => wire[n].life \in Nat
  BY <1>7 DEF Messages, IsStarted
<1>9. Bounds'
  <2>1. ASSUME NEW n \in 1..Len(wire') PROVE Names(wire[n])'
    <3>1. wire'[n] = wire[n] /\ Names(wire[n]) /\ (IsStarted(wire[n]) => wire[n].life \in Nat)
      BY <1>1, <1>7, <1>8
    <3> QED BY <1>1, <3>1 DEF Names, MovesHeader, IsStarted, EventOf, main
  <2> QED BY <1>1, <1>4, <2>1 DEF PanelInvariant, Bounds, main
<1>10. HeaderComesTrue'
  BY <1>1 DEF PanelInvariant, HeaderComesTrue, IsPast, MovesHeader, EventOf, main
<1>11. WorkComesUp'
  <2>1. SeedIsAsked => SeedIsAsked'
    BY <1>1, <1>4 DEF SeedIsAsked, CallsGo
  <2> QED BY <1>1, <2>1 DEF PanelInvariant, WorkComesUp, MovesHeader, ActiveJobs, main
<1>12. FlagsAreFollowed'
  BY <1>1 DEF PanelInvariant, FlagsAreFollowed, main
<1>13. ASSUME NEW f \in Folders PROVE RowComesTrue(f)'
  <2>1. \A n \in 1..Len(wire) : ~(IsStarted(wire[n]) /\ wire[n].life = life')
    BY <1>1, <1>7, <1>8 DEF Names
  <2>2. \A n \in 1..Len(wire') : ~TellsRow(wire[n])'
    BY <1>1, <2>1 DEF TellsRow, IsStarted
  <2>3. ASSUME NEW n \in 1..Len(wire') PROVE ~MovesRow(n, f)'
    <3>1. \A k \in 1..n-1 : k \in 1..Len(wire')
      BY <1>1, <1>7, LenProperties
    <3>2. \A i : ~Told(i, n)'
      BY <1>1, <2>2, <3>1 DEF Told
    <3> QED BY <2>2, <3>2 DEF MovesRow
  <2> QED BY <1>1, <2>3 DEF RowComesTrue
<1>14. ASSUME NEW f \in Folders, mode[f] # "forgotten"
       PROVE  ModeComesTrue(f)' /\ ListComesTrue(f)'
  <2>1. ModeComesTrue(f)
    BY <1>14 DEF PanelInvariant
  <2>2. ModeComesTrue(f)'
    BY <1>1, <2>1 DEF ModeComesTrue, Reports, main
  <2>3. ListIsAsked'
    BY <1>1, <1>2, <1>4 DEF ListIsAsked, ListCall
  <2> QED BY <2>2, <2>3 DEF ListComesTrue
<1> QED BY <1>1, <1>5, <1>6, <1>9, <1>10, <1>11, <1>12, <1>13, <1>14 DEF PanelInvariant, PanelTypes, main

\* What is closed shows nothing.
LEMMA CloseKeeps ==
  ASSUME PanelInvariant, CloseTools
  PROVE  PanelInvariant'
<1>1. /\ UNCHANGED <<main, calls, wire, life, page, header, listed, ended>> /\ ~tools'
      /\ DOMAIN folderByJob' = {}
  BY DEF CloseTools, ResetPanel
<1>2. PanelTypes'
  BY <1>1 DEF CloseTools, ResetPanel, PanelInvariant, PanelTypes, MainTypes, ChannelTypes,
              WindowTypes, main
<1>3. Bounds'
  BY <1>1 DEF PanelInvariant, Bounds, Names, MovesHeader, IsStarted, EventOf, main
<1>4. HeaderComesTrue' /\ WorkComesUp' /\ FlagsAreFollowed'
  BY <1>1 DEF PanelInvariant, HeaderComesTrue, IsPast, MovesHeader, EventOf, WorkComesUp,
              SeedIsAsked, ActiveJobs, FlagsAreFollowed, main
<1>5. \A f \in Folders : mode'[f] # "forgotten" => ModeComesTrue(f)'
  BY <1>1 DEF PanelInvariant, ModeComesTrue, Reports, main
<1> QED BY <1>1, <1>2, <1>3, <1>4, <1>5 DEF PanelInvariant

\* Whatever the user does keeps the invariant.
LEMMA UserStep ==
  ASSUME PanelInvariant,
         \/ Load \/ OpenTools \/ CloseTools
         \/ \E f \in Folders : ClickScan(f) \/ ClickRemove(f) \/ ClickToggle(f)
  PROVE  PanelInvariant'
<1>1. ASSUME NEW f \in Folders, NEW name \in Answers, Asks(name, f),
             UNCHANGED <<main, wire, life, page, header, ended, tools, listed, folderByJob,
                         scanEvents, watchStatus>>
      PROVE  PanelInvariant'
  <2>1. PICK c : c = Call(name, f)
    OBVIOUS
  <2>2. c \in Calls /\ c.life = life /\ calls' = Append(calls, c)
    BY <1>1, <2>1 DEF Asks, Call, Calls, PanelInvariant, PanelTypes, WindowTypes
  <2> QED BY <1>1, <2>2, ClickKeeps
<1>2. ASSUME NEW f \in Folders, ClickScan(f) \/ ClickRemove(f) \/ ClickToggle(f)
      PROVE  PanelInvariant'
  <2>1. CASE ClickScan(f)
    BY <1>1, <2>1 DEF ClickScan, Answers, window, panel
  <2>2. CASE ClickRemove(f)
    BY <1>1, <2>2 DEF ClickRemove, Answers
  <2>3. CASE ClickToggle(f)
    BY <1>1, <2>3 DEF ClickToggle, Answers
  <2> QED BY <1>2, <2>1, <2>2, <2>3
<1> QED BY <1>2, LoadKeeps, OpenKeeps, CloseKeeps

-----------------------------------------------------------------------------
(* The main process: what a step that is not about jobs, or not about       *)
(* folders, owes nothing for.                                               *)

\* The jobs are a sequence of records.
LEMMA JobTypes ==
  ASSUME PanelTypes
  PROVE  /\ jobs \in Seq([folder : Folders, status : Statuses]) /\ Len(jobs) \in Nat
         /\ \A i \in 1..Len(jobs) :
              jobs[i] \in [folder : Folders, status : Statuses] /\ jobs[i].status \in Statuses
<1>1. jobs \in Seq([folder : Folders, status : Statuses])
  BY DEF PanelTypes, MainTypes
<1>2. \A i \in 1..Len(jobs) : jobs[i] \in [folder : Folders, status : Statuses]
  BY <1>1, ElementOfSeq
<1> QED BY <1>1, <1>2, LenProperties

\* A step that leaves the jobs alone has no news of them to tell.
LEMMA SameJobs ==
  ASSUME PanelInvariant, WindowWaits, jobs' = jobs, ended' = ended, SeedIsAsked => SeedIsAsked',
         NEW M,
         \A k \in 1..Len(M) : M[k].msg \notin {"progress", "jobs.list"} /\ ~IsStarted(M[k])
  PROVE  JobsStay /\ NewsOfJobs(M)
<1>1. Len(jobs) \in Nat
  BY JobTypes DEF PanelInvariant
<1>2. JobsStay
  BY <1>1 DEF JobsStay
<1>3. ActiveJobs' = ActiveJobs
  BY DEF ActiveJobs
<1>4. \A k \in 1..Len(M) : ~MovesHeader(M[k]) /\ ~MovesHeader(M[k])' /\ ~IsStarted(M[k])
  BY DEF MovesHeader
<1> QED BY <1>1, <1>2, <1>3, <1>4 DEF NewsOfJobs, Names, IsOver, IsStarted

\* A step that leaves the folders alone has no news of them to tell.
LEMMA SameFolders ==
  ASSUME PanelInvariant, mode' = mode, flag' = flag, kept' = kept, ListIsAsked => ListIsAsked',
         NEW M, \A k \in 1..Len(M) : M[k].msg \notin {"status", "watchFolders.list"}
  PROVE  FlagsAreFollowed' /\ NewsOfFolders(M)
<1>1. FlagsAreFollowed'
  BY DEF PanelInvariant, FlagsAreFollowed
<1>2. \A k \in 1..Len(M) : ~IsList(M[k]) /\ \A f \in Folders : ~Reports(M[k], f)
  BY DEF IsList, Reports
<1> QED BY <1>1, <1>2 DEF NewsOfFolders

\* While no call is taken, what was asked for still is.
LEMMA SameCalls ==
  ASSUME calls' = calls, page' = page
  PROVE  (SeedIsAsked => SeedIsAsked') /\ (ListIsAsked => ListIsAsked')
BY DEF SeedIsAsked, ListIsAsked

\* The head of the calls is taken.
LEMMA TakeCall ==
  ASSUME PanelInvariant, page' = page, NEW name, Take(name)
  PROVE  /\ Head(calls) \in Calls /\ Head(calls).call = name
         /\ Head(calls).life \in Nat /\ Head(calls).life <= life
         /\ calls' \in Seq(Calls) /\ \A n \in 1..Len(calls') : calls'[n].life <= life
         /\ (SeedIsAsked => SeedIsAsked' \/ (name = "jobs.list" /\ Head(calls).life = page))
         /\ (ListIsAsked => ListIsAsked' \/ (name = "watchFolders.list" /\ Head(calls).life >= page))
<1>1. calls \in Seq(Calls) /\ calls # <<>> /\ calls' = Tail(calls) /\ Head(calls).call = name
      /\ \A n \in 1..Len(calls) : calls[n].life <= life
  BY DEF PanelInvariant, PanelTypes, ChannelTypes, Bounds, Take
<1>2. Len(calls) \in Nat \ {0} /\ Head(calls) = calls[1]
  BY <1>1, EmptySeq
<1>3. /\ Head(calls) \in Calls /\ calls' \in Seq(Calls) /\ Len(calls') = Len(calls) - 1
      /\ \A n \in 1..Len(calls') : calls'[n] = calls[n + 1]
  BY <1>1, HeadTailProperties
<1>4. \A n \in 1..Len(calls) : n = 1 \/ \E k \in 1..Len(calls') : calls'[k] = calls[n]
  <2>1. ASSUME NEW n \in 1..Len(calls), n # 1 PROVE \E k \in 1..Len(calls') : calls'[k] = calls[n]
    <3>1. n - 1 \in 1..Len(calls') /\ (n - 1) + 1 = n
      BY <1>2, <1>3, <2>1
    <3> QED BY <1>3, <3>1
  <2> QED BY <2>1
<1>5. Head(calls).life \in Nat
  BY <1>3 DEF Calls
<1>6. \A n \in 1..Len(calls') : calls'[n].life <= life
  <2>1. \A n \in 1..Len(calls') : n + 1 \in 1..Len(calls)
    BY <1>2, <1>3
  <2> QED BY <1>1, <1>3, <2>1
<1>7. Head(calls).life <= life
  BY <1>1, <1>2
<1>8. SeedIsAsked => SeedIsAsked' \/ (name = "jobs.list" /\ Head(calls).life = page)
  BY <1>1, <1>2, <1>4 DEF SeedIsAsked
<1>9. ListIsAsked => ListIsAsked' \/ (name = "watchFolders.list" /\ Head(calls).life >= page)
  BY <1>1, <1>2, <1>4 DEF ListIsAsked
<1> QED BY <1>1, <1>3, <1>5, <1>6, <1>7, <1>8, <1>9

\* Types of the window and the wire when the main process goes on.
LEMMA MainTypesKept ==
  ASSUME PanelInvariant, WindowWaits, ended' \in BOOLEAN, MainTypes', calls' \in Seq(Calls),
         NEW M \in Seq(Messages), Send(M)
  PROVE  PanelTypes'
<1>1. wire' \in Seq(Messages)
  BY SendCarries DEF PanelInvariant
<1>2. WindowTypes'
  BY DEF PanelInvariant, PanelTypes, WindowTypes, WindowWaits
<1> QED BY <1>1, <1>2 DEF PanelTypes, ChannelTypes

\* One message is a sequence of messages.
LEMMA SingleMessage ==
  ASSUME NEW m \in Messages
  PROVE  <<m>> \in Seq(Messages) /\ Len(<<m>>) = 1 /\ \A k \in 1..Len(<<m>>) : <<m>>[k] = m
OBVIOUS

\* A reply is a message that says which call it answers.
LEMMA ReplyTypes ==
  ASSUME NEW c \in Calls, c.call \in Answers, NEW ok \in BOOLEAN, NEW job \in Nat
  PROVE  /\ Reply(c, ok, job) \in Messages
         /\ Reply(c, ok, job).msg = c.call /\ Reply(c, ok, job).folder = c.folder
         /\ Reply(c, ok, job).life = c.life /\ Reply(c, ok, job).ok = ok
         /\ Reply(c, ok, job).job = job /\ c.folder \in Folders
BY DEF Reply, Messages, Calls, Answers

\* A step of the main process, its types included.
LEMMA MainStep ==
  ASSUME PanelInvariant, WindowWaits, ended' \in BOOLEAN, MainTypes', JobsStay, FlagsAreFollowed',
         calls' \in Seq(Calls), \A n \in 1..Len(calls') : calls'[n].life <= life,
         NEW M \in Seq(Messages), Send(M), page # 0 => NewsOfJobs(M) /\ NewsOfFolders(M)
  PROVE  PanelInvariant'
<1>1. PanelTypes'
  BY MainTypesKept
<1> QED BY <1>1, MainKeeps

\* Two pieces of what is sent, one after the other.
Joins(C, A, B) ==
  /\ C \in Seq(Messages) /\ Len(A) \in Nat /\ Len(B) \in Nat /\ Len(C) = Len(A) + Len(B)
  /\ \A k \in 1..Len(A) : k \in 1..Len(C) /\ C[k] = A[k]
  /\ \A k \in 1..Len(B) : Len(A) + k \in 1..Len(C) /\ C[Len(A) + k] = B[k]
  /\ \A k \in 1..Len(C) : \/ k \in 1..Len(A) /\ C[k] = A[k]
                          \/ \E j \in 1..Len(B) : k = Len(A) + j /\ C[k] = B[j]

\* Concatenation joins.
LEMMA Pieces ==
  ASSUME NEW A \in Seq(Messages), NEW B \in Seq(Messages)
  PROVE  Joins(A \o B, A, B)
<1> DEFINE C == A \o B
<1>1. Len(A) \in Nat /\ Len(B) \in Nat
  BY LenProperties
<1>2. /\ C \in Seq(Messages) /\ Len(C) = Len(A) + Len(B)
      /\ \A i \in 1..Len(A) + Len(B) : C[i] = IF i <= Len(A) THEN A[i] ELSE B[i - Len(A)]
  BY ConcatProperties
<1> HIDE DEF C
<1>3. \A k \in 1..Len(A) : k \in 1..Len(C) /\ C[k] = A[k]
  BY <1>1, <1>2
<1>4. ASSUME NEW k \in 1..Len(B)
      PROVE  Len(A) + k \in 1..Len(C) /\ C[Len(A) + k] = B[k]
  <2>1. Len(A) + k \in 1..Len(A) + Len(B) /\ ~(Len(A) + k <= Len(A)) /\ Len(A) + k - Len(A) = k
    BY <1>1
  <2> QED BY <1>2, <2>1
<1>5. ASSUME NEW k \in 1..Len(C), k \notin 1..Len(A)
      PROVE  \E j \in 1..Len(B) : k = Len(A) + j /\ C[k] = B[j]
  <2>1. k - Len(A) \in 1..Len(B) /\ k = Len(A) + (k - Len(A))
    BY <1>1, <1>2, <1>5
  <2> QED BY <1>4, <2>1
<1>6. Joins(C, A, B)
  BY <1>1, <1>2, <1>3, <1>4, <1>5 DEF Joins
<1> QED BY <1>6 DEF C

\* What enqueueScan sends, among what its caller sends.
EnqueueSent(M, i, starts, before, after) ==
  /\ M \in Seq(Messages) /\ Len(M) \in Nat /\ Len(before) \in Nat
  /\ \A b \in 1..Len(before) : b \in 1..Len(M) /\ M[b] = before[b]
  /\ Len(before) + 1 \in 1..Len(M) /\ M[Len(before) + 1] = Progress(i, "queued")
  /\ starts => Len(before) + 2 \in 1..Len(M) /\ M[Len(before) + 2] = Progress(i, "running")
  /\ \A k \in 1..Len(M) :
       \/ \E b \in 1..Len(before) : M[k] = before[b]
       \/ k = Len(before) + 1
       \/ starts /\ M[k] = Progress(i, "running")
       \/ \E j \in 1..Len(after) : M[k] = after[j]

\* The place of each event among what is sent.
LEMMA EnqueueSends ==
  ASSUME NEW before \in Seq(Messages), NEW after \in Seq(Messages), NEW i \in Nat,
         NEW starts \in BOOLEAN, NEW M,
         M = before \o <<Progress(i, "queued")>>
               \o (IF starts THEN <<Progress(i, "running")>> ELSE <<>>) \o after
  PROVE  EnqueueSent(M, i, starts, before, after)
<1>1. PICK Q : Q = <<Progress(i, "queued")>>
  OBVIOUS
<1>2. PICK R : R = IF starts THEN <<Progress(i, "running")>> ELSE <<>>
  OBVIOUS
<1>3. Progress(i, "queued") \in Messages /\ Progress(i, "running") \in Messages
  BY DEF Progress, Messages, Statuses
<1>4. Q \in Seq(Messages) /\ Len(Q) = 1 /\ Q[1] = Progress(i, "queued")
  BY <1>1, <1>3
<1>5. R \in Seq(Messages) /\ Len(R) = (IF starts THEN 1 ELSE 0)
      /\ \A k \in 1..Len(R) : starts /\ R[k] = Progress(i, "running")
  BY <1>2, <1>3
<1>6. PICK H : H = before \o Q
  OBVIOUS
<1>7. /\ H \in Seq(Messages) /\ Len(before) \in Nat /\ Len(H) = Len(before) + 1
      /\ \A b \in 1..Len(before) : b \in 1..Len(H) /\ H[b] = before[b]
      /\ Len(before) + 1 \in 1..Len(H) /\ H[Len(before) + 1] = Progress(i, "queued")
      /\ \A k \in 1..Len(H) : (k \in 1..Len(before) /\ H[k] = before[k]) \/ k = Len(before) + 1
  <2>1. Joins(H, before, Q)
    BY <1>4, <1>6, Pieces
  <2> QED BY <1>4, <2>1 DEF Joins
<1>8. PICK G : G = H \o R
  OBVIOUS
<1>9. /\ G \in Seq(Messages) /\ Len(G) \in Nat /\ Len(G) = Len(H) + Len(R)
      /\ \A k \in 1..Len(H) : k \in 1..Len(G) /\ G[k] = H[k]
      /\ \A k \in 1..Len(R) : Len(H) + k \in 1..Len(G) /\ G[Len(H) + k] = R[k]
      /\ \A k \in 1..Len(G) : \/ k \in 1..Len(H) /\ G[k] = H[k]
                              \/ starts /\ G[k] = Progress(i, "running")
  <2>1. Joins(G, H, R)
    BY <1>5, <1>7, <1>8, Pieces
  <2>2. ASSUME NEW k \in 1..Len(G), \E j \in 1..Len(R) : k = Len(H) + j /\ G[k] = R[j]
        PROVE  starts /\ G[k] = Progress(i, "running")
    BY <1>5, <2>2
  <2>3. \A k \in 1..Len(G) : \/ k \in 1..Len(H) /\ G[k] = H[k]
                             \/ starts /\ G[k] = Progress(i, "running")
    BY <2>1, <2>2 DEF Joins
  <2>4. Len(G) \in Nat
    BY <2>1 DEF Joins
  <2> QED BY <2>1, <2>3, <2>4 DEF Joins
<1>10. M = G \o after
  BY <1>1, <1>2, <1>6, <1>8
<1>11. /\ M \in Seq(Messages) /\ Len(M) = Len(G) + Len(after) /\ Len(after) \in Nat
       /\ \A k \in 1..Len(G) : k \in 1..Len(M) /\ M[k] = G[k]
       /\ \A k \in 1..Len(M) : \/ k \in 1..Len(G) /\ M[k] = G[k]
                               \/ \E j \in 1..Len(after) : M[k] = after[j]
  <2>1. Joins(M, G, after)
    BY <1>9, <1>10, Pieces
  <2> QED BY <2>1 DEF Joins
<1>12. Len(M) \in Nat
  BY <1>9, <1>11
<1>13. \A b \in 1..Len(before) : b \in 1..Len(M) /\ M[b] = before[b]
  BY <1>7, <1>9, <1>11
<1>14. Len(before) + 1 \in 1..Len(M) /\ M[Len(before) + 1] = Progress(i, "queued")
  BY <1>7, <1>9, <1>11
<1>15. ASSUME starts
       PROVE  Len(before) + 2 \in 1..Len(M) /\ M[Len(before) + 2] = Progress(i, "running")
  <2>1. 1 \in 1..Len(R) /\ R[1] = Progress(i, "running") /\ Len(H) + 1 = Len(before) + 2
    BY <1>5, <1>7, <1>15
  <2>2. Len(before) + 2 \in 1..Len(G) /\ G[Len(before) + 2] = Progress(i, "running")
    BY <1>9, <2>1
  <2> QED BY <1>11, <2>2
<1>16. ASSUME NEW k \in 1..Len(M)
       PROVE  \/ \E b \in 1..Len(before) : M[k] = before[b]
              \/ k = Len(before) + 1
              \/ starts /\ M[k] = Progress(i, "running")
              \/ \E j \in 1..Len(after) : M[k] = after[j]
  <2>1. CASE k \in 1..Len(G) /\ M[k] = G[k]
    <3>1. CASE k \in 1..Len(H) /\ G[k] = H[k]
      BY <1>7, <2>1, <3>1
    <3> QED BY <1>9, <2>1, <3>1
  <2> QED BY <1>11, <2>1
<1> QED BY <1>7, <1>11, <1>12, <1>13, <1>14, <1>15, <1>16 DEF EnqueueSent

TellsOfScan(M, before) ==
  /\ Send(M) /\ NewsOfJobs(M)
  /\ \A b \in 1..Len(before) : \E k \in 1..Len(M) : M[k] = before[b]
  /\ \A k \in 1..Len(M) : \/ \E b \in 1..Len(before) : M[k] = before[b]
                          \/ M[k].msg \in {"progress", "jobs.enqueueScan"}

\* A job enqueued is told as queued and then, if it starts at once, as running.
LEMMA EnqueueNews ==
  ASSUME PanelInvariant, WindowWaits, ended' = ended, NEW f \in Folders,
         NEW before \in Seq(Messages), NEW after \in Seq(Messages), EnqueueScan(f, before, after),
         \A b \in 1..Len(before) : before[b].msg = "status",
         \A j \in 1..Len(after) : /\ after[j].msg = "jobs.enqueueScan" /\ after[j].life <= life
                                  /\ after[j].job = Len(jobs) + 1 /\ after[j].folder = f
  PROVE  /\ jobs' \in Seq([folder : Folders, status : Statuses]) /\ JobsStay
         /\ \E M \in Seq(Messages) : TellsOfScan(M, before)
<1>1. jobs \in Seq([folder : Folders, status : Statuses]) /\ Len(jobs) \in Nat
  BY JobTypes DEF PanelInvariant
<1>2. PICK i \in Nat : i = Len(jobs) + 1
  BY <1>1
<1>3. PICK starts \in BOOLEAN : starts <=> Cardinality(Running) < PoolSize
  OBVIOUS
<1>4. PICK e : e = [folder |-> f, status |-> IF starts THEN "running" ELSE "queued"]
  OBVIOUS
<1>5. jobs' = Append(jobs, e) /\ e \in [folder : Folders, status : Statuses]
  BY <1>3, <1>4 DEF EnqueueScan, Statuses
<1>6. /\ jobs' \in Seq([folder : Folders, status : Statuses]) /\ Len(jobs') = i
      /\ i \in 1..Len(jobs') /\ jobs'[i] = e
      /\ \A k \in 1..Len(jobs) : k \in 1..Len(jobs') /\ jobs'[k] = jobs[k]
  BY <1>1, <1>2, <1>5
<1>7. JobsStay
  BY <1>1, <1>2, <1>6 DEF JobsStay
<1>8. PICK M : M = before \o <<Progress(i, "queued")>>
                     \o (IF starts THEN <<Progress(i, "running")>> ELSE <<>>) \o after
  BY Zenon
<1>9. Send(M)
  BY <1>2, <1>3, <1>8 DEF EnqueueScan
<1>10. /\ M \in Seq(Messages) /\ Len(M) \in Nat /\ Len(before) \in Nat
       /\ \A b \in 1..Len(before) : b \in 1..Len(M) /\ M[b] = before[b]
       /\ Len(before) + 1 \in 1..Len(M) /\ M[Len(before) + 1] = Progress(i, "queued")
       /\ starts => Len(before) + 2 \in 1..Len(M) /\ M[Len(before) + 2] = Progress(i, "running")
       /\ \A k \in 1..Len(M) :
            \/ \E b \in 1..Len(before) : M[k] = before[b]
            \/ k = Len(before) + 1
            \/ starts /\ M[k] = Progress(i, "running")
            \/ \E j \in 1..Len(after) : M[k] = after[j]
  <2>1. EnqueueSent(M, i, starts, before, after)
    BY <1>8, EnqueueSends
  <2> QED BY <2>1 DEF EnqueueSent
<1>11. life' = life
  BY DEF WindowWaits
<1>12. ASSUME NEW k \in 1..Len(M)
       PROVE  /\ Names(M[k])'
              /\ MovesHeader(M[k]) /\ IsPast(EventOf(M[k]))' =>
                   \E l \in k+1..Len(M) : MovesHeader(M[l])
              /\ M[k].msg = "progress" => M[k].status \in Active \/ ended'
              /\ M[k].msg = "progress" \/ IsStarted(M[k]) => ~MissesTheEnd(M[k])'
  <2>1. CASE \E b \in 1..Len(before) : M[k] = before[b]
    <3>1. M[k].msg = "status"
      BY <2>1
    <3> QED BY <3>1 DEF Names, MovesHeader, IsStarted
  <2>2. CASE k = Len(before) + 1
    <3>1. M[k].msg = "progress" /\ M[k].job = i /\ M[k].status = "queued"
      BY <1>10, <2>2 DEF Progress
    <3>2. Names(M[k])' /\ M[k].status \in Active /\ ~MissesTheEnd(M[k])'
      BY <1>4, <1>6, <3>1 DEF Names, MovesHeader, IsStarted, EventOf, Active, MissesTheEnd, IsOver
    <3>3. ASSUME IsPast(EventOf(M[k]))' PROVE \E l \in k+1..Len(M) : MovesHeader(M[l])
      <4>1. starts
        BY <1>4, <1>6, <3>1, <3>3 DEF IsPast, EventOf
      <4>2. Len(before) + 2 \in k+1..Len(M)
        BY <1>10, <2>2, <4>1
      <4>3. MovesHeader(M[Len(before) + 2])
        BY <1>10, <4>1 DEF MovesHeader, Progress
      <4> QED BY <4>2, <4>3
    <3> QED BY <3>2, <3>3
  <2>3. CASE starts /\ M[k] = Progress(i, "running")
    <3>1. M[k].msg = "progress" /\ M[k].job = i /\ M[k].status = "running" /\ e.status = "running"
      BY <1>4, <2>3 DEF Progress
    <3> QED BY <1>6, <3>1 DEF Names, MovesHeader, IsStarted, EventOf, Active, MissesTheEnd,
                              IsOver, IsPast
  <2>4. CASE \E j \in 1..Len(after) : M[k] = after[j]
    <3>1. M[k].msg = "jobs.enqueueScan" /\ M[k].life <= life /\ M[k].job = i /\ M[k].folder = f
      BY <1>2, <2>4
    <3>2. e.folder = f /\ e.status # "over"
      BY <1>4
    <3> QED BY <1>6, <1>11, <3>1, <3>2 DEF Names, MovesHeader, IsStarted, MissesTheEnd, IsOver
  <2> QED BY <1>10, <2>1, <2>2, <2>3, <2>4
<1>13. \E k \in 1..Len(M) : MovesHeader(M[k])
  BY <1>10 DEF MovesHeader, Progress
<1>14. NewsOfJobs(M)
  <2>1. \A k \in 1..Len(jobs) : jobs'[k].status = jobs[k].status /\ (IsOver(k)' => IsOver(k))
    BY <1>6 DEF IsOver
  <2> QED BY <1>12, <1>13, <2>1 DEF NewsOfJobs
<1>15. \A k \in 1..Len(M) : \/ \E b \in 1..Len(before) : M[k] = before[b]
                            \/ M[k].msg \in {"progress", "jobs.enqueueScan"}
  <2>1. ASSUME NEW k \in 1..Len(M) PROVE \/ \E b \in 1..Len(before) : M[k] = before[b]
                                         \/ M[k].msg \in {"progress", "jobs.enqueueScan"}
    <3>1. CASE k = Len(before) + 1 \/ (starts /\ M[k] = Progress(i, "running"))
      BY <1>10, <3>1 DEF Progress
    <3> QED BY <1>10, <3>1
  <2> QED BY <2>1
<1>16. \A b \in 1..Len(before) : \E k \in 1..Len(M) : M[k] = before[b]
  BY <1>10
<1>17. TellsOfScan(M, before)
  BY <1>9, <1>14, <1>15, <1>16 DEF TellsOfScan
<1> QED BY <1>6, <1>7, <1>10, <1>17

-----------------------------------------------------------------------------
(* The main process: one lemma for each of its actions.                     *)

\* A step that leaves the main process alone keeps its types.
LEMMA QuietMain ==
  ASSUME PanelInvariant, UNCHANGED main
  PROVE  MainTypes' /\ FlagsAreFollowed'
BY DEF PanelInvariant, PanelTypes, MainTypes, FlagsAreFollowed, main

\* Nor do calls change that are not taken.
LEMMA SameCallTypes ==
  ASSUME PanelInvariant, calls' = calls
  PROVE  calls' \in Seq(Calls) /\ \A n \in 1..Len(calls') : calls'[n].life <= life
BY DEF PanelInvariant, PanelTypes, ChannelTypes, Bounds

\* The main process does not touch the window.
LEMMA WindowTyped ==
  ASSUME PanelInvariant
  PROVE  /\ life \in Nat /\ page \in Nat /\ ended \in BOOLEAN
         /\ window' = window => WindowWaits
BY DEF PanelInvariant, PanelTypes, WindowTypes, WindowWaits, window, panel

\* A report of progress says what is so.
LEMMA TickStep ==
  ASSUME PanelInvariant, NEW i \in 1..Len(jobs), Tick(i)
  PROVE  PanelInvariant'
<1>1. UNCHANGED <<main, calls, ended>> /\ window' = window /\ WindowWaits /\ ended' \in BOOLEAN
      /\ jobs' = jobs
  BY WindowTyped DEF Tick, main
<1>2. MainTypes' /\ FlagsAreFollowed' /\ calls' \in Seq(Calls)
      /\ \A n \in 1..Len(calls') : calls'[n].life <= life
  BY <1>1, QuietMain, SameCallTypes
<1>3. (SeedIsAsked => SeedIsAsked') /\ (ListIsAsked => ListIsAsked')
  BY <1>1, SameCalls DEF WindowWaits
<1>4. Len(jobs) \in Nat /\ jobs[i].status = "running" /\ JobsStay
  BY <1>1, JobTypes DEF PanelInvariant, Tick, Running, JobsStay
<1>5. PICK m : m = Progress(i, "running")
  OBVIOUS
<1>6. m.msg = "progress" /\ m.job = i /\ m.status = "running" /\ m \in Messages
  BY <1>4, <1>5 DEF Progress, Messages, Statuses
<1>7. PICK M : M = <<m>>
  OBVIOUS
<1>8. M \in Seq(Messages) /\ Len(M) = 1 /\ \A k \in 1..Len(M) : M[k] = m
  BY <1>6, <1>7, SingleMessage
<1>9. Send(M)
  BY <1>5, <1>7 DEF Tick
<1>10. NewsOfFolders(M)
  BY <1>1, <1>3, <1>6, <1>8, SameFolders DEF main
<1>11. NewsOfJobs(M)
  <2>1. /\ Names(m)' /\ ~IsPast(EventOf(m))' /\ ~MissesTheEnd(m)' /\ MovesHeader(m)
        /\ m.status \in Active
    BY <1>1, <1>4, <1>6 DEF Names, MovesHeader, IsStarted, EventOf, IsPast, MissesTheEnd, IsOver, Active
  <2>2. 1 \in 1..Len(M) /\ MovesHeader(M[1])
    BY <1>8, <2>1
  <2>3. ASSUME NEW k \in 1..Len(M)
        PROVE  Names(M[k])' /\ ~IsPast(EventOf(M[k]))' /\ ~MissesTheEnd(M[k])'
    <3>1. M[k] = m
      BY <1>8
    <3> QED BY <2>1, <3>1
  <2>4. \A n \in 1..Len(jobs) : jobs'[n].status = jobs[n].status /\ (IsOver(n)' <=> IsOver(n))
    BY <1>1 DEF IsOver
  <2> QED BY <1>1, <1>6, <1>8, <2>1, <2>2, <2>3, <2>4 DEF NewsOfJobs
<1> QED BY <1>1, <1>2, <1>4, <1>8, <1>9, <1>10, <1>11, MainStep

\* The events of an end: the one that is over, and the one that is spawned, if any.
LEMMA EndNews ==
  ASSUME PanelInvariant, WindowWaits, ended' = TRUE, Len(jobs') = Len(jobs), JobsStay,
         NEW i \in 1..Len(jobs), NEW j \in 0..Len(jobs), j # i,
         SeedIsAsked => SeedIsAsked',
         \A k \in 1..Len(jobs) :
           jobs'[k].status = IF k = i THEN "over" ELSE IF k = j THEN "running" ELSE jobs[k].status,
         j # 0 => jobs[j].status = "queued",
         NEW M, Len(M) = (IF j = 0 THEN 1 ELSE 2),
         M[1] = Progress(i, "over"), j # 0 => M[2] = Progress(j, "running")
  PROVE  NewsOfJobs(M)
<1>1. Len(jobs) \in Nat
  BY JobTypes DEF PanelInvariant
<1>2. M[1].msg = "progress" /\ M[1].job = i /\ M[1].status = "over"
  BY DEF Progress
<1>3. j # 0 => M[2].msg = "progress" /\ M[2].job = j /\ M[2].status = "running"
  BY DEF Progress
<1>4. 1 \in 1..Len(M) /\ MovesHeader(M[1])
  BY <1>2 DEF MovesHeader
<1>5. \A k \in 1..Len(M) : k = 1 \/ (k = 2 /\ j # 0)
  OBVIOUS
<1>6. \A k \in 1..Len(jobs) : IsOver(k)' /\ ~IsOver(k) => k = i
  BY DEF IsOver
<1>7. ASSUME NEW k \in 1..Len(M)
      PROVE  Names(M[k])' /\ ~IsPast(EventOf(M[k]))' /\ ~MissesTheEnd(M[k])'
  <2>1. CASE k = 1
    <3>1. Names(M[1])' /\ ~IsPast(EventOf(M[1]))' /\ ~MissesTheEnd(M[1])'
      BY <1>2 DEF Names, MovesHeader, IsStarted, EventOf, IsPast, MissesTheEnd, IsOver, Active
    <3> QED BY <2>1, <3>1
  <2>2. CASE k = 2 /\ j # 0
    <3>1. j \in 1..Len(jobs') /\ jobs'[j].status = "running"
      BY <1>1, <2>2
    <3>2. Names(M[2])' /\ ~IsPast(EventOf(M[2]))' /\ ~MissesTheEnd(M[2])'
      BY <1>3, <2>2, <3>1 DEF Names, MovesHeader, IsStarted, EventOf, IsPast, MissesTheEnd, IsOver, Active
    <3> QED BY <2>2, <3>2
  <2> QED BY <1>5, <2>1, <2>2
<1> QED BY <1>2, <1>4, <1>6, <1>7 DEF NewsOfJobs

\* An end is told, and the start of the job that follows it.
LEMMA EndStep ==
  ASSUME PanelInvariant, NEW i \in 1..Len(jobs), End(i)
  PROVE  PanelInvariant'
<1>1. /\ UNCHANGED <<kept, flag, mode, ready, waiting, calls, window>> /\ window' = window
      /\ WindowWaits /\ ended' = (page # 0) /\ ended' \in BOOLEAN
  BY WindowTyped DEF End
<1>2. calls' \in Seq(Calls) /\ \A n \in 1..Len(calls') : calls'[n].life <= life
  BY <1>1, SameCallTypes
<1>3. (SeedIsAsked => SeedIsAsked') /\ (ListIsAsked => ListIsAsked')
  BY <1>1, SameCalls DEF WindowWaits
<1>4. /\ jobs \in Seq([folder : Folders, status : Statuses]) /\ Len(jobs) \in Nat
      /\ \A k \in 1..Len(jobs) : jobs[k] \in [folder : Folders, status : Statuses]
  BY JobTypes DEF PanelInvariant
<1>5. PICK Q : Q = {k \in 1..Len(jobs) : jobs[k].status = "queued"}
  OBVIOUS
<1>6. PICK j : j = IF Q = {} THEN 0 ELSE Min(Q)
  OBVIOUS
<1>7. Q \in SUBSET Nat /\ (Q # {} => j \in Q) /\ (Q = {} => j = 0)
  <2>1. Q \in SUBSET Nat
    BY <1>4, <1>5
  <2> QED BY <1>6, <2>1, LeastOfNats
<1>8. /\ j \in 0..Len(jobs) /\ j # i /\ (j # 0 => jobs[j].status = "queued")
      /\ jobs[i].status = "running" /\ (j = 0 <=> Q = {})
  BY <1>4, <1>5, <1>7 DEF End, Running
<1>9. /\ jobs' = [k \in 1..Len(jobs) |->
                   CASE k = i -> [jobs[k] EXCEPT !.status = "over"]
                     [] k = j -> [jobs[k] EXCEPT !.status = "running"]
                     [] OTHER -> jobs[k]]
      /\ Send(<<Progress(i, "over")>> \o (IF j = 0 THEN <<>> ELSE <<Progress(j, "running")>>))
  BY <1>5, <1>6 DEF End
<1>10. \A k \in 1..Len(jobs) :
         /\ jobs'[k] \in [folder : Folders, status : Statuses]
         /\ jobs'[k].folder = jobs[k].folder
         /\ jobs'[k].status = IF k = i THEN "over" ELSE IF k = j THEN "running" ELSE jobs[k].status
  BY <1>4, <1>8, <1>9 DEF Statuses
<1>11. jobs' \in Seq([folder : Folders, status : Statuses]) /\ Len(jobs') = Len(jobs)
  <2>1. jobs' \in [1..Len(jobs) -> [folder : Folders, status : Statuses]]
    BY <1>9, <1>10
  <2> QED BY <1>4, <2>1
<1>12. JobsStay
  BY <1>4, <1>10, <1>11 DEF JobsStay
<1>13. MainTypes'
  BY <1>1, <1>11 DEF MainTypes, PanelInvariant, PanelTypes
<1>14. PICK M : M = <<Progress(i, "over")>> \o (IF j = 0 THEN <<>> ELSE <<Progress(j, "running")>>)
  BY Zenon
<1>15. M = (IF j = 0 THEN <<Progress(i, "over")>> ELSE <<Progress(i, "over"), Progress(j, "running")>>)
  BY <1>14
<1>16. Progress(i, "over") \in Messages /\ (j # 0 => Progress(j, "running") \in Messages)
  BY <1>4, <1>8 DEF Progress, Messages, Statuses
<1>17. M \in Seq(Messages) /\ Len(M) = (IF j = 0 THEN 1 ELSE 2)
       /\ M[1] = Progress(i, "over") /\ (j # 0 => M[2] = Progress(j, "running"))
  BY <1>15, <1>16
<1>18. page # 0 => NewsOfJobs(M)
  BY <1>1, <1>3, <1>8, <1>10, <1>11, <1>12, <1>17, EndNews
<1>19. \A k \in 1..Len(M) : M[k].msg = "progress"
  <2>1. ASSUME NEW k \in 1..Len(M) PROVE k = 1 \/ (k = 2 /\ j # 0)
    BY <1>17
  <2> QED BY <1>17, <2>1 DEF Progress
<1>20. FlagsAreFollowed' /\ NewsOfFolders(M)
  BY <1>1, <1>3, <1>19, SameFolders
<1>21. Send(M)
  BY <1>9, <1>14
<1> QED BY <1>1, <1>2, <1>12, <1>13, <1>17, <1>18, <1>20, <1>21, MainStep

\* The seed is true when it is sent, and takes the place of the call that asked for it.
LEMMA ListJobsStep ==
  ASSUME PanelInvariant, ListJobs
  PROVE  PanelInvariant'
<1>1. UNCHANGED <<main, ended>> /\ WindowWaits /\ ended' \in BOOLEAN /\ jobs' = jobs /\ page' = page
  BY WindowTyped DEF ListJobs, main, WindowWaits
<1>2. MainTypes' /\ FlagsAreFollowed'
  BY <1>1, QuietMain
<1>3. Take("jobs.list")
  BY DEF ListJobs
<1>4. /\ Head(calls).life \in Nat /\ calls' \in Seq(Calls)
      /\ \A n \in 1..Len(calls') : calls'[n].life <= life
      /\ (SeedIsAsked => SeedIsAsked' \/ Head(calls).life = page)
      /\ (ListIsAsked => ListIsAsked')
  <2>1. "jobs.list" # "watchFolders.list"
    OBVIOUS
  <2> QED BY <1>1, <1>3, <2>1, TakeCall
<1>5. Len(jobs) \in Nat /\ JobsStay /\ \A k \in 1..Len(jobs) : jobs[k].status \in Statuses
  BY <1>1, JobTypes DEF PanelInvariant, JobsStay
<1>6. PICK A : A = ActiveJobs
  OBVIOUS
<1>7. PICK i : i = Min(A)
  OBVIOUS
<1>8. A # {} => i \in 1..Len(jobs) /\ jobs[i].status \in Active
  <2>1. A \in SUBSET Nat
    BY <1>5, <1>6 DEF ActiveJobs
  <2>2. A # {} => i \in A
    BY <1>7, <2>1, LeastOfNats
  <2> QED BY <1>6, <2>2 DEF ActiveJobs
<1>9. PICK seed : seed = IF A = {} THEN NoEvent ELSE [job |-> i, status |-> jobs[i].status]
  OBVIOUS
<1>10. /\ A = {} => seed = NoEvent
       /\ A # {} => seed \in Seeds /\ seed # NoEvent /\ seed.job = i /\ seed.status = jobs[i].status
  BY <1>5, <1>8, <1>9 DEF Seeds, NoEvent
<1>11. PICK m : m = [msg |-> "jobs.list", life |-> Head(calls).life, seed |-> seed]
  OBVIOUS
<1>12. m \in Messages /\ m.msg = "jobs.list" /\ m.life = Head(calls).life /\ m.seed = seed
  <2>1. seed \in Seeds
    BY <1>10 DEF Seeds
  <2> QED BY <1>4, <1>11, <2>1 DEF Messages
<1>13. PICK M : M = <<m>>
  OBVIOUS
<1>14. M \in Seq(Messages) /\ Len(M) = 1 /\ \A k \in 1..Len(M) : M[k] = m
  BY <1>12, <1>13, SingleMessage
<1>15. Send(M)
  BY <1>6, <1>7, <1>9, <1>11, <1>13 DEF ListJobs
<1>16. NewsOfFolders(M)
  BY <1>1, <1>4, <1>12, <1>14, SameFolders DEF main
<1>17. NewsOfJobs(M)
  <2>1. MovesHeader(m) => A # {}
    BY <1>10, <1>12 DEF MovesHeader
  <2>2. MovesHeader(m)' <=> MovesHeader(m)
    BY <1>1 DEF MovesHeader
  <2>3. ASSUME MovesHeader(m)
        PROVE  EventOf(m)' = seed /\ seed.job \in 1..Len(jobs) /\ ~IsPast(seed)'
    BY <1>1, <1>8, <1>10, <1>12, <2>1, <2>3 DEF EventOf, IsPast
  <2>4. Names(m)' /\ (MovesHeader(m) => ~IsPast(EventOf(m))') /\ ~IsStarted(m)
    BY <1>1, <1>12, <2>2, <2>3 DEF Names, IsStarted, EventOf, IsPast
  <2>5. ActiveJobs' = A
    BY <1>1, <1>6 DEF ActiveJobs
  <2>6. A # {} /\ SeedIsAsked /\ ~SeedIsAsked' => MovesHeader(m)
    BY <1>4, <1>10, <1>12 DEF MovesHeader
  <2>7. 1 \in 1..Len(M) /\ M[1] = m
    BY <1>14
  <2>8. ASSUME NEW k \in 1..Len(M)
        PROVE  Names(M[k])' /\ (MovesHeader(M[k]) => ~IsPast(EventOf(M[k]))')
    <3>1. M[k] = m
      BY <1>14
    <3> QED BY <2>4, <3>1
  <2>9. \A n \in 1..Len(jobs) : jobs'[n].status = jobs[n].status /\ (IsOver(n)' <=> IsOver(n))
    BY <1>1 DEF IsOver
  <2>10. ActiveJobs' # {} /\ (ActiveJobs = {} \/ (SeedIsAsked /\ ~SeedIsAsked')) =>
           \E k \in 1..Len(M) : MovesHeader(M[k])
    BY <1>6, <2>5, <2>6, <2>7
  <2>11. \A k \in 1..Len(M) : M[k].msg # "progress" /\ ~IsStarted(M[k])
    BY <1>12, <1>14, <2>4
  <2> QED BY <1>1, <2>8, <2>9, <2>10, <2>11 DEF NewsOfJobs
<1> QED BY <1>1, <1>2, <1>4, <1>5, <1>14, <1>15, <1>16, <1>17, MainStep

\* So is the list of the folders.
LEMMA ListFoldersStep ==
  ASSUME PanelInvariant, ListFolders
  PROVE  PanelInvariant'
<1>1. UNCHANGED <<main, ended>> /\ WindowWaits /\ ended' \in BOOLEAN /\ jobs' = jobs /\ page' = page
      /\ ended' = ended
  BY WindowTyped DEF ListFolders, main, WindowWaits
<1>2. MainTypes' /\ FlagsAreFollowed'
  BY <1>1, QuietMain
<1>3. Take("watchFolders.list")
  BY DEF ListFolders
<1>4. /\ Head(calls).life \in Nat /\ calls' \in Seq(Calls)
      /\ \A n \in 1..Len(calls') : calls'[n].life <= life
      /\ (SeedIsAsked => SeedIsAsked')
      /\ (ListIsAsked => ListIsAsked' \/ Head(calls).life >= page)
      /\ Head(calls) \in Calls /\ Head(calls).call = "watchFolders.list"
  <2>1. "jobs.list" # "watchFolders.list"
    OBVIOUS
  <2> QED BY <1>1, <1>3, <2>1, TakeCall
<1>5. PICK rows : rows = [f \in Folders |-> IF f \notin kept THEN "absent"
                                           ELSE IF flag[f] THEN "on" ELSE "off"]
  OBVIOUS
<1>6. rows \in [Folders -> Labels] /\ \A f \in Folders : ~IsStale(rows[f], f)
  BY <1>5 DEF Labels, IsStale
<1>7. PICK m : m = [msg |-> "watchFolders.list", life |-> Head(calls).life,
                   asker |-> Head(calls).asker, rows |-> rows]
  OBVIOUS
<1>8. m \in Messages /\ m.msg = "watchFolders.list" /\ m.life = Head(calls).life /\ m.rows = rows
  <2>1. Head(calls).asker \in Askers
    BY <1>4 DEF Calls, Answers
  <2> QED BY <1>4, <1>6, <1>7, <2>1 DEF Messages
<1>9. PICK M : M = <<m>>
  OBVIOUS
<1>10. M \in Seq(Messages) /\ Len(M) = 1 /\ \A k \in 1..Len(M) : M[k] = m
  BY <1>8, <1>9, SingleMessage
<1>11. Send(M)
  BY <1>5, <1>7, <1>9 DEF ListFolders
<1>12. JobsStay /\ NewsOfJobs(M)
  <2>1. \A k \in 1..Len(M) : M[k].msg \notin {"progress", "jobs.list"} /\ ~IsStarted(M[k])
    BY <1>8, <1>10 DEF IsStarted
  <2> QED BY <1>1, <1>4, <2>1, SameJobs
<1>13. NewsOfFolders(M)
  <2>1. ListIsAsked => ListIsAsked' \/ \E k \in 1..Len(M) : IsList(M[k])
    BY <1>4, <1>8, <1>10 DEF IsList
  <2>2. \A k \in 1..Len(M) : \A f \in Folders : ~Reports(M[k], f) /\ M[k].rows = rows
    BY <1>8, <1>10 DEF Reports
  <2>3. \A f \in Folders : ~IsStale(rows[f], f)'
    BY <1>1, <1>6 DEF IsStale, main
  <2>4. mode' = mode /\ flag' = flag
    BY <1>1 DEF main
  <2>5. ASSUME NEW k \in 1..Len(M), NEW f \in Folders PROVE ~IsStale(M[k].rows[f], f)'
    <3>1. M[k].rows = rows
      BY <2>2
    <3> QED BY <2>3, <3>1
  <2> QED BY <2>1, <2>2, <2>4, <2>5 DEF NewsOfFolders
<1> QED BY <1>1, <1>2, <1>4, <1>10, <1>11, <1>12, <1>13, MainStep

\* A scan of the watch manager tells its events.
LEMMA ScanUnaskedStep ==
  ASSUME PanelInvariant, NEW f \in Folders, ScanUnasked(f)
  PROVE  PanelInvariant'
<1>1. UNCHANGED <<kept, flag, mode, ready, waiting, calls, ended>> /\ window' = window
      /\ WindowWaits /\ ended' \in BOOLEAN
  BY WindowTyped DEF ScanUnasked
<1>2. calls' \in Seq(Calls) /\ \A n \in 1..Len(calls') : calls'[n].life <= life
  BY <1>1, SameCallTypes
<1>3. (SeedIsAsked => SeedIsAsked') /\ (ListIsAsked => ListIsAsked')
  BY <1>1, SameCalls DEF WindowWaits
<1>4. PICK none : none = <<>>
  OBVIOUS
<1>5. none \in Seq(Messages) /\ Len(none) = 0 /\ EnqueueScan(f, none, none)
  BY <1>4 DEF ScanUnasked
<1>6. /\ jobs' \in Seq([folder : Folders, status : Statuses]) /\ JobsStay
      /\ \E M \in Seq(Messages) : TellsOfScan(M, none)
  <2>1. /\ \A b \in 1..Len(none) : none[b].msg = "status"
        /\ \A j \in 1..Len(none) : /\ none[j].msg = "jobs.enqueueScan" /\ none[j].life <= life
                                   /\ none[j].job = Len(jobs) + 1 /\ none[j].folder = f
    BY <1>5
  <2>2. ended' = ended
    BY <1>1
  <2> QED BY <1>1, <1>5, <2>1, <2>2, EnqueueNews
<1>7. PICK M \in Seq(Messages) : TellsOfScan(M, none)
  BY <1>6
<1>8. /\ Send(M) /\ NewsOfJobs(M)
      /\ \A k \in 1..Len(M) : M[k].msg \notin {"status", "watchFolders.list"}
  BY <1>5, <1>7 DEF TellsOfScan
<1>9. FlagsAreFollowed' /\ NewsOfFolders(M)
  BY <1>1, <1>3, <1>8, SameFolders
<1>10. MainTypes'
  BY <1>1, <1>6 DEF MainTypes, PanelInvariant, PanelTypes
<1> QED BY <1>1, <1>2, <1>6, <1>8, <1>9, <1>10, MainStep

\* A handler that answers, starts no job and tells nothing of the folders' modes.
LEMMA AnswerStep ==
  ASSUME PanelInvariant, WindowWaits, MainTypes', FlagsAreFollowed', jobs' = jobs, ended' = ended,
         calls' \in Seq(Calls), \A n \in 1..Len(calls') : calls'[n].life <= life,
         SeedIsAsked => SeedIsAsked', ListIsAsked => ListIsAsked',
         \A f \in Folders : mode'[f] # "forgotten" => mode'[f] = mode[f] /\ flag'[f] = flag[f],
         NEW M \in Seq(Messages), Send(M),
         \A k \in 1..Len(M) : M[k].msg \in Answers /\ ~IsStarted(M[k])
  PROVE  PanelInvariant'
<1>1. \A k \in 1..Len(M) : M[k].msg \notin {"progress", "jobs.list"} /\ ~IsStarted(M[k])
  BY DEF Answers
<1>2. JobsStay /\ NewsOfJobs(M)
  BY <1>1, SameJobs
<1>3. \A k \in 1..Len(M) : ~IsList(M[k]) /\ \A f \in Folders : ~Reports(M[k], f)
  BY DEF Answers, IsList, Reports
<1>4. NewsOfFolders(M)
  BY <1>3 DEF NewsOfFolders
<1>5. ended' \in BOOLEAN
  BY WindowTyped
<1> QED BY <1>2, <1>4, <1>5, MainStep

\* A reply to the call at the head, which is taken.
LEMMA HeadAnswered ==
  ASSUME PanelInvariant, page' = page, NEW name \in Answers, Take(name)
  PROVE  /\ Head(calls) \in Calls /\ Head(calls).call = name /\ Head(calls).folder \in Folders
         /\ Head(calls).life \in Nat /\ Head(calls).life <= life
         /\ calls' \in Seq(Calls) /\ \A n \in 1..Len(calls') : calls'[n].life <= life
         /\ (SeedIsAsked => SeedIsAsked') /\ (ListIsAsked => ListIsAsked')
<1>1. name # "jobs.list" /\ name # "watchFolders.list"
  BY DEF Answers
<1>2. Head(calls) \in Calls /\ Head(calls).call = name
  BY TakeCall
<1>3. Head(calls).folder \in Folders
  BY <1>1, <1>2 DEF Calls
<1> QED BY <1>1, <1>3, TakeCall

\* A scan from a row tells its events before the reply that names it, or is refused.
LEMMA StartScanStep ==
  ASSUME PanelInvariant, StartScan
  PROVE  PanelInvariant'
<1>1. UNCHANGED <<kept, flag, mode, ready, waiting, ended>> /\ WindowWaits /\ page' = page
      /\ ended' \in BOOLEAN /\ ended' = ended
  BY WindowTyped DEF StartScan, WindowWaits
<1>2. PICK c : c = Head(calls)
  OBVIOUS
<1>3. /\ c \in Calls /\ c.call = "jobs.enqueueScan" /\ c.folder \in Folders
      /\ c.life \in Nat /\ c.life <= life
      /\ calls' \in Seq(Calls) /\ \A n \in 1..Len(calls') : calls'[n].life <= life
      /\ (SeedIsAsked => SeedIsAsked') /\ (ListIsAsked => ListIsAsked')
  <2>1. Take("jobs.enqueueScan") /\ "jobs.enqueueScan" \in Answers
    BY DEF StartScan, Answers
  <2> QED BY <1>1, <1>2, <2>1, HeadAnswered
<1>4. c.call \in Answers
  BY <1>3 DEF Answers
<1>5. Len(jobs) \in Nat
  BY JobTypes DEF PanelInvariant
<1>6. CASE EnqueueScan(c.folder, <<>>, <<Reply(c, TRUE, Len(jobs) + 1)>>)
  <2>1. PICK job \in Nat : job = Len(jobs) + 1
    BY <1>5
  <2>2. PICK r : r = Reply(c, TRUE, job)
    OBVIOUS
  <2>3. /\ r \in Messages /\ r.msg = "jobs.enqueueScan" /\ r.life <= life /\ r.job = Len(jobs) + 1
        /\ r.folder = c.folder
    BY <1>3, <1>4, <2>1, <2>2, ReplyTypes
  <2>4. PICK after : after = <<r>>
    OBVIOUS
  <2>5. after \in Seq(Messages) /\ \A k \in 1..Len(after) : after[k] = r
    BY <2>3, <2>4, SingleMessage
  <2>6. PICK none : none = <<>>
    OBVIOUS
  <2>7. PICK f \in Folders : f = c.folder
    BY <1>3
  <2>8. none \in Seq(Messages) /\ Len(none) = 0 /\ EnqueueScan(f, none, after)
    BY <1>6, <2>1, <2>2, <2>4, <2>6, <2>7
  <2>9. \A k \in 1..Len(after) : /\ after[k].msg = "jobs.enqueueScan" /\ after[k].life <= life
                                 /\ after[k].job = Len(jobs) + 1 /\ after[k].folder = f
    BY <2>3, <2>5, <2>7
  <2>10. /\ jobs' \in Seq([folder : Folders, status : Statuses]) /\ JobsStay
         /\ \E M \in Seq(Messages) : TellsOfScan(M, none)
    <3>1. \A b \in 1..Len(none) : none[b].msg = "status"
      BY <2>8
    <3> QED BY <1>1, <2>5, <2>8, <2>9, <3>1, EnqueueNews
  <2>11. PICK M \in Seq(Messages) : TellsOfScan(M, none)
    BY <2>10
  <2>12. /\ Send(M) /\ NewsOfJobs(M)
         /\ \A k \in 1..Len(M) : M[k].msg \notin {"status", "watchFolders.list"}
    BY <2>8, <2>11 DEF TellsOfScan
  <2>13. FlagsAreFollowed' /\ NewsOfFolders(M)
    BY <1>1, <1>3, <2>12, SameFolders
  <2>14. MainTypes'
    BY <1>1, <2>10 DEF MainTypes, PanelInvariant, PanelTypes
  <2> QED BY <1>1, <1>3, <2>10, <2>12, <2>13, <2>14, MainStep
<1>7. CASE Send(<<Reply(c, FALSE, 0)>>) /\ jobs' = jobs
  <2>1. PICK r : r = Reply(c, FALSE, 0)
    OBVIOUS
  <2>2. r \in Messages /\ r.msg \in Answers /\ ~IsStarted(r)
    BY <1>3, <2>1 DEF Reply, Messages, Answers, IsStarted
  <2>3. PICK M : M = <<r>>
    OBVIOUS
  <2>4. M \in Seq(Messages) /\ \A k \in 1..Len(M) : M[k] = r
    BY <2>2, <2>3, SingleMessage
  <2>5. Send(M) /\ \A k \in 1..Len(M) : M[k].msg \in Answers /\ ~IsStarted(M[k])
    BY <1>7, <2>1, <2>2, <2>3, <2>4
  <2>6. MainTypes' /\ FlagsAreFollowed'
    BY <1>1, <1>7, QuietMain DEF main
  <2> QED BY <1>1, <1>3, <1>7, <2>4, <2>5, <2>6, AnswerStep
<1> QED BY <1>2, <1>6, <1>7 DEF StartScan

\* A folder that is removed, or was to be, is forgotten, and no mode is promised of it.
LEMMA RemoveFolderStep ==
  ASSUME PanelInvariant, RemoveFolder
  PROVE  PanelInvariant'
<1>1. UNCHANGED <<jobs, flag, ended>> /\ WindowWaits /\ page' = page /\ ended' = ended
  BY WindowTyped DEF RemoveFolder, WindowWaits
<1>2. PICK c : c = Head(calls)
  OBVIOUS
<1>3. /\ c \in Calls /\ c.call = "watchFolders.remove" /\ c.folder \in Folders
      /\ calls' \in Seq(Calls) /\ \A n \in 1..Len(calls') : calls'[n].life <= life
      /\ (SeedIsAsked => SeedIsAsked') /\ (ListIsAsked => ListIsAsked')
  <2>1. Take("watchFolders.remove") /\ "watchFolders.remove" \in Answers
    BY DEF RemoveFolder, Answers
  <2> QED BY <1>1, <1>2, <2>1, HeadAnswered
<1>4. c.call \in Answers
  BY <1>3 DEF Answers
<1>5. PICK ok \in BOOLEAN : ok <=> ~ \E i \in 1..Len(jobs) : jobs[i].folder = c.folder
  OBVIOUS
<1>6. /\ mode' = [mode EXCEPT ![c.folder] = "forgotten"]
      /\ ready' = [ready EXCEPT ![c.folder] = FALSE]
      /\ waiting' = [waiting EXCEPT ![c.folder] = {}]
      /\ kept' = IF ok THEN kept \ {c.folder} ELSE kept
  BY <1>2, <1>5 DEF RemoveFolder
<1>7. PICK r : r = Reply(c, ok, 0)
  OBVIOUS
<1>8. Send(<<r>>)
  <2>1. ok = ~(\E i \in 1..Len(jobs) : jobs[i].folder = c.folder)
    BY <1>5
  <2> QED BY <1>2, <1>7, <2>1 DEF RemoveFolder
<1>9. r \in Messages /\ r.msg = "watchFolders.remove"
  BY <1>3, <1>4, <1>5, <1>7, ReplyTypes
<1>10. PICK M : M = <<r>>
  OBVIOUS
<1>11. M \in Seq(Messages) /\ \A k \in 1..Len(M) : M[k] = r
  BY <1>9, <1>10, SingleMessage
<1>12. Send(M) /\ \A k \in 1..Len(M) : M[k].msg \in Answers /\ ~IsStarted(M[k])
  BY <1>8, <1>9, <1>10, <1>11 DEF IsStarted, Answers
<1>13. MainTypes'
  BY <1>1, <1>3, <1>6, FS_EmptySet DEF MainTypes, PanelInvariant, PanelTypes
<1>14. \A f \in Folders : mode'[f] # "forgotten" => f # c.folder /\ mode'[f] = mode[f] /\ flag'[f] = flag[f]
  BY <1>1, <1>3, <1>6 DEF PanelInvariant, PanelTypes, MainTypes
<1>15. FlagsAreFollowed'
  BY <1>6, <1>14 DEF PanelInvariant, FlagsAreFollowed
<1> QED BY <1>1, <1>3, <1>11, <1>12, <1>13, <1>14, <1>15, AnswerStep

\* A toggle of a folder that is gone changes nothing.
LEMMA RefuseToggleStep ==
  ASSUME PanelInvariant, RefuseToggle
  PROVE  PanelInvariant'
<1>1. UNCHANGED <<main, ended>> /\ WindowWaits /\ page' = page /\ ended' = ended /\ jobs' = jobs
      /\ mode' = mode /\ flag' = flag
  BY WindowTyped DEF RefuseToggle, WindowWaits, main
<1>2. PICK c : c = Head(calls)
  OBVIOUS
<1>3. PICK name \in {"enable", "disable"} : Take(name)
  BY DEF RefuseToggle
<1>4. name \in Answers
  BY DEF Answers
<1>5. /\ c \in Calls /\ c.call = name /\ c.folder \in Folders
      /\ calls' \in Seq(Calls) /\ \A n \in 1..Len(calls') : calls'[n].life <= life
      /\ (SeedIsAsked => SeedIsAsked') /\ (ListIsAsked => ListIsAsked')
  BY <1>1, <1>2, <1>3, <1>4, HeadAnswered
<1>6. PICK r : r = Reply(c, FALSE, 0)
  OBVIOUS
<1>7. r \in Messages /\ r.msg \in Answers /\ ~IsStarted(r)
  <2>1. c \in Calls /\ c.call \in Answers
    BY <1>4, <1>5
  <2>2. r \in Messages /\ r.msg = c.call
    BY <1>6, <2>1, ReplyTypes
  <2> QED BY <1>3, <1>5, <2>1, <2>2 DEF IsStarted
<1>8. PICK M : M = <<r>>
  OBVIOUS
<1>9. M \in Seq(Messages) /\ \A k \in 1..Len(M) : M[k] = r
  BY <1>7, <1>8, SingleMessage
<1>10. Send(M) /\ \A k \in 1..Len(M) : M[k].msg \in Answers /\ ~IsStarted(M[k])
  BY <1>2, <1>6, <1>7, <1>8, <1>9 DEF RefuseToggle
<1>11. MainTypes' /\ FlagsAreFollowed'
  BY <1>1, QuietMain
<1> QED BY <1>1, <1>5, <1>9, <1>10, <1>11, AnswerStep

\* The mode of f becomes x, and M tells so.
LEMMA ModeTold ==
  ASSUME PanelInvariant, NEW f \in Folders, NEW x \in Modes, mode[f] # "forgotten", kept' = kept,
         mode'[f] = x, flag'[f] <=> x # "off",
         \A g \in Folders : g # f => mode'[g] = mode[g] /\ flag'[g] = flag[g],
         ListIsAsked => ListIsAsked', NEW M,
         \A k \in 1..Len(M) : M[k] = Status(f, x) \/ M[k].msg \notin {"status", "watchFolders.list"},
         \E k \in 1..Len(M) : M[k] = Status(f, x)
  PROVE  FlagsAreFollowed' /\ NewsOfFolders(M)
<1>1. FlagsAreFollowed'
  BY DEF PanelInvariant, FlagsAreFollowed
<1>2. PICK s : s = Status(f, x)
  OBVIOUS
<1>3. s.msg = "status" /\ s.folder = f /\ s.mode = x
  BY <1>2 DEF Status
<1>4. \E k \in 1..Len(M) : Reports(M[k], f)
  BY <1>2, <1>3 DEF Reports
<1>5. ASSUME NEW k \in 1..Len(M)
      PROVE  ~IsList(M[k]) /\ \A g \in Folders : Reports(M[k], g) => g = f /\ M[k].mode = x
  <2>1. CASE M[k] = s
    BY <1>3, <2>1 DEF IsList, Reports
  <2>2. CASE M[k].msg \notin {"status", "watchFolders.list"}
    BY <2>2 DEF IsList, Reports
  <2> QED BY <1>2, <2>1, <2>2
<1>6. ASSUME NEW g \in Folders, mode'[g] # "forgotten"
      PROVE  /\ mode[g] # "forgotten"
             /\ mode'[g] # mode[g] \/ flag'[g] # flag[g] => \E k \in 1..Len(M) : Reports(M[k], g)
             /\ \A k \in 1..Len(M) : /\ Reports(M[k], g) => M[k].mode = mode'[g]
                                     /\ IsList(M[k]) => ~IsStale(M[k].rows[g], g)'
  BY <1>4, <1>5, <1>6
<1> QED BY <1>1, <1>6 DEF NewsOfFolders

\* A status event is a message.
LEMMA StatusTypes ==
  ASSUME NEW f \in Folders, NEW x \in Modes
  PROVE  Status(f, x) \in Messages /\ Status(f, x).msg = "status"
BY DEF Status, Messages

\* Attaching tells the new mode, with the catch-up scan or without.
LEMMA AttachStep ==
  ASSUME PanelInvariant, WindowWaits, UNCHANGED <<kept, ended>>,
         NEW c \in Calls, c.folder \in Folders, c.life \in Nat,
         calls' \in Seq(Calls), \A n \in 1..Len(calls') : calls'[n].life <= life,
         SeedIsAsked => SeedIsAsked', ListIsAsked => ListIsAsked',
         flag' = [flag EXCEPT ![c.folder] = TRUE], Attach(c)
  PROVE  PanelInvariant'
<1>1. PICK f \in Folders : f = c.folder
  OBVIOUS
<1>2. /\ mode[f] \in {"off", "fallback"}
      /\ mode' = [mode EXCEPT ![f] = "watching"]
      /\ ready' = [ready EXCEPT ![f] = FALSE]
      /\ waiting' = [waiting EXCEPT ![f] = {c.life}]
      /\ flag' = [flag EXCEPT ![f] = TRUE]
  BY <1>1 DEF Attach
<1>3. ended' = ended /\ kept' = kept /\ ended' \in BOOLEAN
  BY WindowTyped
<1>4. MainTypes
  BY DEF PanelInvariant, PanelTypes
<1>5. /\ mode'[f] = "watching" /\ flag'[f] = TRUE
      /\ \A g \in Folders : g # f => mode'[g] = mode[g] /\ flag'[g] = flag[g]
  BY <1>2, <1>4 DEF MainTypes
<1>6. PICK s : s = Status(f, "watching")
  OBVIOUS
<1>7. s \in Messages /\ s.msg = "status" /\ "watching" \in Modes
  BY <1>6, StatusTypes DEF Modes
<1>8. PICK before : before = <<s>>
  OBVIOUS
<1>9. before \in Seq(Messages) /\ Len(before) = 1 /\ \A k \in 1..Len(before) : before[k] = s
  BY <1>7, <1>8, SingleMessage
<1>10. ASSUME jobs' \in Seq([folder : Folders, status : Statuses]) PROVE MainTypes'
  <2>1. IsFiniteSet({c.life})
    BY FS_Singleton
  <2>2. \A g \in Folders : IsFiniteSet(waiting'[g])
    BY <1>2, <1>4, <2>1 DEF MainTypes
  <2> QED BY <1>2, <1>3, <1>4, <1>10, <2>2 DEF MainTypes, Modes
<1>11. ASSUME NEW M, \A k \in 1..Len(M) : M[k] = s \/ M[k].msg \notin {"status", "watchFolders.list"},
              \E k \in 1..Len(M) : M[k] = s
       PROVE  FlagsAreFollowed' /\ NewsOfFolders(M)
  <2>1. mode[f] # "forgotten" /\ (flag'[f] <=> "watching" # "off")
    BY <1>2, <1>5
  <2> QED BY <1>3, <1>5, <1>6, <1>7, <1>11, <2>1, ModeTold
<1>12. CASE EnqueueScan(f, before, <<>>)
  <2>1. PICK none : none = <<>>
    OBVIOUS
  <2>2. none \in Seq(Messages) /\ Len(none) = 0 /\ EnqueueScan(f, before, none)
    BY <1>12, <2>1
  <2>3. jobs' \in Seq([folder : Folders, status : Statuses]) /\ JobsStay
        /\ \E M \in Seq(Messages) : TellsOfScan(M, before)
    <3>1. /\ \A b \in 1..Len(before) : before[b].msg = "status"
          /\ \A j \in 1..Len(none) : /\ none[j].msg = "jobs.enqueueScan" /\ none[j].life <= life
                                     /\ none[j].job = Len(jobs) + 1 /\ none[j].folder = f
      BY <1>7, <1>9, <2>2
    <3> QED BY <1>3, <1>9, <2>2, <3>1, EnqueueNews
  <2>4. PICK M \in Seq(Messages) : TellsOfScan(M, before)
    BY <2>3
  <2>5. /\ Send(M) /\ NewsOfJobs(M) /\ \E k \in 1..Len(M) : M[k] = s
        /\ \A k \in 1..Len(M) : M[k] = s \/ M[k].msg \notin {"status", "watchFolders.list"}
    BY <1>9, <2>4 DEF TellsOfScan
  <2>6. FlagsAreFollowed' /\ NewsOfFolders(M)
    BY <1>11, <2>5
  <2>7. MainTypes'
    BY <1>10, <2>3
  <2> QED BY <1>3, <2>3, <2>5, <2>6, <2>7, MainStep
<1>13. CASE Send(before) /\ jobs' = jobs
  <2>1. \A k \in 1..Len(before) : before[k].msg \notin {"progress", "jobs.list"} /\ ~IsStarted(before[k])
    BY <1>7, <1>9 DEF IsStarted
  <2>2. JobsStay /\ NewsOfJobs(before)
    BY <1>3, <1>13, <2>1, SameJobs
  <2>3. FlagsAreFollowed' /\ NewsOfFolders(before)
    <3>1. /\ \A k \in 1..Len(before) : before[k] = s \/ before[k].msg \notin {"status", "watchFolders.list"}
          /\ \E k \in 1..Len(before) : before[k] = s
      BY <1>9
    <3> QED BY <1>11, <3>1
  <2>4. MainTypes'
    BY <1>4, <1>10, <1>13 DEF MainTypes
  <2> QED BY <1>3, <1>9, <1>13, <2>2, <2>3, <2>4, MainStep
<1> QED BY <1>1, <1>6, <1>8, <1>12, <1>13 DEF Attach

\* Enabling what is watched changes nothing that is shown: the flag was on.
LEMMA AttachAgainStep ==
  ASSUME PanelInvariant, WindowWaits, UNCHANGED <<kept, ended>>,
         NEW c \in Calls, c.folder \in Folders, c.life \in Nat, c.call = "enable",
         calls' \in Seq(Calls), \A n \in 1..Len(calls') : calls'[n].life <= life,
         SeedIsAsked => SeedIsAsked', ListIsAsked => ListIsAsked',
         flag' = [flag EXCEPT ![c.folder] = TRUE], AttachAgain(c)
  PROVE  PanelInvariant'
<1>1. PICK f \in Folders : f = c.folder
  OBVIOUS
<1>2. MainTypes /\ FlagsAreFollowed
  BY DEF PanelInvariant, PanelTypes
<1>3. /\ mode[f] \in {"watching", "forgotten"} /\ mode' = mode /\ ready' = ready /\ jobs' = jobs
      /\ flag' = [flag EXCEPT ![f] = TRUE] /\ ended' = ended /\ kept' = kept
  BY <1>1 DEF AttachAgain
<1>4. \A g \in Folders : mode'[g] # "forgotten" => mode'[g] = mode[g] /\ flag'[g] = flag[g]
  BY <1>2, <1>3 DEF MainTypes, FlagsAreFollowed
<1>5. FlagsAreFollowed'
  BY <1>2, <1>3, <1>4 DEF FlagsAreFollowed
<1>6. CASE waiting' = [waiting EXCEPT ![f] = @ \cup {c.life}] /\ wire' = wire
  <2>1. \A g \in Folders : IsFiniteSet(waiting'[g])
    <3>1. IsFiniteSet(waiting[f] \cup {c.life})
      <4>1. IsFiniteSet(waiting[f])
        BY <1>2 DEF MainTypes
      <4> QED BY <4>1, FS_AddElement
    <3>2. \A g \in Folders : waiting'[g] = IF g = f THEN waiting[f] \cup {c.life} ELSE waiting[g]
      BY <1>2, <1>6 DEF MainTypes
    <3> QED BY <1>2, <3>1, <3>2 DEF MainTypes
  <2>2. MainTypes'
    BY <1>2, <1>3, <1>6, <2>1 DEF MainTypes
  <2>3. PICK M : M = <<>>
    OBVIOUS
  <2>4. wire \in Seq(Messages)
    BY DEF PanelInvariant, PanelTypes, ChannelTypes
  <2>5. M \in Seq(Messages) /\ Len(M) = 0 /\ Send(M)
    BY <1>6, <2>3, <2>4 DEF Send
  <2>6. \A k \in 1..Len(M) : M[k].msg \in Answers /\ ~IsStarted(M[k])
    BY <2>5
  <2> QED BY <1>3, <1>4, <1>5, <2>2, <2>5, <2>6, AnswerStep
<1>7. CASE Send(<<Reply(c, TRUE, 0)>>) /\ waiting' = waiting
  <2>1. MainTypes'
    BY <1>2, <1>3, <1>7 DEF MainTypes
  <2>2. PICK r : r = Reply(c, TRUE, 0)
    OBVIOUS
  <2>4. r \in Messages /\ r.msg = "enable"
    BY <2>2 DEF Reply, Messages, Answers
  <2>5. PICK M : M = <<r>>
    OBVIOUS
  <2>6. M \in Seq(Messages) /\ \A k \in 1..Len(M) : M[k] = r
    BY <2>4, <2>5, SingleMessage
  <2>7. Send(M) /\ \A k \in 1..Len(M) : M[k].msg \in Answers /\ ~IsStarted(M[k])
    BY <1>7, <2>2, <2>4, <2>5, <2>6 DEF IsStarted, Answers
  <2> QED BY <1>3, <1>4, <1>5, <2>1, <2>6, <2>7, AnswerStep
<1> QED BY <1>1, <1>6, <1>7 DEF AttachAgain

\* Live watch is turned on.
LEMMA EnableStep ==
  ASSUME PanelInvariant, Enable
  PROVE  PanelInvariant'
<1>1. UNCHANGED <<kept, ended>> /\ WindowWaits /\ page' = page
  BY WindowTyped DEF Enable, WindowWaits
<1>2. PICK c : c = Head(calls)
  OBVIOUS
<1>3. /\ c \in Calls /\ c.call = "enable" /\ c.folder \in Folders /\ c.life \in Nat
      /\ calls' \in Seq(Calls) /\ \A n \in 1..Len(calls') : calls'[n].life <= life
      /\ (SeedIsAsked => SeedIsAsked') /\ (ListIsAsked => ListIsAsked')
  <2>1. Take("enable") /\ "enable" \in Answers
    BY DEF Enable, Answers
  <2> QED BY <1>1, <1>2, <2>1, HeadAnswered
<1>4. flag' = [flag EXCEPT ![c.folder] = TRUE] /\ (Attach(c) \/ AttachAgain(c))
  BY <1>2 DEF Enable
<1> QED BY <1>1, <1>3, <1>4, AttachStep, AttachAgainStep

\* Live watch is turned off, which is told if it was on.
LEMMA DisableStep ==
  ASSUME PanelInvariant, Disable
  PROVE  PanelInvariant'
<1>1. UNCHANGED <<jobs, kept, ended>> /\ WindowWaits /\ page' = page /\ ended' = ended
      /\ jobs' = jobs /\ kept' = kept /\ ended' \in BOOLEAN
  BY WindowTyped DEF Disable, WindowWaits
<1>2. PICK c : c = Head(calls)
  OBVIOUS
<1>3. /\ c \in Calls /\ c.call = "disable" /\ c.folder \in Folders /\ c.life \in Nat
      /\ calls' \in Seq(Calls) /\ \A n \in 1..Len(calls') : calls'[n].life <= life
      /\ (SeedIsAsked => SeedIsAsked') /\ (ListIsAsked => ListIsAsked')
  <2>1. Take("disable") /\ "disable" \in Answers
    BY DEF Disable, Answers
  <2> QED BY <1>1, <1>2, <2>1, HeadAnswered
<1>4. PICK f \in Folders : f = c.folder
  BY <1>3
<1>5. MainTypes /\ FlagsAreFollowed
  BY DEF PanelInvariant, PanelTypes
<1>6. /\ flag' = [flag EXCEPT ![f] = FALSE]
      /\ mode' = [mode EXCEPT ![f] = IF @ = "forgotten" THEN @ ELSE "off"]
      /\ ready' = [ready EXCEPT ![f] = FALSE]
      /\ waiting' = [waiting EXCEPT ![f] = {}]
  BY <1>2, <1>4 DEF Disable
<1>7. PICK r : r = Reply(c, TRUE, 0)
  OBVIOUS
<1>8. PICK s : s = Status(f, "off")
  OBVIOUS
<1>9. Send((IF mode[f] \in {"watching", "fallback"} THEN <<s>> ELSE <<>>) \o <<r>>)
  BY <1>2, <1>4, <1>7, <1>8 DEF Disable
<1>10. c.call \in Answers
  BY <1>3 DEF Answers
<1>11. r \in Messages /\ r.msg = "disable"
  <2>1. r \in Messages /\ r.msg = c.call
    BY <1>3, <1>7 DEF Reply, Messages, Answers
  <2> QED BY <1>3, <2>1
<1>12. s \in Messages /\ s.msg = "status" /\ "off" \in Modes
  BY <1>8, StatusTypes DEF Modes
<1>13. MainTypes'
  BY <1>1, <1>5, <1>6, FS_EmptySet DEF MainTypes, Modes
<1>14. /\ mode'[f] = (IF mode[f] = "forgotten" THEN "forgotten" ELSE "off") /\ flag'[f] = FALSE
       /\ \A g \in Folders : g # f => mode'[g] = mode[g] /\ flag'[g] = flag[g]
  BY <1>5, <1>6 DEF MainTypes
<1>15. CASE mode[f] \in {"watching", "fallback"}
  <2>1. PICK A, B : A = <<s>> /\ B = <<r>>
    OBVIOUS
  <2>2. /\ A \in Seq(Messages) /\ Len(A) = 1 /\ A[1] = s
        /\ B \in Seq(Messages) /\ Len(B) = 1 /\ B[1] = r
    BY <1>11, <1>12, <2>1
  <2>3. PICK M : M = A \o B
    OBVIOUS
  <2>4. Joins(M, A, B) /\ Send(M)
    BY <1>9, <1>15, <2>1, <2>2, <2>3, Pieces
  <2>5. /\ M \in Seq(Messages) /\ Len(M) = 2 /\ M[1] = s /\ M[2] = r
        /\ \A k \in 1..Len(M) : M[k] = s \/ M[k] = r
    <3>1. M \in Seq(Messages) /\ Len(M) = 2
      BY <2>2, <2>4 DEF Joins
    <3>2. M[1] = s /\ M[Len(A) + 1] = r /\ Len(A) + 1 = 2
      BY <2>2, <2>4 DEF Joins
    <3>3. \A k \in 1..2 : k = 1 \/ k = 2
      OBVIOUS
    <3> QED BY <3>1, <3>2, <3>3
  <2>6. \A k \in 1..Len(M) : M[k].msg \notin {"progress", "jobs.list"} /\ ~IsStarted(M[k])
    BY <1>11, <1>12, <2>5 DEF IsStarted
  <2>7. JobsStay /\ NewsOfJobs(M)
    BY <1>1, <1>3, <2>6, SameJobs
  <2>8. /\ \A k \in 1..Len(M) : M[k] = s \/ M[k].msg \notin {"status", "watchFolders.list"}
        /\ \E k \in 1..Len(M) : M[k] = s
    BY <1>11, <2>5
  <2>9. mode[f] # "forgotten" /\ mode'[f] = "off" /\ (flag'[f] <=> "off" # "off")
    BY <1>14, <1>15
  <2>10. FlagsAreFollowed' /\ NewsOfFolders(M)
    BY <1>1, <1>3, <1>8, <1>12, <1>14, <2>8, <2>9, ModeTold
  <2> QED BY <1>1, <1>3, <1>13, <2>4, <2>5, <2>7, <2>10, MainStep
<1>16. CASE mode[f] \in {"off", "forgotten"}
  <2>1. PICK M : M = <<r>>
    OBVIOUS
  <2>2. M \in Seq(Messages) /\ \A k \in 1..Len(M) : M[k] = r
    BY <1>11, <2>1, SingleMessage
  <2>3. Send(M)
    <3>1. <<>> \o M = M
      BY <2>2
    <3> QED BY <1>9, <1>16, <2>1, <3>1
  <2>4. \A k \in 1..Len(M) : M[k].msg \in Answers /\ ~IsStarted(M[k])
    BY <1>11, <2>2 DEF IsStarted, Answers
  <2>5. \A g \in Folders : mode'[g] # "forgotten" => mode'[g] = mode[g] /\ flag'[g] = flag[g]
    <3>1. mode[f] = "off" => flag[f] = FALSE
      BY <1>5 DEF FlagsAreFollowed, MainTypes
    <3> QED BY <1>14, <1>16, <3>1
  <2>6. FlagsAreFollowed'
    BY <1>1, <1>5, <2>5 DEF FlagsAreFollowed
  <2> QED BY <1>1, <1>3, <1>13, <2>2, <2>3, <2>4, <2>5, <2>6, AnswerStep
<1>17. mode[f] \in {"watching", "fallback"} \/ mode[f] \in {"off", "forgotten"}
  BY <1>5 DEF MainTypes, Modes
<1> QED BY <1>15, <1>16, <1>17

\* A watcher that is ready answers those who wait.
LEMMA WatcherReadyStep ==
  ASSUME PanelInvariant, NEW f \in Folders, WatcherReady(f)
  PROVE  PanelInvariant'
<1>1. /\ UNCHANGED <<jobs, kept, flag, mode, calls, ended>> /\ WindowWaits /\ jobs' = jobs
      /\ ended' = ended
  BY WindowTyped DEF WatcherReady
<1>2. calls' \in Seq(Calls) /\ \A n \in 1..Len(calls') : calls'[n].life <= life
  BY <1>1, SameCallTypes
<1>3. (SeedIsAsked => SeedIsAsked') /\ (ListIsAsked => ListIsAsked')
  BY <1>1, SameCalls DEF WindowWaits
<1>4. MainTypes'
  BY <1>1, FS_EmptySet DEF WatcherReady, MainTypes, PanelInvariant, PanelTypes
<1>5. FlagsAreFollowed'
  BY <1>1 DEF FlagsAreFollowed, PanelInvariant
<1>6. PICK M : M = Answer(f)
  OBVIOUS
<1>7. M \in Seq(Messages) /\ (\A k \in 1..Len(M) : M[k].msg = "enable") /\ Send(M)
  BY <1>6, AnswersAreReplies DEF PanelInvariant, WatcherReady
<1>8. \A k \in 1..Len(M) : M[k].msg \in Answers /\ ~IsStarted(M[k])
  BY <1>7 DEF Answers, IsStarted
<1> QED BY <1>1, <1>2, <1>3, <1>4, <1>5, <1>7, <1>8, AnswerStep

\* A limit is told before those who wait are answered.
LEMMA WatcherLimitStep ==
  ASSUME PanelInvariant, NEW f \in Folders, WatcherLimit(f)
  PROVE  PanelInvariant'
<1>1. /\ UNCHANGED <<jobs, kept, flag, calls, ended>> /\ WindowWaits /\ jobs' = jobs
      /\ ended' = ended /\ kept' = kept /\ flag' = flag /\ ended' \in BOOLEAN
  BY WindowTyped DEF WatcherLimit
<1>2. calls' \in Seq(Calls) /\ \A n \in 1..Len(calls') : calls'[n].life <= life
  BY <1>1, SameCallTypes
<1>3. (SeedIsAsked => SeedIsAsked') /\ (ListIsAsked => ListIsAsked')
  BY <1>1, SameCalls DEF WindowWaits
<1>4. MainTypes'
  BY <1>1, FS_EmptySet DEF WatcherLimit, MainTypes, PanelInvariant, PanelTypes, Modes
<1>5. PICK s : s = Status(f, "fallback")
  OBVIOUS
<1>6. s \in Messages /\ s.msg = "status" /\ "fallback" \in Modes
  BY <1>5, StatusTypes DEF Modes
<1>7. PICK A : A = <<s>>
  OBVIOUS
<1>8. A \in Seq(Messages) /\ Len(A) = 1 /\ \A k \in 1..Len(A) : A[k] = s
  BY <1>6, <1>7, SingleMessage
<1>9. PICK B : B = Answer(f)
  OBVIOUS
<1>10. B \in Seq(Messages) /\ \A k \in 1..Len(B) : B[k].msg = "enable"
  BY <1>9, AnswersAreReplies DEF PanelInvariant
<1>11. PICK M : M = A \o B
  OBVIOUS
<1>12. Joins(M, A, B) /\ Send(M)
  BY <1>5, <1>7, <1>8, <1>9, <1>10, <1>11, Pieces DEF WatcherLimit
<1>13. M \in Seq(Messages)
  BY <1>12 DEF Joins
<1>14. \A k \in 1..Len(M) : M[k] = s \/ M[k].msg = "enable"
  <2>1. ASSUME NEW k \in 1..Len(M) PROVE M[k] = s \/ M[k].msg = "enable"
    <3>1. CASE k \in 1..Len(A) /\ M[k] = A[k]
      BY <1>8, <3>1
    <3>2. CASE \E j \in 1..Len(B) : k = Len(A) + j /\ M[k] = B[j]
      BY <1>10, <3>2
    <3> QED BY <1>12, <3>1, <3>2 DEF Joins
  <2> QED BY <2>1
<1>15. \E k \in 1..Len(M) : M[k] = s
  BY <1>8, <1>12 DEF Joins
<1>16. \A k \in 1..Len(M) : M[k].msg \notin {"progress", "jobs.list"} /\ ~IsStarted(M[k])
  BY <1>6, <1>14 DEF IsStarted
<1>17. JobsStay /\ NewsOfJobs(M)
  BY <1>1, <1>3, <1>16, SameJobs
<1>18. /\ mode[f] = "watching" /\ mode'[f] = "fallback" /\ flag'[f]
       /\ \A g \in Folders : g # f => mode'[g] = mode[g] /\ flag'[g] = flag[g]
  BY <1>1 DEF WatcherLimit, PanelInvariant, PanelTypes, MainTypes, FlagsAreFollowed
<1>19. FlagsAreFollowed' /\ NewsOfFolders(M)
  <2>1. mode[f] # "forgotten" /\ (flag'[f] <=> "fallback" # "off")
    BY <1>18
  <2>2. \A k \in 1..Len(M) : M[k] = s \/ M[k].msg \notin {"status", "watchFolders.list"}
    BY <1>14
  <2> QED BY <1>1, <1>3, <1>5, <1>6, <1>15, <1>18, <2>1, <2>2, ModeTold
<1> QED BY <1>1, <1>2, <1>4, <1>12, <1>13, <1>17, <1>19, MainStep

-----------------------------------------------------------------------------
(* The theorems.                                                            *)

\* Every step keeps the invariant.
LEMMA PanelStep == PanelInvariant /\ [Next]_vars => PanelInvariant'
<1> SUFFICES ASSUME PanelInvariant, [Next]_vars PROVE PanelInvariant'
  OBVIOUS
<1>1. CASE Next
  <2>1. CASE Handle
    BY <2>1, ListJobsStep, ListFoldersStep, StartScanStep, RemoveFolderStep, EnableStep,
       DisableStep, RefuseToggleStep DEF Handle
  <2>2. CASE HearAny
    BY <2>2, HearStep
  <2>3. CASE \/ Load \/ OpenTools \/ CloseTools
             \/ \E f \in Folders : ClickScan(f) \/ ClickRemove(f) \/ ClickToggle(f)
    BY <2>3, UserStep
  <2>4. CASE \E f \in Folders : ScanUnasked(f) \/ WatcherReady(f) \/ WatcherLimit(f)
    BY <2>4, ScanUnaskedStep, WatcherReadyStep, WatcherLimitStep
  <2>5. CASE \E i \in 1..Len(jobs) : Tick(i) \/ End(i)
    BY <2>5, TickStep, EndStep
  <2> QED BY <1>1, <2>1, <2>2, <2>3, <2>4, <2>5 DEF Next
<1>2. CASE UNCHANGED vars
  <2>1. /\ UNCHANGED main /\ calls' = calls /\ wire' = wire
        /\ UNCHANGED <<life, page, header, tools, listed, panel>> /\ ended' = ended
    BY <1>2 DEF vars, window
  <2>2. PanelTypes'
    BY <2>1 DEF PanelInvariant, PanelTypes, MainTypes, ChannelTypes, WindowTypes, main, panel
  <2>3. Bounds'
    BY <2>1 DEF PanelInvariant, Bounds, Names, MovesHeader, IsStarted, EventOf, main, panel
  <2>4. HeaderComesTrue' /\ WorkComesUp' /\ FlagsAreFollowed'
    BY <2>1 DEF PanelInvariant, HeaderComesTrue, IsPast, MovesHeader, EventOf, WorkComesUp,
                SeedIsAsked, ActiveJobs, FlagsAreFollowed, main
  <2>5. tools' => \A f \in Folders : RowComesTrue(f)'
    BY <2>1 DEF PanelInvariant, RowComesTrue, MovesRow, Told, TellsRow, MissesTheEnd, IsOver,
                IsStarted, main, panel
  <2>6. \A f \in Folders : mode'[f] # "forgotten" =>
          ModeComesTrue(f)' /\ (tools' => ListComesTrue(f)')
    BY <2>1 DEF PanelInvariant, ModeComesTrue, ListComesTrue, Reports, IsList, ListIsAsked,
                IsStale, main, panel
  <2> QED BY <2>2, <2>3, <2>4, <2>5, <2>6 DEF PanelInvariant
<1> QED BY <1>1, <1>2

(* Whatever the window shows of jobs and folders, and whatever is on its way to it, is true
   of the main process or is replaced by something later, for any number of folders, jobs,
   loads of the page and openings of the tools.  (GlobalScanProgress.tsx and
   WatchFolders.tsx, fed by registerIpc.ts and broadcastIpcEvent)                         *)
THEOREM PanelInvariantHolds == Spec => []PanelInvariant
<1>1. Init => PanelInvariant
  BY PanelInit
<1>2. PanelInvariant /\ [Next]_vars => PanelInvariant'
  BY PanelStep
<1> QED BY <1>1, <1>2, PTL DEF Spec

(* Once everything is heard the indicator shows no job that is in another state: the seed a
   page asks for is never left standing by the events that overtook it.
   (GlobalScanProgress.tsx: the seed and the subscription of one mount)                   *)
THEOREM HeaderTellsTheTruth == Spec => []HeaderIsTrue
BY PanelInvariantHolds, InvariantShowsTruth, PTL

(* A page loaded while work goes on comes to show it, as long as no job has ended since.
   (GlobalScanProgress.tsx: a job that ends clears the indicator, whichever it was)       *)
THEOREM WorkIsShown == Spec => []HeaderShowsWork
BY PanelInvariantHolds, InvariantShowsTruth, PTL

(* The row of a scan tells its end, although events sent before the reply are dropped.
   (WatchFolders.tsx: handleScan and the scan-progress subscription)                      *)
THEOREM RowsTellTheEnd == Spec => []RowShowsTheEnd
BY PanelInvariantHolds, InvariantShowsTruth, PTL

(* A row says "off" exactly for a folder that is not watched, once the calls are answered
   and the answers heard.  (WatchFolders.tsx: the status events and the list asked for
   again in onSuccess)                                                                    *)
THEOREM RowsTellTheMode == Spec => []RowTellsTheMode
BY PanelInvariantHolds, InvariantShowsTruth, PTL
=============================================================================
