---------------------------- MODULE IncreasingIds ----------------------------
(***************************************************************************)
(* What the callers of uuidv7() may count on, with no clock and no counter *)
(* in sight: within one process each id is above every id before it.  An   *)
(* id is a pair compared as its text is, the first part first.             *)
(***************************************************************************)
EXTENDS Integers

CONSTANT None              \* the process has issued no id yet

VARIABLE newest            \* the last id issued by this process

Less(a, b) == a[1] < b[1] \/ (a[1] = b[1] /\ a[2] < b[2])

IdsInit == newest = None

Issue ==
  /\ newest' \in Int \X Int
  /\ newest = None \/ Less(newest, newest')

\* A process that starts knows nothing of the ids issued before it.
NewProcess == newest' = None

IdsSpec == IdsInit /\ [][Issue \/ NewProcess]_newest
=============================================================================
