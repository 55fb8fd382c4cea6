------------------------------ MODULE MCIndexer ------------------------------
(* Indexer for TLC: two watch folders, or one for each place; places and    *)
(* contents are model values, alike among themselves within a folder. All   *)
(* contents have one size and differ in their bytes; the modification time  *)
(* tells all of them apart, or only the malformed one from the others.      *)
EXTENDS Indexer, TLC

CONSTANT InG   \* the places of the second folder

FolderOfPlace == [p \in Places |-> IF p \in InG THEN "g" ELSE "f"]
FolderOfItsOwn == [p \in Places |-> p]
BytesDiffer == [c \in Contents |-> c]
StatsDiffer == [c \in Contents |-> c]
HeaderOnly == [c \in Contents |-> IF c \in Malformed THEN c ELSE None]
OneSize == [c \in Contents |-> 1]

(* A disk that changes twice leaves no time for a stop.                    *)
TwoUpsets == used.changes + used.breaks <= 2

Symmetry == Permutations(Places \ InG) \cup Permutations(InG)
  \cup Permutations(Contents \ (Malformed \cup Unreadable))
=============================================================================
