----------------------------- MODULE SetCompare -----------------------------
(***************************************************************************)
(* The comparison of a cluster's rows with the objects its API server      *)
(* lists (CompareSetsByFunc): both arrays are sorted by key, the external  *)
(* id of a row and the uid of a remote object, and merged by two indices.  *)
(* Rows only are removed, objects only are added, and rows and objects     *)
(* with one key are put side by side in two lists.                         *)
(*                                                                         *)
(* Keys are strings compared byte by byte; the model needs only their      *)
(* order, and takes integers.  Keys may repeat: rows that were never       *)
(* created remotely all have the empty external id.                        *)
(***************************************************************************)
EXTENDS Integers, Sequences, FiniteSets

CONSTANTS
  Keys,        \* external ids and uids
  MaxLen       \* bound on the length of either list

\* strings are totally ordered, and a slice has a length
ASSUME KeysAreOrdered == Keys \subseteq Int
ASSUME MaxLenIsNat == MaxLen \in Nat

VARIABLES
  dbSet, extSet,            \* dbSetArray, extSetArray
  pc,                       \* "sort", "merge", "done"
  i, j,                     \* the two indices of the loop, from 1
  removed, commonDB, commonExt, added

vars == <<dbSet, extSet, pc, i, j, removed, commonDB, commonExt, added>>

\* An element of an array: its key and the value it stands for, here its
\* place in the list it came from.
Elem == [key : Keys, value : 1..MaxLen]

\* The values of a sequence.
Elems(s) == {s[k] : k \in DOMAIN s}

\* Lists of at most MaxLen keys.
KeyLists == UNION {[1..n -> Keys] : n \in 0..MaxLen}

valueSet2Array(keys) ==
  [k \in DOMAIN keys |-> [key |-> keys[k], value |-> k]]

Sorted(s) == \A k, l \in DOMAIN s : k < l => s[k].key <= s[l].key

\* sort.Sort is not stable: any order of equal keys may come out.
Sort(s) == {t \in [DOMAIN s -> Elems(s)] : Sorted(t) /\ Elems(t) = Elems(s)}

Init ==
  /\ \E keys \in KeyLists : dbSet = valueSet2Array(keys)
  /\ \E keys \in KeyLists : extSet = valueSet2Array(keys)
  /\ pc = "sort"
  /\ i = 1
  /\ j = 1
  /\ removed = <<>>
  /\ commonDB = <<>>
  /\ commonExt = <<>>
  /\ added = <<>>

\* Mutant: the remote objects are left as they were listed.
SortLocalOnly ==
  /\ pc = "sort"
  /\ dbSet' \in Sort(dbSet)
  /\ pc' = "merge"
  /\ UNCHANGED <<extSet, i, j, removed, commonDB, commonExt, added>>

SortBoth ==
  /\ pc = "sort"
  /\ dbSet' \in Sort(dbSet)
  /\ extSet' \in Sort(extSet)
  /\ pc' = "merge"
  /\ UNCHANGED <<i, j, removed, commonDB, commonExt, added>>

LocalLeft == i <= Len(dbSet)
RemoteLeft == j <= Len(extSet)

\* cmp == 0: the row and the object belong together.
Match ==
  /\ pc = "merge"
  /\ LocalLeft
  /\ RemoteLeft
  /\ dbSet[i].key = extSet[j].key
  /\ commonDB' = Append(commonDB, dbSet[i])
  /\ commonExt' = Append(commonExt, extSet[j])
  /\ i' = i + 1
  /\ j' = j + 1
  /\ UNCHANGED <<dbSet, extSet, pc, removed, added>>

\* cmp < 0, or no object is left: the row is removed.
Remove ==
  /\ pc = "merge"
  /\ LocalLeft
  /\ RemoteLeft => dbSet[i].key < extSet[j].key
  /\ removed' = Append(removed, dbSet[i])
  /\ i' = i + 1
  /\ UNCHANGED <<dbSet, extSet, pc, j, commonDB, commonExt, added>>

\* Mutant: objects left when the rows are used up are not taken.
AddWhileRowsLeft ==
  /\ pc = "merge"
  /\ LocalLeft
  /\ RemoteLeft
  /\ dbSet[i].key > extSet[j].key
  /\ added' = Append(added, extSet[j])
  /\ j' = j + 1
  /\ UNCHANGED <<dbSet, extSet, pc, i, removed, commonDB, commonExt>>

\* cmp > 0, or no row is left: the object is added.
Add ==
  /\ pc = "merge"
  /\ RemoteLeft
  /\ LocalLeft => dbSet[i].key > extSet[j].key
  /\ added' = Append(added, extSet[j])
  /\ j' = j + 1
  /\ UNCHANGED <<dbSet, extSet, pc, i, removed, commonDB, commonExt>>

\* Mutant: the loop ends with the first array that is used up.
ReturnEarly ==
  /\ pc = "merge"
  /\ ~LocalLeft \/ ~RemoteLeft
  /\ pc' = "done"
  /\ UNCHANGED <<dbSet, extSet, i, j, removed, commonDB, commonExt, added>>

\* The loop ends when both arrays are used up.
Return ==
  /\ pc = "merge"
  /\ ~LocalLeft
  /\ ~RemoteLeft
  /\ pc' = "done"
  /\ UNCHANGED <<dbSet, extSet, i, j, removed, commonDB, commonExt, added>>

Next == SortBoth \/ Match \/ Remove \/ Add \/ Return

Spec == Init /\ [][Next]_vars

\* The function runs to its end: it makes no call that may block.
FairSpec == Spec /\ WF_vars(Next)

-----------------------------------------------------------------------------
(* Properties *)

TypeOK ==
  /\ dbSet \in Seq(Elem) /\ Len(dbSet) <= MaxLen
  /\ extSet \in Seq(Elem) /\ Len(extSet) <= MaxLen
  /\ pc \in {"sort", "merge", "done"}
  /\ i \in 1..(Len(dbSet) + 1)
  /\ j \in 1..(Len(extSet) + 1)
  /\ removed \in Seq(Elem)
  /\ commonDB \in Seq(Elem)
  /\ commonExt \in Seq(Elem)
  /\ added \in Seq(Elem)

\* A row and an object with one key are never left unpaired: no key is both
\* among the removed rows and among the added objects.  Otherwise the
\* synchronisation would delete the row of a living object and then insert
\* a new one in its place (compare.go:72-93).
NoMissedPair ==
  \A r \in Elems(removed), a \in Elems(added) : r.key # a.key

\* Nothing is lost and nothing is listed twice: when the function returns,
\* the rows are exactly the removed and the common ones, and the objects
\* exactly the added and the common ones, each once.
EachElementOnce ==
  pc = "done" =>
    /\ Elems(removed) \cup Elems(commonDB) = Elems(dbSet)
    /\ Len(removed) + Len(commonDB) = Len(dbSet)
    /\ Elems(added) \cup Elems(commonExt) = Elems(extSet)
    /\ Len(added) + Len(commonExt) = Len(extSet)

\* The merge ends for every pair of lists.
Terminates == <>(pc = "done")
=============================================================================
