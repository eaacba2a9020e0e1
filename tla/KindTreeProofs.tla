--------------------------- MODULE KindTreeProofs ---------------------------
(***************************************************************************)
(* Proofs about the merge of SetCompare, for every set of keys and every   *)
(* length of the two lists; and about the copies of several kinds of       *)
(* objects of one cluster (KindTree), for any names, any number of rows    *)
(* and any bounds: a walk of the tree of kinds that reports success has    *)
(* mirrored every level, and two collections clean up behind a deleted     *)
(* cluster.                                                                *)
(***************************************************************************)
EXTENDS SetCompare, KindTree, FiniteSetTheorems, TLAPS

-----------------------------------------------------------------------------
(* The merge *)

\* The values of a sequence after an append.
LEMMA ElemsAppend ==
  ASSUME NEW S, NEW s \in Seq(S), NEW e \in S
  PROVE  /\ Append(s, e) \in Seq(S)
         /\ Len(Append(s, e)) = Len(s) + 1
         /\ Elems(Append(s, e)) = Elems(s) \cup {e}
         /\ Append(s, e)[Len(s) + 1] = e
         /\ \A k \in 1..Len(s) : Append(s, e)[k] = s[k]
<1>1. Append(s, e) \in Seq(S) /\ Len(Append(s, e)) = Len(s) + 1
  OBVIOUS
<1>2. /\ DOMAIN s = 1..Len(s)
      /\ DOMAIN Append(s, e) = 1..(Len(s) + 1)
      /\ Append(s, e)[Len(s) + 1] = e
      /\ \A k \in 1..Len(s) : Append(s, e)[k] = s[k]
  OBVIOUS
<1>3. Len(s) \in Nat
  OBVIOUS
<1>4. Elems(Append(s, e)) = Elems(s) \cup {e}
  BY <1>2, <1>3 DEF Elems
<1> QED
  BY <1>1, <1>2, <1>4

\* The values of a nonempty list up to its k-th element.
UpTo(s, k) == {s[l] : l \in 1..k}

\* The part of a list that has been classified, one element later.
LEMMA UpToNext ==
  ASSUME NEW s, NEW k \in Nat
  PROVE  UpTo(s, k + 1) = UpTo(s, k) \cup {s[k + 1]}
BY DEF UpTo

\* The two lists as the function receives them.
LEMMA ArrayType ==
  ASSUME NEW keys \in KeyLists
  PROVE  /\ valueSet2Array(keys) \in Seq(Elem)
         /\ Len(valueSet2Array(keys)) <= MaxLen
<1>1. PICK n \in 0..MaxLen : keys \in [1..n -> Keys]
  BY DEF KeyLists
<1>2. n \in Nat /\ n <= MaxLen
  BY <1>1, MaxLenIsNat
<1>3. valueSet2Array(keys) = [k \in 1..n |-> [key |-> keys[k], value |-> k]]
  BY <1>1 DEF valueSet2Array
<1>4. \A k \in 1..n : [key |-> keys[k], value |-> k] \in Elem
  BY <1>1, <1>2, MaxLenIsNat DEF Elem
<1>5. [k \in 1..n |-> [key |-> keys[k], value |-> k]] \in Seq(Elem)
  BY <1>2, <1>4
<1>6. Len([k \in 1..n |-> [key |-> keys[k], value |-> k]]) = n
  BY <1>2
<1> QED
  BY <1>2, <1>3, <1>5, <1>6

\* Sorting keeps the length and the type of a list, and orders it.
LEMMA SortType ==
  ASSUME NEW s \in Seq(Elem), NEW t \in Sort(s)
  PROVE  t \in Seq(Elem) /\ Len(t) = Len(s) /\ Sorted(t)
<1>1. t \in [1..Len(s) -> Elems(s)] /\ Sorted(t)
  BY DEF Sort
<1>2. Elems(s) \subseteq Elem
  BY DEF Elems
<1>3. t \in [1..Len(s) -> Elem] /\ Len(s) \in Nat
  BY <1>1, <1>2
<1> QED
  BY <1>1, <1>3

-----------------------------------------------------------------------------
\* While the arrays are unsorted nothing is classified, and then they are
\* sorted for good; the loop is left with both of them used up.
Phases ==
  /\ pc = "sort" => i = 1 /\ j = 1
  /\ pc # "sort" => Sorted(dbSet) /\ Sorted(extSet)
  /\ pc = "done" => i = Len(dbSet) + 1 /\ j = Len(extSet) + 1

\* A removed row's key is below all objects still to come, and an added
\* object's key below all rows still to come: no partner can follow.
Below ==
  /\ \A r \in Elems(removed) : \A l \in j..Len(extSet) : r.key < extSet[l].key
  /\ \A a \in Elems(added) : \A l \in i..Len(dbSet) : a.key < dbSet[l].key

\* The lists hold exactly what lies before the two indices.
Covered ==
  /\ Elems(removed) \cup Elems(commonDB) = UpTo(dbSet, i - 1)
  /\ Len(removed) + Len(commonDB) = i - 1
  /\ Elems(added) \cup Elems(commonExt) = UpTo(extSet, j - 1)
  /\ Len(added) + Len(commonExt) = j - 1

\* The inductive invariant.
IInv == TypeOK /\ Phases /\ Below /\ Covered /\ NoMissedPair

LEMMA InitIInv == Init => IInv
<1> SUFFICES ASSUME Init PROVE IInv
  OBVIOUS
<1>1. TypeOK
  BY ArrayType DEF Init, TypeOK
<1>2. /\ Elems(removed) = {} /\ Elems(commonDB) = {}
      /\ Elems(added) = {} /\ Elems(commonExt) = {}
  BY DEF Init, Elems
<1>3. UpTo(dbSet, i - 1) = {} /\ UpTo(extSet, j - 1) = {}
  BY DEF Init, UpTo
<1>4. Covered
  BY <1>2, <1>3 DEF Init, Covered
<1>5. Phases /\ Below /\ NoMissedPair
  BY <1>2 DEF Init, Phases, Below, NoMissedPair
<1> QED
  BY <1>1, <1>4, <1>5 DEF IInv

LEMMA SortIInv == IInv /\ SortBoth => IInv'
<1> SUFFICES ASSUME IInv, SortBoth PROVE IInv'
  OBVIOUS
<1>1. /\ dbSet' \in Seq(Elem) /\ Len(dbSet') = Len(dbSet) /\ Sorted(dbSet')
      /\ extSet' \in Seq(Elem) /\ Len(extSet') = Len(extSet) /\ Sorted(extSet')
  BY SortType DEF IInv, TypeOK, SortBoth
<1>2. /\ i = 1 /\ j = 1 /\ Len(removed) + Len(commonDB) = 0
      /\ Len(added) + Len(commonExt) = 0
  BY DEF IInv, Phases, Covered, SortBoth
<1>3. Elems(removed) = {} /\ Elems(added) = {}
  <2>1. Len(removed) = 0 /\ Len(added) = 0
    BY <1>2 DEF IInv, TypeOK
  <2> QED
    BY <2>1 DEF IInv, TypeOK, Elems
<1>4. TypeOK'
  BY <1>1 DEF IInv, TypeOK, SortBoth
<1>5. Phases'
  BY <1>1, <1>2 DEF Phases, SortBoth
<1>6. Below'
  BY <1>3 DEF Below, SortBoth
<1>7. Covered'
  <2>1. UpTo(dbSet, i - 1) = {} /\ UpTo(extSet, j - 1) = {}
    BY <1>2 DEF UpTo
  <2>2. UpTo(dbSet, i - 1)' = {} /\ UpTo(extSet, j - 1)' = {}
    BY <1>2 DEF UpTo, SortBoth
  <2> QED
    BY <2>1, <2>2 DEF IInv, Covered, SortBoth
<1>8. NoMissedPair'
  BY DEF IInv, NoMissedPair, SortBoth
<1> QED
  BY <1>4, <1>5, <1>6, <1>7, <1>8 DEF IInv

LEMMA MatchIInv == IInv /\ Match => IInv'
<1> SUFFICES ASSUME IInv, Match PROVE IInv'
  OBVIOUS
<1>1. /\ i \in 1..Len(dbSet) /\ j \in 1..Len(extSet)
      /\ Len(dbSet) \in Nat /\ Len(extSet) \in Nat
      /\ dbSet[i] \in Elem /\ extSet[j] \in Elem
  BY DEF IInv, TypeOK, Match, LocalLeft, RemoteLeft
<1>2. /\ commonDB' \in Seq(Elem) /\ commonExt' \in Seq(Elem)
      /\ Len(commonDB') = Len(commonDB) + 1
      /\ Len(commonExt') = Len(commonExt) + 1
      /\ Elems(commonDB') = Elems(commonDB) \cup {dbSet[i]}
      /\ Elems(commonExt') = Elems(commonExt) \cup {extSet[j]}
  BY <1>1, ElemsAppend DEF IInv, TypeOK, Match
<1>3. TypeOK'
  <2>1. i' \in 1..(Len(dbSet) + 1) /\ j' \in 1..(Len(extSet) + 1)
    BY <1>1 DEF Match
  <2> QED
    BY <1>2, <2>1 DEF IInv, TypeOK, Match
<1>4. Phases'
  BY DEF IInv, Phases, Match
<1>5. Below'
  BY <1>1 DEF IInv, Below, Match
<1>6. Covered'
  <2>1. /\ UpTo(dbSet, i) = UpTo(dbSet, i - 1) \cup {dbSet[i]}
        /\ UpTo(extSet, j) = UpTo(extSet, j - 1) \cup {extSet[j]}
    <3>1. /\ i - 1 \in Nat /\ (i - 1) + 1 = i
          /\ j - 1 \in Nat /\ (j - 1) + 1 = j
      BY <1>1
    <3> QED
      BY <3>1, UpToNext
  <2>2. /\ dbSet' = dbSet /\ extSet' = extSet
        /\ i' - 1 = i /\ j' - 1 = j
        /\ removed' = removed /\ added' = added
    BY <1>1 DEF Match
  <2>3. /\ Len(removed) \in Nat /\ Len(commonDB) \in Nat
        /\ Len(added) \in Nat /\ Len(commonExt) \in Nat
    BY DEF IInv, TypeOK
  <2>4. /\ Len(removed) + Len(commonDB') = i
        /\ Len(added) + Len(commonExt') = j
    BY <1>1, <1>2, <2>3 DEF IInv, Covered
  <2>5. /\ Elems(removed) \cup Elems(commonDB') = UpTo(dbSet, i)
        /\ Elems(added) \cup Elems(commonExt') = UpTo(extSet, j)
    BY <1>2, <2>1 DEF IInv, Covered
  <2> QED
    BY <2>2, <2>4, <2>5 DEF Covered
<1>7. NoMissedPair'
  BY DEF IInv, NoMissedPair, Match
<1> QED
  BY <1>3, <1>4, <1>5, <1>6, <1>7 DEF IInv

LEMMA RemoveIInv == IInv /\ Remove => IInv'
<1> SUFFICES ASSUME IInv, Remove PROVE IInv'
  OBVIOUS
<1>1. /\ i \in 1..Len(dbSet) /\ Len(dbSet) \in Nat /\ Len(extSet) \in Nat
      /\ j \in 1..(Len(extSet) + 1) /\ dbSet[i] \in Elem
  BY DEF IInv, TypeOK, Remove, LocalLeft
<1>2. /\ removed' \in Seq(Elem) /\ Len(removed') = Len(removed) + 1
      /\ Elems(removed') = Elems(removed) \cup {dbSet[i]}
  BY <1>1, ElemsAppend DEF IInv, TypeOK, Remove
<1>3. TypeOK'
  <2>1. i' \in 1..(Len(dbSet) + 1)
    BY <1>1 DEF Remove
  <2> QED
    BY <1>2, <2>1 DEF IInv, TypeOK, Remove
<1>4. Phases'
  BY DEF IInv, Phases, Remove
<1>5. \A l \in j..Len(extSet) : dbSet[i].key < extSet[l].key
  <2> SUFFICES ASSUME NEW l \in j..Len(extSet)
               PROVE  dbSet[i].key < extSet[l].key
    OBVIOUS
  <2>1. dbSet[i].key < extSet[j].key
    BY <1>1 DEF Remove, RemoteLeft
  <2>2. j \in DOMAIN extSet /\ l \in DOMAIN extSet /\ j <= l
    BY <1>1 DEF IInv, TypeOK
  <2>3. extSet[j] \in Elem /\ extSet[l] \in Elem
    BY <2>2 DEF IInv, TypeOK
  <2>4. dbSet[i].key \in Int /\ extSet[j].key \in Int /\ extSet[l].key \in Int
    BY <1>1, <2>3, KeysAreOrdered DEF Elem
  <2>5. extSet[j].key <= extSet[l].key
    <3>1. CASE j = l
      BY <2>4, <3>1
    <3>2. CASE j < l
      BY <2>2, <3>2 DEF IInv, Phases, Remove, Sorted
    <3> QED
      BY <1>1, <2>2, <3>1, <3>2
  <2> QED
    BY <2>1, <2>4, <2>5
<1>6. \A a \in Elems(added) : a.key < dbSet[i].key
  BY <1>1 DEF IInv, Below
<1>7. Below'
  BY <1>1, <1>2, <1>5 DEF IInv, Below, Remove
<1>8. NoMissedPair'
  <2>1. Elems(added) \subseteq Elem
    BY DEF IInv, TypeOK, Elems
  <2>2. dbSet[i].key \in Int
    BY <1>1, KeysAreOrdered DEF Elem
  <2>3. \A a \in Elems(added) : dbSet[i].key # a.key
    BY <1>6, <2>1, <2>2, KeysAreOrdered DEF Elem
  <2> QED
    BY <1>2, <2>3 DEF IInv, NoMissedPair, Remove
<1>9. Covered'
  <2>1. i - 1 \in Nat /\ (i - 1) + 1 = i /\ i' - 1 = i
    BY <1>1 DEF Remove
  <2>2. UpTo(dbSet, i) = UpTo(dbSet, i - 1) \cup {dbSet[i]}
    BY <2>1, UpToNext
  <2>3. Len(removed) \in Nat /\ Len(commonDB) \in Nat
    BY DEF IInv, TypeOK
  <2>4. Len(removed') + Len(commonDB) = i
    BY <1>1, <1>2, <2>3 DEF IInv, Covered
  <2>5. Elems(removed') \cup Elems(commonDB) = UpTo(dbSet, i)
    BY <1>2, <2>2 DEF IInv, Covered
  <2> QED
    BY <2>1, <2>4, <2>5 DEF IInv, Covered, Remove
<1> QED
  BY <1>3, <1>4, <1>7, <1>8, <1>9 DEF IInv

LEMMA AddIInv == IInv /\ Add => IInv'
<1> SUFFICES ASSUME IInv, Add PROVE IInv'
  OBVIOUS
<1>1. /\ j \in 1..Len(extSet) /\ Len(dbSet) \in Nat /\ Len(extSet) \in Nat
      /\ i \in 1..(Len(dbSet) + 1) /\ extSet[j] \in Elem
  BY DEF IInv, TypeOK, Add, RemoteLeft
<1>2. /\ added' \in Seq(Elem) /\ Len(added') = Len(added) + 1
      /\ Elems(added') = Elems(added) \cup {extSet[j]}
  BY <1>1, ElemsAppend DEF IInv, TypeOK, Add
<1>3. TypeOK'
  <2>1. j' \in 1..(Len(extSet) + 1)
    BY <1>1 DEF Add
  <2> QED
    BY <1>2, <2>1 DEF IInv, TypeOK, Add
<1>4. Phases'
  BY DEF IInv, Phases, Add
<1>5. \A l \in i..Len(dbSet) : extSet[j].key < dbSet[l].key
  <2> SUFFICES ASSUME NEW l \in i..Len(dbSet)
               PROVE  extSet[j].key < dbSet[l].key
    OBVIOUS
  <2>1. i \in DOMAIN dbSet /\ l \in DOMAIN dbSet /\ i <= l
    BY <1>1 DEF IInv, TypeOK
  <2>2. dbSet[i] \in Elem /\ dbSet[l] \in Elem
    BY <2>1 DEF IInv, TypeOK
  <2>3. dbSet[i].key \in Int /\ dbSet[l].key \in Int /\ extSet[j].key \in Int
    BY <1>1, <2>2, KeysAreOrdered DEF Elem
  <2>4. dbSet[i].key > extSet[j].key
    BY <1>1, <2>1 DEF Add, LocalLeft
  <2>5. dbSet[i].key <= dbSet[l].key
    <3>1. CASE i = l
      BY <2>3, <3>1
    <3>2. CASE i < l
      BY <2>1, <3>2 DEF IInv, Phases, Add, Sorted
    <3> QED
      BY <1>1, <2>1, <3>1, <3>2
  <2> QED
    BY <2>3, <2>4, <2>5
<1>6. \A r \in Elems(removed) : r.key < extSet[j].key
  BY <1>1 DEF IInv, Below
<1>7. Below'
  BY <1>1, <1>2, <1>5 DEF IInv, Below, Add
<1>8. NoMissedPair'
  <2>1. Elems(removed) \subseteq Elem
    BY DEF IInv, TypeOK, Elems
  <2>2. extSet[j].key \in Int
    BY <1>1, KeysAreOrdered DEF Elem
  <2>3. \A r \in Elems(removed) : r.key # extSet[j].key
    BY <1>6, <2>1, <2>2, KeysAreOrdered DEF Elem
  <2> QED
    BY <1>2, <2>3 DEF IInv, NoMissedPair, Add
<1>9. Covered'
  <2>1. j - 1 \in Nat /\ (j - 1) + 1 = j /\ j' - 1 = j
    BY <1>1 DEF Add
  <2>2. UpTo(extSet, j) = UpTo(extSet, j - 1) \cup {extSet[j]}
    BY <2>1, UpToNext
  <2>3. Len(added) \in Nat /\ Len(commonExt) \in Nat
    BY DEF IInv, TypeOK
  <2>4. Len(added') + Len(commonExt) = j
    BY <1>1, <1>2, <2>3 DEF IInv, Covered
  <2>5. Elems(added') \cup Elems(commonExt) = UpTo(extSet, j)
    BY <1>2, <2>2 DEF IInv, Covered
  <2> QED
    BY <2>1, <2>4, <2>5 DEF IInv, Covered, Add
<1> QED
  BY <1>3, <1>4, <1>7, <1>8, <1>9 DEF IInv

LEMMA ReturnIInv == IInv /\ Return => IInv'
<1> SUFFICES ASSUME IInv, Return PROVE IInv'
  OBVIOUS
<1>1. i = Len(dbSet) + 1 /\ j = Len(extSet) + 1
  <2>1. /\ Len(dbSet) \in Nat /\ i \in 1..(Len(dbSet) + 1)
        /\ Len(extSet) \in Nat /\ j \in 1..(Len(extSet) + 1)
    BY DEF IInv, TypeOK
  <2>2. ~(i <= Len(dbSet)) /\ ~(j <= Len(extSet))
    BY DEF Return, LocalLeft, RemoteLeft
  <2> QED
    BY <2>1, <2>2
<1>2. TypeOK'
  BY DEF IInv, TypeOK, Return
<1>3. Phases'
  BY <1>1 DEF IInv, Phases, Return
<1>4. Below' /\ Covered' /\ NoMissedPair'
  BY DEF IInv, Below, Covered, NoMissedPair, Return
<1> QED
  BY <1>2, <1>3, <1>4 DEF IInv

\* The inductive invariant holds in every state of the merge.
THEOREM MergeInvariant == Spec => []IInv
<1>1. Init => IInv
  BY InitIInv
<1>2. IInv /\ [Next]_vars => IInv'
  <2>1. IInv /\ UNCHANGED vars => IInv'
    BY DEF IInv, TypeOK, Phases, Below, Covered, NoMissedPair, vars
  <2> QED
    BY <2>1, SortIInv, MatchIInv, RemoveIInv, AddIInv, ReturnIInv DEF Next
<1> QED
  BY <1>1, <1>2, PTL DEF Spec

\* Types are kept: the indices stay within one of the ends of the arrays,
\* so that no access of the loop is out of range.
THEOREM MergeTypeCorrect == Spec => []TypeOK
<1>1. IInv => TypeOK
  BY DEF IInv
<1> QED
  BY <1>1, MergeInvariant, PTL

\* No row and object with one key are classified as removed and added, for
\* lists of any length, with or without repeated keys.
THEOREM NoPairIsMissed == Spec => []NoMissedPair
<1>1. IInv => NoMissedPair
  BY DEF IInv
<1> QED
  BY <1>1, MergeInvariant, PTL

\* On return the classification is complete and without repetition.
THEOREM ClassificationComplete == Spec => []EachElementOnce
<1>1. IInv => EachElementOnce
  <2> SUFFICES ASSUME IInv, pc = "done"
               PROVE  /\ Elems(removed) \cup Elems(commonDB) = Elems(dbSet)
                      /\ Len(removed) + Len(commonDB) = Len(dbSet)
                      /\ Elems(added) \cup Elems(commonExt) = Elems(extSet)
                      /\ Len(added) + Len(commonExt) = Len(extSet)
    BY DEF EachElementOnce
  <2>1. /\ i = Len(dbSet) + 1 /\ j = Len(extSet) + 1
        /\ Len(dbSet) \in Nat /\ Len(extSet) \in Nat
    BY DEF IInv, Phases, TypeOK
  <2>2. i - 1 = Len(dbSet) /\ j - 1 = Len(extSet)
    BY <2>1
  <2>3. /\ UpTo(dbSet, Len(dbSet)) = Elems(dbSet)
        /\ UpTo(extSet, Len(extSet)) = Elems(extSet)
    BY DEF IInv, TypeOK, UpTo, Elems
  <2> QED
    BY <2>2, <2>3 DEF IInv, Covered
<1> QED
  BY <1>1, MergeInvariant, PTL

-----------------------------------------------------------------------------
(* The logs of the cluster *)

Entries(s) == {s[v] : v \in 1..Len(s)}

\* A uid is given to one object of a kind only, and not before it is made.
LogOf(s) ==
  /\ s \in Seq(Entries(s))
  /\ \A v \in 1..Len(s) : s[v].uid \in Nat /\ s[v].uid <= v
  /\ \A v, w \in 1..Len(s) : s[v].uid = s[w].uid /\ s[v].uid # 0 => SameName(s[v], s[w])

\* The second log goes on from the first.
Continues(s, t) ==
  /\ Len(s) <= Len(t)
  /\ \A v \in 1..Len(s) : t[v] = s[v]

\* The objects after n changes, as a function of the log.
ListOf(k, s, n) ==
  {[kind |-> k, name |-> s[v].name, ns |-> s[v].ns, node |-> s[v].node,
    uid |-> s[v].uid, ver |-> v] :
     v \in {w \in 1..n : /\ s[w].uid # 0
                         /\ \A o \in (w + 1)..n : ~SameName(s[o], s[w])}}

\* A listing reads only the log of its kind.
LEMMA ListingIsListOf ==
  \A k, n : Listing(k, n) = ListOf(k, log[k], n)
BY DEF Listing, ListOf, Object

\* One more change leaves a log a log.
LEMMA LogAppend ==
  ASSUME NEW s, NEW e, LogOf(s), e.uid \in Nat, e.uid <= Len(s) + 1,
         \A v \in 1..Len(s) : s[v].uid = e.uid /\ e.uid # 0 => SameName(s[v], e)
  PROVE  LogOf(Append(s, e)) /\ Continues(s, Append(s, e))
<1> DEFINE S == Entries(s) \cup {e}
           t == Append(s, e)
<1>1. s \in Seq(S)
  <2>1. s \in Seq(Entries(s)) /\ Entries(s) \subseteq S
    BY DEF LogOf
  <2> HIDE DEF S
  <2> QED BY <2>1
<1>2. /\ t \in Seq(S) /\ Len(t) = Len(s) + 1 /\ Len(s) \in Nat
      /\ \A v \in 1..Len(s) : t[v] = s[v]
      /\ t[Len(s) + 1] = e
  <2> HIDE DEF S
  <2>1. e \in S
    BY DEF S
  <2> QED BY <1>1, <2>1
<1> HIDE DEF t, S
<1>3. \A v \in 1..Len(t) : (v \in 1..Len(s) /\ t[v] = s[v]) \/ (v = Len(s) + 1 /\ t[v] = e)
  BY <1>2
<1>4. t \in Seq(Entries(t))
  <2>1. t = [v \in 1..Len(t) |-> t[v]]
    BY <1>2
  <2>2. \A v \in 1..Len(t) : t[v] \in Entries(t)
    BY DEF Entries
  <2>3. Len(t) \in Nat
    BY <1>2
  <2> QED BY <2>1, <2>2, <2>3
<1>5. \A v \in 1..Len(t) : t[v].uid \in Nat /\ t[v].uid <= v
  BY <1>2, <1>3 DEF LogOf
<1>6. \A v, w \in 1..Len(t) : t[v].uid = t[w].uid /\ t[v].uid # 0 => SameName(t[v], t[w])
  BY <1>2, <1>3 DEF LogOf, SameName
<1>7. Continues(s, t)
  BY <1>2 DEF Continues
<1> QED BY <1>4, <1>5, <1>6, <1>7 DEF LogOf, t

\* The deletions that come with a namespace leave a log a log.
LEMMA LogEntombed ==
  ASSUME NEW s, NEW objs, LogOf(s), IsFiniteSet(objs)
  PROVE  LogOf(Entombed(s, objs)) /\ Continues(s, Entombed(s, objs))
<1> DEFINE It(v) == Tomb(CHOOSE o \in objs : Cardinality({x \in objs : x.uid < o.uid}) = v - 1)
           n == Cardinality(objs)
           d == [v \in 1..n |-> It(v)]
           S == Entries(s) \cup {It(v) : v \in 1..n}
           t == s \o d
<1>0. n \in Nat
  BY FS_CardinalityType
<1>1. s \in Seq(S) /\ d \in Seq(S) /\ Len(d) = n
  <2>1. s \in Seq(Entries(s)) /\ Entries(s) \subseteq S
    BY DEF LogOf
  <2>2. \A v \in 1..n : It(v) \in S
    OBVIOUS
  <2> HIDE DEF S, It, n
  <2>3. s \in Seq(S)
    BY <2>1
  <2>4. d \in Seq(S) /\ Len(d) = n
    BY <2>2, <1>0
  <2> QED BY <2>3, <2>4
<1>2. \A v \in 1..n : d[v].uid = 0
  BY DEF Tomb
<1> HIDE DEF d, S, n, It
<1>3. /\ t \in Seq(S) /\ Len(t) = Len(s) + n /\ Len(s) \in Nat
      /\ \A v \in 1..Len(s) : t[v] = s[v]
      /\ \A v \in (Len(s) + 1)..(Len(s) + n) : t[v] = d[v - Len(s)]
  BY <1>0, <1>1
<1> HIDE DEF t
<1>4. \A v \in 1..Len(t) : (v \in 1..Len(s) /\ t[v] = s[v]) \/ t[v].uid = 0
  <2> TAKE v \in 1..Len(t)
  <2>1. CASE v <= Len(s)
    BY <2>1, <1>3
  <2>2. CASE v > Len(s)
    <3>1. v \in (Len(s) + 1)..(Len(s) + n) /\ v - Len(s) \in 1..n
      BY <2>2, <1>3, <1>0
    <3> QED BY <3>1, <1>2, <1>3
  <2> QED BY <2>1, <2>2, <1>3, <1>0
<1>5. t \in Seq(Entries(t))
  <2>1. t = [v \in 1..Len(t) |-> t[v]]
    BY <1>3
  <2>2. \A v \in 1..Len(t) : t[v] \in Entries(t)
    BY DEF Entries
  <2>3. Len(t) \in Nat
    BY <1>3, <1>0
  <2> QED BY <2>1, <2>2, <2>3
<1>6. \A v \in 1..Len(t) : t[v].uid \in Nat /\ t[v].uid <= v
  BY <1>3, <1>0, <1>4 DEF LogOf
<1>7. \A v, w \in 1..Len(t) : t[v].uid = t[w].uid /\ t[v].uid # 0 => SameName(t[v], t[w])
  BY <1>4 DEF LogOf
<1>8. Continues(s, t)
  BY <1>3, <1>0 DEF Continues
<1>9. Entombed(s, objs) = t
  BY DEF Entombed, t, d, It, n
<1> QED BY <1>5, <1>6, <1>7, <1>8, <1>9 DEF LogOf

\* A log has a length.
LEMMA LogLength ==
  \A s : LogOf(s) => Len(s) \in Nat
BY DEF LogOf

\* What an informer lists: finitely many objects of one kind, each with a uid
\* of its own.
LEMMA ListOfFacts ==
  ASSUME NEW k, NEW s, NEW n \in Nat, LogOf(s), n <= Len(s)
  PROVE  /\ IsFiniteSet(ListOf(k, s, n))
         /\ \A o \in ListOf(k, s, n) : o.kind = k /\ o.ver \in Nat /\ o.uid \in Nat
         /\ \A o, q \in ListOf(k, s, n) : o.uid = q.uid => o = q
<1> DEFINE Last == {w \in 1..n : /\ s[w].uid # 0
                                 /\ \A o \in (w + 1)..n : ~SameName(s[o], s[w])}
           It(v) == [kind |-> k, name |-> s[v].name, ns |-> s[v].ns, node |-> s[v].node,
                     uid |-> s[v].uid, ver |-> v]
<1>0. Len(s) \in Nat
  BY DEF LogOf
<1>1. ListOf(k, s, n) = {It(v) : v \in Last}
  BY DEF ListOf
<1>2. IsFiniteSet(Last)
  <2>1. IsFiniteSet(1..n)
    BY FS_Interval
  <2> QED BY <2>1, FS_Subset
<1>3. \A v \in Last : v \in 1..n /\ v \in 1..Len(s) /\ s[v].uid # 0
  BY <1>0
<1>4. \A v, w \in Last : s[v].uid = s[w].uid => v = w
  <2> SUFFICES ASSUME NEW v \in Last, NEW w \in Last, s[v].uid = s[w].uid, v < w
               PROVE FALSE
    OBVIOUS
  <2>1. SameName(s[v], s[w])
    BY <1>3 DEF LogOf
  <2>2. w \in (v + 1)..n
    BY <1>3
  <2>3. ~SameName(s[w], s[v])
    BY <2>2
  <2> QED BY <2>1, <2>3 DEF SameName
<1>5. IsFiniteSet({It(v) : v \in Last})
  <2> DEFINE T == {It(v) : v \in Last}
             f == [v \in Last |-> It(v)]
  <2> HIDE DEF It, Last
  <2>1. f \in Surjection(Last, T)
    BY DEF Surjection
  <2> QED BY <1>2, <2>1, FS_Surjection
<1>6. \A v \in Last : It(v).kind = k /\ It(v).ver \in Nat /\ It(v).uid \in Nat /\ It(v).uid = s[v].uid
  BY <1>3 DEF LogOf
<1> HIDE DEF It, Last
<1> QED BY <1>1, <1>4, <1>5, <1>6

\* A log that goes on does not change what was listed.
LEMMA ListOfContinues ==
  ASSUME NEW k, NEW s, NEW t, NEW n \in Nat, Len(s) \in Nat, n <= Len(s), Continues(s, t)
  PROVE  ListOf(k, t, n) = ListOf(k, s, n)
<1>1. \A v \in 1..n : t[v] = s[v] /\ \A o \in (v + 1)..n : t[o] = s[o]
  BY DEF Continues
<1> QED BY <1>1 DEF ListOf

-----------------------------------------------------------------------------
(* The invariant *)

IsRow(r) == r = [id |-> r.id, kind |-> r.kind, name |-> r.name, uid |-> r.uid,
                 ns |-> r.ns, node |-> r.node, ver |-> r.ver]

IsSync(s) == s = [pc |-> s.pc, level |-> s.level, list |-> s.list, toRemove |-> s.toRemove,
                  toUpdate |-> s.toUpdate, toAdd |-> s.toAdd, err |-> s.err]

\* The logs, and how far informers and the walk have read them.
LogsOK ==
  /\ log = [k \in Kinds |-> log[k]]
  /\ cached \in [Kinds -> Nat] /\ seen \in [Kinds -> Nat]
  /\ \A k \in Kinds : LogOf(log[k]) /\ cached[k] <= Len(log[k]) /\ seen[k] <= cached[k]

\* Rows have an id of their own.
RowsOK ==
  /\ \A r \in rows : IsRow(r) /\ r.kind \in Kinds
  /\ \A r, q \in rows : r.id = q.id => r = q

\* The walk, and the rows about to be inserted.
SyncOK ==
  /\ IsSync(sync)
  /\ sync.pc \in {"idle", "list", "load", "apply", "ok", "error"}
  /\ sync.level \in 1..3 /\ sync.err \in BOOLEAN
  /\ \A o \in sync.list \cup sync.toAdd : o.kind \in Kinds
  /\ pending = [a \in Actors |-> pending[a]]
  /\ \A a \in Actors : \A p \in pending[a] : p.kind \in Kinds
  /\ pending["sync"] # {} => sync.pc = "apply"

\* Once a collection has found nothing under way, a cluster that is gone has
\* no rows but those of the leaves; after another one it has none.
PassesOK ==
  /\ cluster \in Kinds \cup {"live", "gone"}
  /\ passes \in 0..2
  /\ passes >= 1 => cluster = "gone" /\ ~InFlight /\ \A r \in rows : r.kind = "pod"
  /\ passes = 2 => rows = {}

Listed(k) == Listing(k, seen[k])

InItsNamespace(r, o) == \E n \in RowsOf("namespace") : n.id = r.ns /\ n.name = o.ns

\* The rows of a kind mirror what the walk listed of it.
LevelDone(k) ==
  /\ \A r \in RowsOf(k) : \E o \in Listed(k) : o.uid = r.uid
  /\ \A o \in Listed(k) : \E r \in RowsOf(k) : r.uid = o.uid
  /\ \A r, q \in RowsOf(k) : r.uid = q.uid => r = q
  /\ k = "pod" => \A r \in RowsOf(k), o \in Listed(k) : r.uid = o.uid => InItsNamespace(r, o)

\* The levels above the one the walk is at.
Above(k) == \/ k = "node" /\ sync.level >= 2
            \/ k = "namespace" /\ sync.level = 3

\* The rows of the level that stay, whether they have been updated or not.
Staying(k) == RowsOf(k) \ sync.toRemove

\* What is left to remove and to update are rows of the level as they were
\* loaded.
UpdatesFit(k) ==
  /\ sync.toRemove \subseteq RowsOf(k)
  /\ \A p \in sync.toUpdate :
       p.row \in Staying(k) /\ p.obj \in Listed(k) /\ p.obj.uid = p.row.uid
  /\ \A p, q \in sync.toUpdate : p.row = q.row => p = q

\* Rows that stay are of listed objects, one each.
StayingFit(k) ==
  /\ \A r \in Staying(k) : \E o \in Listed(k) : o.uid = r.uid
  /\ \A r, q \in Staying(k) : r.uid = q.uid => r = q

\* A listed object has its row, is still to be added, or is being inserted.
AdditionsFit(k) ==
  /\ sync.toAdd \subseteq Listed(k)
  /\ \A o \in Listed(k) : \/ \E r \in Staying(k) : r.uid = o.uid
                          \/ o \in sync.toAdd
                          \/ \E p \in pending["sync"] : p.uid = o.uid
  /\ \A o \in sync.toAdd, r \in Staying(k) : r.uid # o.uid

InsertionFits(k) ==
  /\ \A p, q \in pending["sync"] : p = q
  /\ \A p \in pending["sync"] :
       /\ p.kind = k /\ p.obj \in Listed(k) /\ p.obj.kind = k /\ p.uid = p.obj.uid
       /\ p.obj \notin sync.toAdd
       /\ \A r \in Staying(k) : r.uid # p.uid

\* Every row that has been updated or inserted is in the namespace of its
\* object.
NamespacesFit(k) ==
  k = "pod" =>
    \A r \in Staying(k), o \in Listed(k) :
      r.uid = o.uid => \/ \E p \in sync.toUpdate : p.row = r
                       \/ InItsNamespace(r, o)

LevelFits(k) ==
  /\ UpdatesFit(k) /\ StayingFit(k) /\ AdditionsFit(k) /\ InsertionFits(k)
  /\ NamespacesFit(k)

\* While only the walk writes rows, the levels above mirror what was listed
\* and the rows of the level under way are on their way there, if it has met
\* no error.
WalkOK ==
  alone /\ cluster = "live" =>
    /\ \A k \in Kinds : pending[k] = {}
    /\ sync.pc \in {"list", "load", "apply"} /\ ~sync.err =>
         \A k \in Kinds : Above(k) => LevelDone(k)
    /\ sync.pc = "ok" => \A k \in Kinds : LevelDone(k)
    /\ sync.pc = "load" => sync.list = Listed(SyncKind)
    /\ sync.pc = "apply" /\ ~sync.err => LevelFits(SyncKind)

TreeInv == LogsOK /\ RowsOK /\ SyncOK /\ PassesOK /\ WalkOK

-----------------------------------------------------------------------------
(* Facts about the definitions *)

\* The tree has three levels.
LEMMA KindsFact ==
  /\ Kinds = {"node", "namespace", "pod"}
  /\ Actors = {"node", "namespace", "pod", "sync"}
  /\ Levels[1] = "node" /\ Levels[2] = "namespace" /\ Levels[3] = "pod"
  /\ LevelOf("node") = 1 /\ LevelOf("namespace") = 2 /\ LevelOf("pod") = 3
<1>1. Levels[1] = "node" /\ Levels[2] = "namespace" /\ Levels[3] = "pod"
  BY DEF Levels
<1>2. 1..3 = {1, 2, 3}
  OBVIOUS
<1>3. Kinds = {"node", "namespace", "pod"}
  BY <1>1, <1>2 DEF Kinds
<1>4. LevelOf("node") = 1 /\ LevelOf("namespace") = 2 /\ LevelOf("pod") = 3
  BY <1>1, <1>2 DEF LevelOf
<1> QED BY <1>1, <1>3, <1>4 DEF Actors

\* The kind the walk is at.
LEMMA SyncKindFact ==
  ASSUME SyncOK
  PROVE  /\ SyncKind \in Kinds
         /\ sync.level = 1 <=> SyncKind = "node"
         /\ sync.level = 2 <=> SyncKind = "namespace"
         /\ sync.level = 3 <=> SyncKind = "pod"
BY KindsFact DEF SyncOK, SyncKind

\* What an informer has listed, and that it stays listed while the log grows.
LEMMA ListedFacts ==
  ASSUME LogsOK, NEW k \in Kinds
  PROVE  /\ IsFiniteSet(Listed(k))
         /\ \A o \in Listed(k) : o.kind = k /\ o.ver \in Nat
         /\ \A o, q \in Listed(k) : o.uid = q.uid => o = q
<1>1. seen[k] \in Nat /\ LogOf(log[k]) /\ Len(log[k]) \in Nat /\ cached[k] \in Nat
      /\ seen[k] <= cached[k] /\ cached[k] <= Len(log[k])
  BY LogLength DEF LogsOK
<1>2. seen[k] <= Len(log[k])
  BY <1>1
<1>3. Listed(k) = ListOf(k, log[k], seen[k])
  BY ListingIsListOf DEF Listed
<1> QED BY <1>1, <1>2, <1>3, ListOfFacts

\* The objects of a kind there are, and those in the informer's store.
LEMMA ListingFacts ==
  ASSUME LogsOK, NEW k \in Kinds
  PROVE  /\ IsFiniteSet(Objects(k))
         /\ \A o \in Objects(k) : \E v \in 1..Len(log[k]) :
              o = Object(k, v) /\ o.uid # 0
         /\ \A o \in Listing(k, cached[k]) : o.kind = k
<1>1. LogOf(log[k]) /\ Len(log[k]) \in Nat /\ cached[k] \in Nat /\ cached[k] <= Len(log[k])
  BY LogLength DEF LogsOK
<1>2. Objects(k) = ListOf(k, log[k], Len(log[k])) /\ Listing(k, cached[k]) = ListOf(k, log[k], cached[k])
  BY ListingIsListOf DEF Objects
<1>3. IsFiniteSet(Objects(k)) /\ \A o \in Listing(k, cached[k]) : o.kind = k
  <2>1. Len(log[k]) <= Len(log[k])
    BY <1>1
  <2> QED BY <1>1, <1>2, <2>1, ListOfFacts
<1>4. \A o \in Objects(k) : \E v \in 1..Len(log[k]) : o = Object(k, v) /\ o.uid # 0
  BY DEF Objects, Listing, Object
<1> QED BY <1>3, <1>4

\* What an update leaves of a row.
LEMMA UpdatedFacts ==
  ASSUME NEW r, NEW obj, IsRow(r)
  PROVE  /\ IsRow(Updated(r, obj))
         /\ Updated(r, obj).id = r.id
         /\ Updated(r, obj).kind = r.kind
         /\ Updated(r, obj).uid = obj.uid
         /\ Updated(r, obj).ns = IF obj.kind = "pod" THEN IdOf(NsRows(obj)) ELSE 0
<1> DEFINE ns == IF obj.kind = "pod" THEN IdOf(NsRows(obj)) ELSE 0
           row(name, uid, n, ver) ==
             [id |-> r.id, kind |-> r.kind, name |-> name, uid |-> uid,
              ns |-> n, node |-> r.node, ver |-> ver]
           s0 == row(r.name, r.uid, r.ns, r.ver)
           s1 == row(r.name, r.uid, r.ns, obj.ver)
           s2 == row(r.name, obj.uid, r.ns, obj.ver)
           s3 == row(obj.name, obj.uid, r.ns, obj.ver)
           s4 == row(obj.name, obj.uid, ns, obj.ver)
<1>1. Updated(r, obj) = [r EXCEPT !.ver = obj.ver, !.uid = obj.uid, !.name = obj.name, !.ns = ns]
  BY DEF Updated
<1>2. r = s0
  BY DEF IsRow
<1> HIDE DEF ns
<1>3. [s0 EXCEPT !.ver = obj.ver] = s1
  OBVIOUS
<1>4. [s1 EXCEPT !.uid = obj.uid] = s2
  OBVIOUS
<1>5. [s2 EXCEPT !.name = obj.name] = s3
  OBVIOUS
<1>6. [s3 EXCEPT !.ns = ns] = s4
  OBVIOUS
<1>7. IsRow(s4) /\ s4.id = r.id /\ s4.kind = r.kind /\ s4.uid = obj.uid /\ s4.ns = ns
  BY DEF IsRow
<1> HIDE DEF s0, s1, s2, s3, s4
<1>8. [r EXCEPT !.ver = obj.ver, !.uid = obj.uid, !.name = obj.name, !.ns = ns]
        = [[[[r EXCEPT !.ver = obj.ver] EXCEPT !.uid = obj.uid]
              EXCEPT !.name = obj.name] EXCEPT !.ns = ns]
  OBVIOUS
<1>9. Updated(r, obj) = s4
  BY <1>1, <1>2, <1>3, <1>4, <1>5, <1>6, <1>8
<1> QED BY <1>7, <1>9 DEF ns

\* The row that is inserted.
LEMMA InsertedFacts ==
  ASSUME NEW p, NEW id
  PROVE  /\ IsRow(Inserted(p, id))
         /\ Inserted(p, id).id = id
         /\ Inserted(p, id).kind = p.kind
         /\ p.uid = p.obj.uid => Inserted(p, id).uid = p.uid
         /\ p.obj.ver \in Nat /\ NsRows(p.obj) # {} /\ p.obj.kind = "pod"
              => Inserted(p, id).ns = IdOf(NsRows(p.obj))
<1> DEFINE row == [id |-> id, kind |-> p.kind, name |-> p.name, uid |-> p.uid,
                   ns |-> p.ns, node |-> p.node, ver |-> 0]
<1>1. IsRow(row) /\ row.id = id /\ row.kind = p.kind /\ row.uid = p.uid /\ row.ver = 0
  BY DEF IsRow
<1>2. Inserted(p, id) = IF Refused(row, p.obj) THEN row ELSE Updated(row, p.obj)
  BY DEF Inserted
<1>3. p.obj.ver \in Nat /\ NsRows(p.obj) # {} => ~Refused(row, p.obj)
  BY <1>1 DEF Refused
<1> HIDE DEF row
<1> QED BY <1>1, <1>2, <1>3, UpdatedFacts

\* An id that is free belongs to no row.
LEMMA FreeIdFact ==
  \A id \in FreeIds : \A r \in rows : r.id # id
<1>1. \A r \in rows : r.id \in UNION {{q.id, q.ns, q.node} : q \in rows}
  OBVIOUS
<1>2. \A r \in rows : r.id \in Referenced
  BY <1>1 DEF Referenced
<1> QED BY <1>2 DEF FreeIds

\* A namespace with a row has it under the id that is looked up.
LEMMA IdOfFact ==
  ASSUME NEW obj, NsRows(obj) # {}
  PROVE  \E n \in RowsOf("namespace") : n.id = IdOf(NsRows(obj)) /\ n.name = obj.ns
BY DEF NsRows, IdOf

\* A level that is done mirrors its listing: rows and objects are paired by
\* their uids.
LEMMA DoneMirrors ==
  ASSUME LogsOK, NEW k \in Kinds, LevelDone(k)
  PROVE  Mirrors(k, Listed(k))
<1> DEFINE R == RowsOf(k)
           L == Listed(k)
           rowOf(o) == CHOOSE r \in R : r.uid = o.uid
           f == [o \in L |-> rowOf(o)]
<1>0. /\ \A r \in R : \E o \in L : o.uid = r.uid
      /\ \A o \in L : \E r \in R : r.uid = o.uid
      /\ \A r, q \in R : r.uid = q.uid => r = q
      /\ k = "pod" => \A r \in R, o \in L : r.uid = o.uid => InItsNamespace(r, o)
  BY DEF LevelDone
<1>1. IsFiniteSet(L) /\ \A o, q \in L : o.uid = q.uid => o = q
  BY ListedFacts
<1> HIDE DEF R, L
<1>2. \A o \in L : rowOf(o) \in R /\ rowOf(o).uid = o.uid
  BY <1>0
<1> HIDE DEF rowOf
<1>3. f \in Bijection(L, R)
  <2>1. f \in [L -> R]
    BY <1>2
  <2>2. \A o, q \in L : f[o] = f[q] => o = q
    BY <1>1, <1>2
  <2>3. \A r \in R : \E o \in L : f[o] = r
    <3> TAKE r \in R
    <3>1. PICK o \in L : o.uid = r.uid
      BY <1>0
    <3>2. rowOf(o) = r
      BY <3>1, <1>0, <1>2
    <3> QED BY <3>2
  <2> HIDE DEF f
  <2> QED BY <2>1, <2>2, <2>3 DEF Bijection, Injection, Surjection, IsInjective
<1>4. Cardinality(R) = Cardinality(L)
  BY <1>1, <1>3, FS_Bijection DEF ExistsBijection
<1>5. {r.uid : r \in R} = {o.uid : o \in L}
  BY <1>0
<1> QED BY <1>0, <1>4, <1>5 DEF Mirrors, R, L, InItsNamespace

-----------------------------------------------------------------------------
(* The initial states *)

\* The invariant holds before the first synchronisation.
LEMMA TreeInitInv == TreeInit => TreeInv
<1> SUFFICES ASSUME TreeInit PROVE TreeInv
  OBVIOUS
<1> DEFINE first(k) == [name |-> CHOOSE n \in NameOf(k) : TRUE, ns |-> NoName,
                        node |-> NoName, uid |-> 1]
<1>1. /\ log = [k \in Kinds |-> IF k = "pod" THEN <<>> ELSE <<first(k)>>]
      /\ cached = [k \in Kinds |-> Len(log[k])]
      /\ rows = {} /\ pending = [a \in Actors |-> {}]
      /\ sync = Idle /\ seen = [k \in Kinds |-> 0] /\ alone = FALSE
      /\ cluster = "live" /\ passes = 0
  BY DEF TreeInit
<1>2. LogOf(<<>>) /\ Len(<<>>) = 0
  BY DEF LogOf, Entries
<1>3. ASSUME NEW e, e.uid = 1
      PROVE  LogOf(<<e>>) /\ Len(<<e>>) = 1
  <2>1. Entries(<<e>>) = {e} /\ Len(<<e>>) = 1 /\ <<e>>[1] = e
    BY DEF Entries
  <2>2. <<e>> \in Seq({e})
    OBVIOUS
  <2> QED BY <2>1, <2>2, <1>3 DEF LogOf, SameName
<1>4. \A k \in Kinds : first(k).uid = 1
  OBVIOUS
<1> HIDE DEF first
<1>5. \A k \in Kinds : LogOf(log[k]) /\ Len(log[k]) \in Nat
  <2> TAKE k \in Kinds
  <2>1. CASE k = "pod"
    BY <1>1, <1>2, <2>1
  <2>2. CASE k # "pod"
    <3>1. log[k] = <<first(k)>>
      BY <1>1, <2>2
    <3>2. LogOf(<<first(k)>>) /\ Len(<<first(k)>>) = 1
      BY <1>3, <1>4
    <3> QED BY <3>1, <3>2
  <2> QED BY <2>1, <2>2
<1>6. LogsOK
  BY <1>1, <1>5 DEF LogsOK
<1>7. RowsOK
  BY <1>1 DEF RowsOK
<1>8. SyncOK
  BY <1>1, KindsFact DEF SyncOK, Idle, IsSync
<1>9. PassesOK
  BY <1>1 DEF PassesOK
<1>10. WalkOK
  BY <1>1 DEF WalkOK
<1> QED BY <1>6, <1>7, <1>8, <1>9, <1>10 DEF TreeInv

-----------------------------------------------------------------------------
(* Steps that do not write rows *)

\* The logs have gone on, and nobody has read further.
LogsGrow ==
  /\ log' = [k \in Kinds |-> log'[k]]
  /\ \A k \in Kinds : LogOf(log'[k]) /\ Continues(log[k], log'[k])
  /\ UNCHANGED <<cached, seen>>

\* Logs that go on stay logs, and what was listed is unchanged.
LEMMA GrowLogs ==
  ASSUME LogsOK, LogsGrow
  PROVE  LogsOK' /\ \A k \in Kinds : Listed(k)' = Listed(k)
<1>1. \A k \in Kinds : /\ LogOf(log[k]) /\ Len(log[k]) \in Nat /\ Len(log'[k]) \in Nat
                       /\ cached[k] \in Nat /\ seen[k] \in Nat
                       /\ seen[k] <= cached[k] /\ cached[k] <= Len(log[k])
                       /\ Len(log[k]) <= Len(log'[k])
  BY LogLength DEF LogsOK, LogsGrow, Continues
<1>2. \A k \in Kinds : LogOf(log'[k]) /\ cached'[k] <= Len(log'[k]) /\ seen'[k] <= cached'[k]
  BY <1>1 DEF LogsGrow
<1>3. LogsOK'
  BY <1>2 DEF LogsOK, LogsGrow
<1>4. \A k \in Kinds : Listed(k)' = Listed(k)
  <2> TAKE k \in Kinds
  <2>1. Listed(k) = ListOf(k, log[k], seen[k])
    BY ListingIsListOf DEF Listed
  <2>2. Listed(k)' = ListOf(k, log'[k], seen'[k])
    BY DEF Listed, Listing, Object, ListOf
  <2>3. seen'[k] = seen[k] /\ seen[k] <= Len(log[k]) /\ Continues(log[k], log'[k])
    BY <1>1 DEF LogsGrow
  <2> QED BY <1>1, <2>1, <2>2, <2>3, ListOfContinues
<1> QED BY <1>3, <1>4

\* A change of the cluster makes one log grow.
LEMMA ChangeGrows ==
  ASSUME LogsOK, NEW k \in Kinds, NEW change, Change(k, change),
         change.uid \in Nat, change.uid <= Len(log[k]) + 1,
         \A v \in 1..Len(log[k]) :
           log[k][v].uid = change.uid /\ change.uid # 0 => SameName(log[k][v], change)
  PROVE  LogsGrow
<1>1. log = [h \in Kinds |-> log[h]] /\ \A h \in Kinds : LogOf(log[h]) /\ Len(log[h]) \in Nat
  BY LogLength DEF LogsOK
<1>2. LogOf(Append(log[k], change)) /\ Continues(log[k], Append(log[k], change))
  BY <1>1, LogAppend
<1>3. /\ log' = [log EXCEPT ![k] = Append(log[k], change)]
      /\ UNCHANGED <<cached, seen>>
  BY DEF Change, treeVars
<1>4. \A h \in Kinds : log'[h] = IF h = k THEN Append(log[k], change) ELSE log[h]
  BY <1>1, <1>3
<1>5. log' = [h \in Kinds |-> log'[h]]
  BY <1>1, <1>3
<1>6. \A h \in Kinds : Continues(log[h], log[h])
  BY <1>1 DEF Continues
<1>7. \A h \in Kinds : LogOf(log'[h]) /\ Continues(log[h], log'[h])
  BY <1>1, <1>2, <1>4, <1>6
<1> QED BY <1>3, <1>5, <1>7 DEF LogsGrow

\* What the cluster does by itself makes its logs grow.
LEMMA RemoteGrows ==
  ASSUME LogsOK, Remote
  PROVE  LogsGrow /\ UNCHANGED <<rows, pending, sync, alone, cluster, passes>>
<1>1. CASE RemoteSchedule
  <2> DEFINE change(o, n) == [name |-> o.name, ns |-> o.ns, node |-> n.name, uid |-> o.uid]
  <2>1. PICK o \in Objects("pod"), n \in Objects("node") : Change("pod", change(o, n))
    BY <1>1 DEF RemoteSchedule
  <2>2. "pod" \in Kinds
    BY KindsFact
  <2>3. PICK v \in 1..Len(log["pod"]) : o = Object("pod", v) /\ o.uid # 0
    BY <2>2, ListingFacts
  <2>4. LogOf(log["pod"]) /\ Len(log["pod"]) \in Nat
    BY <2>2, LogLength DEF LogsOK
  <2>5. o.uid = log["pod"][v].uid /\ o.name = log["pod"][v].name /\ o.ns = log["pod"][v].ns
    BY <2>3 DEF Object
  <2>6. o.uid \in Nat /\ o.uid <= Len(log["pod"]) + 1
    BY <2>4, <2>5 DEF LogOf
  <2>7. \A w \in 1..Len(log["pod"]) : log["pod"][w].uid = o.uid => SameName(log["pod"][w], change(o, n))
    BY <2>3, <2>4, <2>5 DEF LogOf, SameName
  <2>8. change(o, n).uid = o.uid
    OBVIOUS
  <2>9. LogsGrow
    <3> HIDE DEF change
    <3> QED BY <2>1, <2>2, <2>6, <2>7, <2>8, ChangeGrows
  <2> QED BY <2>1, <2>9 DEF Change, treeVars
<1>2. ASSUME NEW k \in Kinds, RemoteCreate(k)
      PROVE  LogsGrow /\ UNCHANGED <<rows, pending, sync, alone, cluster, passes>>
  <2>1. PICK n, ns, node :
          Change(k, [name |-> n, ns |-> ns, node |-> node, uid |-> Len(log[k]) + 1])
    BY <1>2 DEF RemoteCreate
  <2> DEFINE change == [name |-> n, ns |-> ns, node |-> node, uid |-> Len(log[k]) + 1]
  <2>2. LogOf(log[k]) /\ Len(log[k]) \in Nat
    BY LogLength DEF LogsOK
  <2>3. change.uid = Len(log[k]) + 1
    OBVIOUS
  <2>4. \A v \in 1..Len(log[k]) : log[k][v].uid # Len(log[k]) + 1
    BY <2>2 DEF LogOf
  <2>5. LogsGrow
    <3>1. Change(k, change)
      BY <2>1
    <3> HIDE DEF change
    <3> QED BY <3>1, <2>2, <2>3, <2>4, ChangeGrows
  <2> QED BY <2>1, <2>5 DEF Change, treeVars
<1>3. ASSUME NEW k \in Kinds, RemoteDelete(k)
      PROVE  LogsGrow /\ UNCHANGED <<rows, pending, sync, alone, cluster, passes>>
  <2>1. PICK o : Change(k, [name |-> o.name, ns |-> o.ns, node |-> o.node, uid |-> 0])
    BY <1>3 DEF RemoteDelete
  <2> DEFINE change == [name |-> o.name, ns |-> o.ns, node |-> o.node, uid |-> 0]
  <2>2. change.uid = 0 /\ Len(log[k]) \in Nat
    BY LogLength DEF LogsOK
  <2>3. LogsGrow
    <3>1. Change(k, change)
      BY <2>1
    <3> HIDE DEF change
    <3> QED BY <3>1, <2>2, ChangeGrows
  <2> QED BY <2>1, <2>3 DEF Change, treeVars
<1> QED BY <1>1, <1>2, <1>3 DEF Remote

\* Logs nobody has read further stay as they are.
LEMMA SameLogs ==
  ASSUME LogsOK, UNCHANGED <<log, cached, seen>>
  PROVE  LogsOK' /\ \A k \in Kinds : Listed(k)' = Listed(k)
BY DEF LogsOK, Listed, Listing, Object

\* The walk is where it was, over the same rows and the same lists.
LEMMA WalkKept ==
  ASSUME WalkOK, UNCHANGED <<rows, pending, sync, alone>>, cluster' = "live" => cluster = "live",
         \A k \in Kinds : Listed(k)' = Listed(k), SyncOK
  PROVE  WalkOK'
<1>1. SyncKind \in Kinds /\ SyncKind' = SyncKind
  BY SyncKindFact DEF SyncKind
<1>2. \A k : RowsOf(k)' = RowsOf(k) /\ Staying(k)' = Staying(k)
  BY DEF RowsOf, Staying
<1>3. \A r, o : InItsNamespace(r, o)' <=> InItsNamespace(r, o)
  BY DEF InItsNamespace, RowsOf
<1>4. \A k : Above(k)' <=> Above(k)
  BY DEF Above
<1>5. \A k \in Kinds : LevelDone(k) => LevelDone(k)'
  BY <1>2, <1>3 DEF LevelDone
<1>6. \A k \in Kinds : LevelFits(k) => LevelFits(k)'
  <2> TAKE k \in Kinds
  <2>1. Listed(k)' = Listed(k) /\ RowsOf(k)' = RowsOf(k) /\ Staying(k)' = Staying(k)
    BY <1>2
  <2>2. UpdatesFit(k) => UpdatesFit(k)'
    BY <2>1 DEF UpdatesFit
  <2>3. StayingFit(k) => StayingFit(k)'
    BY <2>1 DEF StayingFit
  <2>4. AdditionsFit(k) => AdditionsFit(k)'
    BY <2>1 DEF AdditionsFit
  <2>5. InsertionFits(k) => InsertionFits(k)'
    BY <2>1 DEF InsertionFits
  <2>6. NamespacesFit(k) => NamespacesFit(k)'
    BY <2>1, <1>3 DEF NamespacesFit
  <2> QED BY <2>2, <2>3, <2>4, <2>5, <2>6 DEF LevelFits
<1>7. sync.pc = "apply" /\ ~sync.err /\ LevelFits(SyncKind) => LevelFits(SyncKind)'
  <2>1. LevelFits(SyncKind) <=> \E k \in Kinds : k = SyncKind /\ LevelFits(k)
    BY <1>1
  <2> QED BY <1>1, <1>6
<1>8. Listed(SyncKind)' = Listed(SyncKind)
  BY <1>1
<1> QED BY <1>1, <1>4, <1>5, <1>7, <1>8 DEF WalkOK

\* Rows that are only taken away keep their ids.
LEMMA FewerRows ==
  ASSUME RowsOK, rows' \subseteq rows
  PROVE  RowsOK'
BY DEF RowsOK

\* A walk that is not touched keeps its types.
LEMMA SameSync ==
  ASSUME SyncOK, UNCHANGED <<sync, pending>>
  PROVE  SyncOK'
BY DEF SyncOK

\* After a collection nothing writes rows any more.
LEMMA PassesKept ==
  ASSUME PassesOK, UNCHANGED <<cluster, passes>>,
         passes >= 1 => rows' \subseteq rows /\ UNCHANGED <<sync, pending>>
  PROVE  PassesOK'
<1>1. CASE passes >= 1
  <2>1. rows' \subseteq rows /\ (InFlight' <=> InFlight)
    BY <1>1 DEF InFlight
  <2> QED BY <1>1, <2>1 DEF PassesOK
<1>2. CASE ~(passes >= 1)
  BY <1>2 DEF PassesOK
<1> QED BY <1>1, <1>2

\* Nothing is known of the rows once somebody else has written them, or once
\* the cluster is being deleted.
LEMMA WalkDisturbed ==
  ASSUME alone' = FALSE \/ cluster' # "live"
  PROVE  WalkOK'
BY DEF WalkOK

\* Steps of the cluster itself keep the invariant.
LEMMA RemoteInv ==
  ASSUME TreeInv, Remote
  PROVE  TreeInv'
<1>1. LogsGrow /\ UNCHANGED <<rows, pending, sync, alone, cluster, passes>>
  BY RemoteGrows DEF TreeInv
<1> QED BY <1>1, GrowLogs, FewerRows, SameSync, PassesKept, WalkKept DEF TreeInv

\* So does an informer that takes a change into its store.
LEMMA InformerApplyInv ==
  ASSUME TreeInv, NEW k \in Kinds, InformerApply(k)
  PROVE  TreeInv'
<1>1. /\ cached[k] < Len(log[k]) /\ cached' = [cached EXCEPT ![k] = @ + 1]
      /\ UNCHANGED <<log, rows, pending, sync, seen, alone, cluster, passes>>
  BY DEF InformerApply, treeVars
<1>2. \A h \in Kinds : LogOf(log[h]) /\ Len(log[h]) \in Nat /\ cached[h] \in Nat /\ seen[h] \in Nat
                       /\ cached[h] <= Len(log[h]) /\ seen[h] <= cached[h]
  BY LogLength DEF LogsOK, TreeInv
<1>3. cached' \in [Kinds -> Nat] /\ \A h \in Kinds : cached'[h] = IF h = k THEN cached[h] + 1 ELSE cached[h]
  BY <1>1, <1>2 DEF LogsOK, TreeInv
<1>4. \A h \in Kinds : cached'[h] <= Len(log[h]) /\ seen[h] <= cached'[h]
  BY <1>1, <1>2, <1>3
<1>5. LogsOK'
  BY <1>1, <1>2, <1>3, <1>4 DEF LogsOK, TreeInv
<1>6. \A h \in Kinds : Listed(h)' = Listed(h)
  BY <1>1 DEF Listed, Listing, Object
<1> QED BY <1>1, <1>5, <1>6, FewerRows, SameSync, PassesKept, WalkKept DEF TreeInv

\* So does a request to delete a namespace.
LEMMA DeleteNamespaceInv ==
  ASSUME TreeInv, DeleteNamespace
  PROVE  TreeInv'
<1>1. UNCHANGED <<log, cached, rows, pending, sync, seen, alone, cluster, passes>>
  BY DEF DeleteNamespace, remoteVars
<1> QED BY <1>1, SameLogs, FewerRows, SameSync, PassesKept, WalkKept DEF TreeInv

\* So does the deletion of the cluster.
LEMMA DeleteClusterInv ==
  ASSUME TreeInv, DeleteCluster
  PROVE  TreeInv'
<1>1. cluster = "live" /\ cluster' = "pod"
      /\ UNCHANGED <<log, cached, rows, pending, sync, seen, alone, passes>>
  BY DEF DeleteCluster, remoteVars
<1>2. PassesOK'
  BY <1>1, KindsFact DEF PassesOK, TreeInv
<1> QED BY <1>1, <1>2, SameLogs, FewerRows, SameSync, WalkDisturbed DEF TreeInv

-----------------------------------------------------------------------------
(* Tasks and collections *)

\* The task of a namespace that is deleted makes logs grow and takes a row
\* away.
LEMMA DeleteNamespaceTaskInv ==
  ASSUME TreeInv, DeleteNamespaceTask
  PROVE  TreeInv'
<1>1. PICK id \in inTask, gone \in SUBSET Objects("pod"), nsGone \in SUBSET Objects("namespace") :
        /\ log' = [log EXCEPT !["pod"] = Entombed(@, gone), !["namespace"] = Entombed(@, nsGone)]
        /\ rows' \subseteq rows /\ alone' = FALSE
        /\ UNCHANGED <<cached, seen, pending, sync, cluster, passes>>
  <2> DEFINE row(id) == {r \in rows : r.id = id}
             pods(id) == {o \in Objects("pod") : \E r \in row(id) : o.ns = r.name}
             spaces(id) == {o \in Objects("namespace") : \E r \in row(id) : o.name = r.name}
  <2>1. PICK id \in inTask :
          /\ log' = [log EXCEPT !["pod"] = Entombed(@, pods(id)),
                                !["namespace"] = Entombed(@, spaces(id))]
          /\ rows' = rows \ row(id) /\ alone' = FALSE
          /\ UNCHANGED <<cached, seen, pending, sync, cluster, passes>>
    BY DEF DeleteNamespaceTask
  <2>2. pods(id) \in SUBSET Objects("pod") /\ spaces(id) \in SUBSET Objects("namespace")
    OBVIOUS
  <2> HIDE DEF row, pods, spaces
  <2>3. rows' \subseteq rows
    BY <2>1
  <2> QED BY <2>1, <2>2, <2>3
<1>2. LogsOK /\ "pod" \in Kinds /\ "namespace" \in Kinds
  BY KindsFact DEF TreeInv
<1>3. IsFiniteSet(gone) /\ IsFiniteSet(nsGone)
  BY <1>2, ListingFacts, FS_Subset
<1>4. \A k \in Kinds : LogOf(log[k]) /\ Continues(log[k], log[k])
  BY <1>2, LogLength DEF LogsOK, Continues
<1>5. /\ LogOf(Entombed(log["pod"], gone)) /\ Continues(log["pod"], Entombed(log["pod"], gone))
      /\ LogOf(Entombed(log["namespace"], nsGone))
      /\ Continues(log["namespace"], Entombed(log["namespace"], nsGone))
  BY <1>2, <1>3, <1>4, LogEntombed
<1>6. log = [k \in Kinds |-> log[k]]
  BY <1>2 DEF LogsOK
<1>7. /\ log' = [k \in Kinds |-> log'[k]]
      /\ \A k \in Kinds : log'[k] = CASE k = "pod" -> Entombed(log["pod"], gone)
                                      [] k = "namespace" -> Entombed(log["namespace"], nsGone)
                                      [] OTHER -> log[k]
  BY <1>1, <1>6
<1>8. \A k \in Kinds : LogOf(log'[k]) /\ Continues(log[k], log'[k])
  BY <1>4, <1>5, <1>7
<1>9. LogsGrow
  BY <1>1, <1>7, <1>8 DEF LogsGrow
<1> QED BY <1>1, <1>2, <1>9, GrowLogs, FewerRows, SameSync, PassesKept, WalkDisturbed DEF TreeInv

\* The purge of a level of a deleted cluster.
LEMMA PurgeInv ==
  ASSUME TreeInv, PurgeAllByCluster
  PROVE  TreeInv'
<1>1. /\ cluster \in Kinds /\ rows' \subseteq rows /\ alone' = FALSE
      /\ cluster' = IF cluster = "node" THEN "gone" ELSE Levels[LevelOf(cluster) - 1]
      /\ UNCHANGED <<log, cached, pending, sync, seen, passes>>
  BY DEF PurgeAllByCluster, remoteVars
<1>2. cluster' \in Kinds \cup {"gone"} /\ cluster # "gone"
  BY <1>1, KindsFact
<1>3. PassesOK'
  BY <1>1, <1>2 DEF PassesOK, TreeInv
<1> QED BY <1>1, <1>3, SameLogs, FewerRows, SameSync, WalkDisturbed DEF TreeInv

\* What a collection takes away: nothing of a cluster that is there; of one
\* that is gone everything but pods, and pods too if nothing else is there.
LEMMA CollectedFacts ==
  ASSUME NEW rs
  PROVE  /\ Collected(rs) \subseteq rs
         /\ cluster # "gone" => Collected(rs) = rs
         /\ cluster = "gone" => \A r \in Collected(rs) : r.kind # "node" /\ r.kind # "namespace"
         /\ cluster = "gone" /\ (\A r \in rs : r.kind = "pod") => Collected(rs) = {}
<1> DEFINE noPods == rs \ GetGCQuery("pod", rs)
           noNs == noPods \ GetGCQuery("namespace", noPods)
<1>1. Collected(rs) = noNs \ GetGCQuery("node", noNs)
  BY DEF Collected
<1>2. cluster # "gone" => \A k, s : GetGCQuery(k, s) = {}
  BY DEF GetGCQuery
<1>3. cluster = "gone" => \A k, s : k # "pod" => GetGCQuery(k, s) = {r \in s : r.kind = k}
  BY DEF GetGCQuery
<1>4. cluster = "gone" /\ (\A r \in rs : r.kind = "pod") => GetGCQuery("pod", rs) = rs
  <2> SUFFICES ASSUME cluster = "gone", \A r \in rs : r.kind = "pod" PROVE GetGCQuery("pod", rs) = rs
    OBVIOUS
  <2>1. {x \in rs : x.kind = "namespace"} = {} /\ {x \in rs : x.kind = "node"} = {}
    OBVIOUS
  <2> QED BY <2>1 DEF GetGCQuery
<1> HIDE DEF noPods
<1>5. noNs \subseteq noPods /\ Collected(rs) \subseteq noNs
  BY <1>1
<1>6. cluster = "gone" => \A r \in Collected(rs) : r.kind # "node" /\ r.kind # "namespace"
  BY <1>1, <1>3
<1> QED BY <1>1, <1>2, <1>4, <1>5, <1>6 DEF noPods

\* Garbage collection keeps the invariant: the first collection leaves pods,
\* the second nothing.
LEMMA PerformGcInv ==
  ASSUME TreeInv, PerformGc
  PROVE  TreeInv'
<1>1. /\ rows' = Collected(rows)
      /\ passes' = IF cluster = "gone" /\ ~InFlight /\ passes < 2 THEN passes + 1 ELSE passes
      /\ UNCHANGED <<log, cached, pending, sync, seen, alone, cluster>>
  BY DEF PerformGc, remoteVars
<1>2. RowsOK /\ SyncOK /\ PassesOK /\ WalkOK /\ LogsOK
  BY DEF TreeInv
<1>3. rows' \subseteq rows /\ (cluster # "gone" => rows' = rows)
  BY <1>1, CollectedFacts
<1>4. cluster = "gone" => \A r \in rows' : r.kind = "pod"
  <2>1. cluster = "gone" => \A r \in rows' : r.kind # "node" /\ r.kind # "namespace"
    BY <1>1, CollectedFacts
  <2> QED BY <2>1, <1>2, <1>3, KindsFact DEF RowsOK
<1>5. cluster = "gone" /\ passes >= 1 => rows' = {}
  BY <1>1, <1>2, CollectedFacts DEF PassesOK
<1>6. InFlight' <=> InFlight
  BY <1>1 DEF InFlight
<1>7. PassesOK'
  <2>1. cluster' \in Kinds \cup {"live", "gone"} /\ passes' \in 0..2
    BY <1>1, <1>2 DEF PassesOK
  <2>2. passes' >= 1 => cluster' = "gone" /\ ~InFlight' /\ \A r \in rows' : r.kind = "pod"
    BY <1>1, <1>2, <1>4, <1>6 DEF PassesOK
  <2>3. passes' = 2 => rows' = {}
    BY <1>1, <1>2, <1>5 DEF PassesOK
  <2> QED BY <2>1, <2>2, <2>3 DEF PassesOK
<1>8. WalkOK'
  <2>1. CASE cluster = "live"
    BY <1>1, <1>2, <1>3, <2>1, SameLogs, WalkKept
  <2>2. CASE cluster # "live"
    BY <1>1, <2>2, WalkDisturbed
  <2> QED BY <2>1, <2>2
<1> QED BY <1>1, <1>2, <1>3, <1>7, <1>8, SameLogs, FewerRows, SameSync DEF TreeInv

-----------------------------------------------------------------------------
(* Event handlers *)

\* An update leaves rows with ids of their own.
LEMMA UpdatedRows ==
  ASSUME RowsOK, NEW copy, NEW obj, rows' = UpdateRow(copy, obj)
  PROVE  RowsOK'
<1>1. CASE Refused(copy, obj)
  BY <1>1, FewerRows DEF UpdateRow
<1>2. CASE ~Refused(copy, obj)
  <2> DEFINE new(r) == IF r.id = copy.id THEN Updated(r, obj) ELSE r
  <2>1. \A r \in rows : IsRow(new(r)) /\ new(r).id = r.id /\ new(r).kind = r.kind
    <3> TAKE r \in rows
    <3>1. IsRow(r)
      BY DEF RowsOK
    <3>2. IsRow(Updated(r, obj)) /\ Updated(r, obj).id = r.id /\ Updated(r, obj).kind = r.kind
      BY <3>1, UpdatedFacts
    <3> QED BY <3>1, <3>2
  <2>2. rows' = {new(r) : r \in rows}
    BY <1>2 DEF UpdateRow
  <2> HIDE DEF new
  <2>3. \A r \in rows' : IsRow(r) /\ r.kind \in Kinds
    BY <2>1, <2>2 DEF RowsOK
  <2>4. \A r, q \in rows' : r.id = q.id => r = q
    BY <2>1, <2>2 DEF RowsOK
  <2> QED BY <2>3, <2>4 DEF RowsOK
<1> QED BY <1>1, <1>2

\* So does an insertion.
LEMMA InsertedRows ==
  ASSUME RowsOK, NEW p, p.kind \in Kinds, NEW id \in FreeIds, rows' = rows \cup {Inserted(p, id)}
  PROVE  RowsOK'
<1>1. IsRow(Inserted(p, id)) /\ Inserted(p, id).id = id /\ Inserted(p, id).kind = p.kind
  BY InsertedFacts
<1>2. \A r \in rows : r.id # id
  BY FreeIdFact
<1>3. \A r \in rows' : IsRow(r) /\ r.kind \in Kinds
  BY <1>1 DEF RowsOK
<1>4. \A r, q \in rows' : r.id = q.id => r = q
  BY <1>1, <1>2 DEF RowsOK
<1> QED BY <1>3, <1>4 DEF RowsOK

\* A handler that takes an event keeps the invariant.
LEMMA HandleEventInv ==
  ASSUME TreeInv, NEW k \in Kinds, HandleEvent(k)
  PROVE  TreeInv'
<1> DEFINE change == log[k][handled[k] + 1]
           obj == Object(k, handled[k] + 1)
<1>1. /\ cluster = "live" /\ UNCHANGED <<log, cached, sync, seen, cluster, passes>>
      /\ IF ~flag THEN UNCHANGED <<rows, pending, alone>>
         ELSE /\ IF change.uid = 0 THEN EventDelete(k, change) ELSE EventCreateOrUpdate(k, obj)
              /\ alone' = FALSE
  BY DEF HandleEvent, remoteVars
<1>2. LogsOK /\ RowsOK /\ SyncOK /\ PassesOK /\ WalkOK
  BY DEF TreeInv
<1>3. obj.kind = k
  BY DEF Object
<1> HIDE DEF change, obj
<1>4. PassesOK'
  BY <1>1, <1>2, PassesKept DEF PassesOK
<1>5. CASE ~flag
  BY <1>1, <1>2, <1>4, <1>5, SameLogs, FewerRows, SameSync, WalkKept DEF TreeInv
<1>6. CASE flag
  <2>1. WalkOK'
    BY <1>1, <1>6, WalkDisturbed
  <2>2. RowsOK' /\ SyncOK'
    <3>1. CASE change.uid = 0
      <4>1. rows' \subseteq rows /\ UNCHANGED pending
        BY <1>1, <1>6, <3>1 DEF EventDelete
      <4> QED BY <1>1, <1>2, <4>1, FewerRows, SameSync
    <3>2. CASE change.uid # 0 /\ LocalExist(obj) # {}
      <4>1. PICK copy : rows' = UpdateRow(copy, obj) /\ UNCHANGED pending
        BY <1>1, <1>6, <3>2 DEF EventCreateOrUpdate
      <4> QED BY <1>1, <1>2, <4>1, UpdatedRows, SameSync
    <3>3. CASE change.uid # 0 /\ LocalExist(obj) = {}
      <4>1. /\ UNCHANGED rows
            /\ \/ UNCHANGED pending
               \/ pending' = [pending EXCEPT ![k] = {NewFromRemoteObject(obj)}]
        BY <1>1, <1>6, <3>3 DEF EventCreateOrUpdate
      <4>2. CASE UNCHANGED pending
        BY <1>1, <1>2, <4>1, <4>2, FewerRows, SameSync
      <4>3. CASE pending' = [pending EXCEPT ![k] = {NewFromRemoteObject(obj)}]
        <5>1. NewFromRemoteObject(obj).kind \in Kinds
          BY <1>3 DEF NewFromRemoteObject
        <5>2. k \in Actors /\ k # "sync" /\ "sync" \in Actors
          BY KindsFact
        <5>3. /\ pending' = [a \in Actors |-> pending'[a]]
              /\ \A a \in Actors : pending'[a] = IF a = k THEN {NewFromRemoteObject(obj)} ELSE pending[a]
          BY <1>2, <4>3, <5>2 DEF SyncOK
        <5>4. SyncOK'
          BY <1>1, <1>2, <5>1, <5>2, <5>3 DEF SyncOK
        <5> QED BY <1>2, <4>1, <5>4, FewerRows
      <4> QED BY <4>1, <4>2, <4>3
    <3> QED BY <3>1, <3>2, <3>3
  <2> QED BY <1>1, <1>2, <1>4, <2>1, <2>2, SameLogs DEF TreeInv
<1> QED BY <1>5, <1>6

\* So does one that inserts its row.
LEMMA EventInsertInv ==
  ASSUME TreeInv, NEW k \in Kinds, EventInsert(k)
  PROVE  TreeInv'
<1>1. PICK p \in pending[k], id \in FreeIds :
        /\ rows' = rows \cup {Inserted(p, id)}
        /\ pending' = [pending EXCEPT ![k] = {}]
        /\ alone' = FALSE
        /\ UNCHANGED <<log, cached, sync, seen, cluster, passes>>
  BY DEF EventInsert, remoteVars
<1>2. LogsOK /\ RowsOK /\ SyncOK /\ PassesOK
  BY DEF TreeInv
<1>3. k \in Actors /\ k # "sync" /\ "sync" \in Actors
  BY KindsFact
<1>4. p.kind \in Kinds
  BY <1>2, <1>3 DEF SyncOK
<1>5. RowsOK'
  BY <1>1, <1>2, <1>4, InsertedRows
<1>6. SyncOK'
  <2>1. /\ pending' = [a \in Actors |-> pending'[a]]
        /\ \A a \in Actors : pending'[a] = IF a = k THEN {} ELSE pending[a]
    BY <1>1, <1>2, <1>3 DEF SyncOK
  <2> QED BY <1>1, <1>2, <1>3, <2>1 DEF SyncOK
<1>7. ~(passes >= 1)
  BY <1>1, <1>2, <1>3 DEF PassesOK, InFlight
<1> QED BY <1>1, <1>2, <1>5, <1>6, <1>7, PassesKept, SameLogs, WalkDisturbed DEF TreeInv

-----------------------------------------------------------------------------
(* The walk *)

\* A synchronisation that is submitted starts with nothing done.
LEMMA SubmitSyncInv ==
  ASSUME TreeInv, SubmitSync
  PROVE  TreeInv'
<1>1. /\ cluster = "live" /\ sync.pc \in {"idle", "ok", "error"}
      /\ sync' = [Idle EXCEPT !.pc = "list"] /\ seen' = [k \in Kinds |-> 0]
      /\ alone' = (\A k \in Kinds : pending[k] = {})
      /\ UNCHANGED <<log, cached, rows, pending, cluster, passes>>
  BY DEF SubmitSync, remoteVars
<1>2. LogsOK /\ RowsOK /\ SyncOK /\ PassesOK
  BY DEF TreeInv
<1>3. sync' = [pc |-> "list", level |-> 1, list |-> {}, toRemove |-> {},
               toUpdate |-> {}, toAdd |-> {}, err |-> FALSE]
  BY <1>1 DEF Idle
<1>4. LogsOK'
  BY <1>1, <1>2 DEF LogsOK
<1>5. SyncOK'
  <2>1. /\ IsSync(sync') /\ sync'.pc = "list" /\ sync'.level = 1 /\ sync'.err \in BOOLEAN
        /\ sync'.list = {} /\ sync'.toAdd = {}
    BY <1>3 DEF IsSync
  <2>2. pending["sync"] = {}
    BY <1>1, <1>2 DEF SyncOK
  <2>3. pending' = pending
    BY <1>1
  <2> QED BY <1>2, <2>1, <2>2, <2>3 DEF SyncOK
<1>6. PassesOK'
  BY <1>1, <1>2, PassesKept DEF PassesOK
<1>7. WalkOK'
  <2>1. sync'.pc = "list" /\ sync'.level = 1
    BY <1>3
  <2>2. \A k : ~Above(k)'
    BY <2>1 DEF Above
  <2>3. alone' => \A k \in Kinds : pending[k] = {}
    BY <1>1
  <2> QED BY <1>1, <2>1, <2>2, <2>3 DEF WalkOK
<1> QED BY <1>1, <1>2, <1>4, <1>5, <1>6, <1>7, FewerRows DEF TreeInv

\* A walk that ends with an error promises nothing.
LEMMA SyncErrorWalk ==
  ASSUME SyncOK, WalkOK, SyncError, pending["sync"] = {}, UNCHANGED <<pending, alone, cluster>>
  PROVE  SyncOK' /\ WalkOK'
<1>1. sync' = [pc |-> "error", level |-> 1, list |-> {}, toRemove |-> {},
               toUpdate |-> {}, toAdd |-> {}, err |-> FALSE]
  BY DEF SyncError, Idle
<1>2. SyncOK'
  BY <1>1 DEF SyncOK, IsSync
<1>3. WalkOK'
  BY <1>1 DEF WalkOK
<1> QED BY <1>2, <1>3

\* A walk under way is not one a collection has left behind.
LEMMA WalkPasses ==
  ASSUME PassesOK, sync.pc \in {"list", "load", "apply"}, UNCHANGED <<cluster, passes>>
  PROVE  PassesOK'
<1>1. ~(passes >= 1)
  BY DEF PassesOK, InFlight
<1> QED BY <1>1, PassesKept

\* A list that fails ends the walk.
LEMMA SyncFailInv ==
  ASSUME TreeInv, SyncFail
  PROVE  TreeInv'
<1>1. sync.pc = "list" /\ SyncError
      /\ UNCHANGED <<log, cached, rows, pending, seen, alone, cluster, passes>>
  BY DEF SyncFail, remoteVars
<1>2. LogsOK /\ RowsOK /\ SyncOK /\ PassesOK /\ WalkOK
  BY DEF TreeInv
<1>3. pending["sync"] = {}
  BY <1>1, <1>2 DEF SyncOK
<1> QED BY <1>1, <1>2, <1>3, SyncErrorWalk, WalkPasses, SameLogs, FewerRows DEF TreeInv

\* A walk that lists a kind does not change what it has listed of others.
LEMMA ListInv ==
  ASSUME TreeInv, ListRemoteObjects
  PROVE  TreeInv'
<1>1. /\ sync.pc = "list"
      /\ sync' = [sync EXCEPT !.pc = "load", !.list = HandlerList(SyncKind)]
      /\ seen' = [seen EXCEPT ![SyncKind] = cached[SyncKind]]
      /\ UNCHANGED <<log, cached, rows, pending, alone, cluster, passes>>
  BY DEF ListRemoteObjects, remoteVars
<1>2. LogsOK /\ RowsOK /\ SyncOK /\ PassesOK /\ WalkOK
  BY DEF TreeInv
<1>3. SyncKind \in Kinds
  BY <1>2, SyncKindFact
<1>4. /\ sync'.pc = "load" /\ sync'.list = HandlerList(SyncKind)
      /\ sync'.level = sync.level /\ sync'.toAdd = sync.toAdd /\ sync'.err = sync.err
      /\ IsSync(sync')
  BY <1>1, <1>2 DEF SyncOK, IsSync
<1>5. /\ seen' \in [Kinds -> Nat]
      /\ \A k \in Kinds : seen'[k] = IF k = SyncKind THEN cached[k] ELSE seen[k]
  BY <1>1, <1>2, <1>3 DEF LogsOK
<1>6. LogsOK'
  <2>1. \A k \in Kinds : cached[k] \in Nat
    BY <1>2 DEF LogsOK
  <2>2. \A k \in Kinds : seen'[k] <= cached[k]
    BY <1>2, <1>5, <2>1 DEF LogsOK
  <2> QED BY <1>1, <1>2, <1>5, <2>2 DEF LogsOK
<1>7. \A o \in HandlerList(SyncKind) : o.kind \in Kinds
  BY <1>2, <1>3, ListingFacts DEF HandlerList
<1>8. SyncOK'
  BY <1>1, <1>2, <1>4, <1>7 DEF SyncOK
<1>9. Listed(SyncKind)' = HandlerList(SyncKind) /\ SyncKind' = SyncKind
  <2>1. SyncKind' = SyncKind
    BY <1>4 DEF SyncKind
  <2>2. seen'[SyncKind] = cached[SyncKind]
    BY <1>3, <1>5
  <2>3. Listed(SyncKind)' = Listing(SyncKind, cached[SyncKind])
    BY <1>1, <2>1, <2>2 DEF Listed, Listing, Object
  <2> QED BY <2>1, <2>3 DEF HandlerList
<1>10. \A k \in Kinds : k # SyncKind => Listed(k)' = Listed(k)
  BY <1>1, <1>5 DEF Listed, Listing, Object
<1>11. WalkOK'
  <2>1. SUFFICES ASSUME alone, cluster = "live"
                 PROVE  /\ \A k \in Kinds : pending[k] = {}
                        /\ ~sync.err => \A k \in Kinds : Above(k)' => LevelDone(k)'
    BY <1>1, <1>4, <1>9 DEF WalkOK
  <2>2. \A k \in Kinds : pending[k] = {}
    BY <1>2, <2>1 DEF WalkOK
  <2>3. ASSUME NEW k \in Kinds, Above(k)', ~sync.err
        PROVE  LevelDone(k)'
    <3>1. Above(k) /\ k # SyncKind /\ k # "pod"
      BY <1>2, <1>4, <2>3, SyncKindFact DEF Above
    <3>2. LevelDone(k)
      BY <1>1, <1>2, <2>1, <2>3, <3>1 DEF WalkOK
    <3>3. RowsOf(k)' = RowsOf(k) /\ Listed(k)' = Listed(k)
      BY <1>1, <1>10, <3>1 DEF RowsOf
    <3> QED BY <3>1, <3>2, <3>3 DEF LevelDone
  <2> QED BY <2>2, <2>3
<1> QED BY <1>1, <1>2, <1>6, <1>8, <1>11, WalkPasses, FewerRows DEF TreeInv

\* The rows of other kinds do not change while the walk writes those of one.
WalkStep ==
  /\ sync.pc \in {"load", "apply"} /\ sync'.pc = "apply" /\ sync'.level = sync.level
  /\ ~sync.err
  /\ \A k \in Kinds : k # SyncKind => RowsOf(k)' = RowsOf(k)
  /\ \A k \in Kinds : pending'[k] = pending[k]
  /\ UNCHANGED <<log, cached, seen, alone, cluster, passes>>

\* A step of the walk within a level keeps what was promised, if it fits the
\* rows of the level.
LEMMA WalkStepOK ==
  ASSUME SyncOK, LogsOK, WalkOK, WalkStep,
         \A k \in Kinds : k = SyncKind /\ alone /\ cluster = "live" /\ ~sync'.err => LevelFits(k)'
  PROVE  WalkOK'
<1>1. SyncKind \in Kinds /\ SyncKind' = SyncKind
  BY SyncKindFact DEF SyncKind, WalkStep
<1>2. \A k \in Kinds : Listed(k)' = Listed(k)
  BY SameLogs DEF WalkStep
<1>3. ASSUME NEW k \in Kinds, alone, cluster = "live", ~sync.err, Above(k)'
      PROVE  LevelDone(k)'
  <2>1. Above(k) /\ k # SyncKind /\ k # "pod"
    BY <1>3, SyncKindFact DEF Above, WalkStep, SyncOK
  <2>2. LevelDone(k)
    BY <1>3, <2>1 DEF WalkOK, WalkStep
  <2>3. RowsOf(k)' = RowsOf(k) /\ Listed(k)' = Listed(k)
    BY <1>2, <2>1 DEF WalkStep
  <2> QED BY <2>1, <2>2, <2>3 DEF LevelDone
<1>4. alone /\ cluster = "live" /\ ~sync'.err => LevelFits(SyncKind)'
  BY <1>1
<1> QED BY <1>1, <1>3, <1>4 DEF WalkOK, WalkStep

\* After an error the rest of the level is applied and promises nothing.
LEMMA WalkAfterError ==
  ASSUME WalkOK, sync'.err, sync'.pc = "apply", \A k \in Kinds : pending'[k] = pending[k],
         UNCHANGED <<alone, cluster>>
  PROVE  WalkOK'
BY DEF WalkOK

\* The comparison keeps one row for each listed object that has any, and
\* adds the others.
LEMMA LoadInv ==
  ASSUME TreeInv, LoadAndCompare
  PROVE  TreeInv'
<1> DEFINE L(r) == {o \in sync.list : o.uid = r.uid}
           upd(r) == [row |-> r, obj |-> CHOOSE o \in L(r) : TRUE]
<1>0. LogsOK /\ RowsOK /\ SyncOK /\ PassesOK /\ WalkOK
  BY DEF TreeInv
<1>1. PICK k \in Kinds : k = SyncKind
  BY <1>0, SyncKindFact
<1> DEFINE local == RowsOf(k)
           add == {o \in sync.list : o.uid \notin {r.uid : r \in local}}
<1>2. /\ sync.pc = "load"
      /\ UNCHANGED <<log, cached, rows, pending, seen, alone, cluster, passes>>
  BY DEF LoadAndCompare, remoteVars
<1>3. pending["sync"] = {}
  BY <1>0, <1>2 DEF SyncOK
<1>4. \/ SyncError
      \/ \E kept \in SUBSET local :
           /\ {r.uid : r \in kept} = {r.uid : r \in local} \cap {o.uid : o \in sync.list}
           /\ \A r, q \in kept : r.uid = q.uid => r = q
           /\ sync' = [sync EXCEPT !.pc = "apply", !.list = {},
                         !.toRemove = local \ kept,
                         !.toUpdate = {upd(r) : r \in kept},
                         !.toAdd = add]
  BY <1>1 DEF LoadAndCompare
<1>5. CASE SyncError
  BY <1>0, <1>2, <1>3, <1>5, SyncErrorWalk, WalkPasses, SameLogs, FewerRows DEF TreeInv
<1>6. ASSUME NEW kept \in SUBSET local,
             {r.uid : r \in kept} = {r.uid : r \in local} \cap {o.uid : o \in sync.list},
             \A r, q \in kept : r.uid = q.uid => r = q,
             sync' = [sync EXCEPT !.pc = "apply", !.list = {},
                        !.toRemove = local \ kept,
                        !.toUpdate = {upd(r) : r \in kept},
                        !.toAdd = add]
      PROVE  TreeInv'
  <2> HIDE DEF upd, add, local
  <2>1. /\ sync'.pc = "apply" /\ sync'.level = sync.level /\ sync'.list = {}
        /\ sync'.toRemove = local \ kept /\ sync'.toUpdate = {upd(r) : r \in kept}
        /\ sync'.toAdd = add /\ sync'.err = sync.err /\ IsSync(sync')
    BY <1>0, <1>6 DEF SyncOK, IsSync
  <2>2. add \subseteq sync.list
    BY DEF add
  <2>3. SyncOK'
    BY <1>0, <1>2, <2>1, <2>2 DEF SyncOK
  <2>4. CASE sync.err
    BY <1>0, <1>2, <2>1, <2>3, <2>4, WalkAfterError, WalkPasses, SameLogs, FewerRows DEF TreeInv
  <2>5. ASSUME alone, cluster = "live", ~sync.err
        PROVE  LevelFits(k)'
    <3>1. sync.list = Listed(k) /\ \A o, q \in Listed(k) : o.uid = q.uid => o = q
      BY <1>0, <1>1, <1>2, <2>5, ListedFacts DEF WalkOK
    <3>2. Listed(k)' = Listed(k) /\ RowsOf(k)' = local
      BY <1>0, <1>2, SameLogs DEF RowsOf, local
    <3>3. Staying(k)' = kept /\ kept \subseteq local
      BY <2>1, <3>2 DEF Staying
    <3>4. \A r \in kept : \E o \in Listed(k) : o.uid = r.uid
      <4> TAKE r \in kept
      <4>1. r.uid \in {q.uid : q \in kept}
        OBVIOUS
      <4>2. r.uid \in {o.uid : o \in sync.list}
        BY <4>1, <1>6
      <4> QED BY <4>2, <3>1
    <3>5. \A r \in kept : upd(r).row = r /\ upd(r).obj \in Listed(k) /\ upd(r).obj.uid = r.uid
      BY <3>1, <3>4 DEF upd
    <3>6. UpdatesFit(k)'
      BY <2>1, <3>2, <3>3, <3>5 DEF UpdatesFit
    <3>7. StayingFit(k)'
      BY <1>6, <3>2, <3>3, <3>4 DEF StayingFit
    <3>8. \A o \in Listed(k) : (\E r \in kept : r.uid = o.uid) \/ o \in add
      <4> SUFFICES ASSUME NEW o \in Listed(k), o \notin add
                   PROVE \E r \in kept : r.uid = o.uid
        OBVIOUS
      <4>1. o.uid \in {r.uid : r \in local}
        BY <3>1 DEF add
      <4>2. o.uid \in {q.uid : q \in sync.list}
        BY <3>1
      <4>3. o.uid \in {r.uid : r \in kept}
        BY <4>1, <4>2, <1>6
      <4> QED BY <4>3
    <3>9. AdditionsFit(k)'
      <4>1. \A o \in add, r \in kept : r.uid # o.uid
        BY <3>3 DEF add
      <4> QED BY <2>1, <2>2, <3>1, <3>2, <3>3, <3>8, <4>1 DEF AdditionsFit
    <3>10. InsertionFits(k)'
      BY <1>2, <1>3 DEF InsertionFits
    <3>11. NamespacesFit(k)'
      BY <2>1, <3>3, <3>5 DEF NamespacesFit
    <3> QED BY <3>6, <3>7, <3>9, <3>10, <3>11 DEF LevelFits
  <2>6. CASE ~sync.err
    <3>1. WalkStep
      BY <1>2, <2>1, <2>6 DEF WalkStep, RowsOf
    <3>2. WalkOK'
      BY <1>0, <1>1, <2>5, <2>6, <3>1, WalkStepOK
    <3> QED BY <1>0, <1>2, <2>3, <3>2, WalkPasses, SameLogs, FewerRows DEF TreeInv
  <2> QED BY <2>4, <2>6
<1> QED BY <1>4, <1>5, <1>6

\* The removal of one row.
LEMMA RemoveInv ==
  ASSUME TreeInv, RemoveOne
  PROVE  TreeInv'
<1>0. LogsOK /\ RowsOK /\ SyncOK /\ PassesOK /\ WalkOK
  BY DEF TreeInv
<1>1. PICK k \in Kinds : k = SyncKind
  BY <1>0, SyncKindFact
<1>2. PICK d \in sync.toRemove :
        /\ sync.pc = "apply" /\ rows' = {x \in rows : x.id # d.id}
        /\ sync' = [sync EXCEPT !.toRemove = @ \ {d}]
        /\ UNCHANGED <<log, cached, pending, seen, alone, cluster, passes>>
  BY DEF RemoveOne, remoteVars
<1>3. /\ sync'.pc = "apply" /\ sync'.level = sync.level /\ sync'.list = sync.list
      /\ sync'.toRemove = sync.toRemove \ {d} /\ sync'.toUpdate = sync.toUpdate
      /\ sync'.toAdd = sync.toAdd /\ sync'.err = sync.err /\ IsSync(sync')
  BY <1>0, <1>2 DEF SyncOK, IsSync
<1>4. SyncOK' /\ rows' \subseteq rows
  BY <1>0, <1>2, <1>3 DEF SyncOK
<1>5. CASE alone /\ cluster = "live" /\ ~sync.err
  <2>1. LevelFits(k)
    BY <1>0, <1>1, <1>2, <1>5 DEF WalkOK
  <2>2. d \in RowsOf(k)
    BY <2>1 DEF LevelFits, UpdatesFit
  <2>3. rows' = rows \ {d}
    BY <1>0, <1>2, <2>2 DEF RowsOK, RowsOf
  <2>4. RowsOf(k)' = RowsOf(k) \ {d} /\ \A h \in Kinds : h # k => RowsOf(h)' = RowsOf(h)
    BY <2>2, <2>3 DEF RowsOf
  <2>5. Staying(k)' = Staying(k)
    BY <1>3, <2>4 DEF Staying
  <2>6. Listed(k)' = Listed(k)
    BY <1>0, <1>2, SameLogs
  <2>7. UpdatesFit(k)'
    BY <1>3, <2>1, <2>4, <2>5, <2>6 DEF LevelFits, UpdatesFit
  <2>8. StayingFit(k)'
    BY <2>1, <2>5, <2>6 DEF LevelFits, StayingFit
  <2>9. AdditionsFit(k)'
    BY <1>2, <1>3, <2>1, <2>5, <2>6 DEF LevelFits, AdditionsFit
  <2>10. InsertionFits(k)'
    BY <1>2, <1>3, <2>1, <2>5, <2>6 DEF LevelFits, InsertionFits
  <2>11. NamespacesFit(k)'
    <3>1. k = "pod" => RowsOf("namespace")' = RowsOf("namespace")
      BY <2>4, KindsFact
    <3> QED BY <1>3, <2>1, <2>5, <2>6, <3>1 DEF LevelFits, NamespacesFit, InItsNamespace
  <2>12. WalkStep
    BY <1>1, <1>2, <1>3, <1>5, <2>4 DEF WalkStep
  <2>13. WalkOK'
    BY <1>0, <1>1, <2>7, <2>8, <2>9, <2>10, <2>11, <2>12, WalkStepOK DEF LevelFits
  <2> QED BY <1>0, <1>2, <1>4, <2>13, WalkPasses, SameLogs, FewerRows DEF TreeInv
<1>6. CASE ~(alone /\ cluster = "live")
  BY <1>0, <1>2, <1>4, <1>6, WalkPasses, SameLogs, FewerRows DEF TreeInv, WalkOK
<1>7. CASE alone /\ cluster = "live" /\ sync.err
  BY <1>0, <1>2, <1>3, <1>4, <1>7, WalkAfterError, WalkPasses, SameLogs, FewerRows DEF TreeInv
<1> QED BY <1>5, <1>6, <1>7

\* The update of one row: it stays the row of its object, in its namespace.
LEMMA UpdateInv ==
  ASSUME TreeInv, UpdateOne
  PROVE  TreeInv'
<1>0. LogsOK /\ RowsOK /\ SyncOK /\ PassesOK /\ WalkOK
  BY DEF TreeInv
<1>1. PICK k \in Kinds : k = SyncKind
  BY <1>0, SyncKindFact
<1>2. PICK p \in sync.toUpdate :
        /\ sync.pc = "apply" /\ sync.toRemove = {} /\ rows' = UpdateRow(p.row, p.obj)
        /\ sync' = [sync EXCEPT !.toUpdate = @ \ {p}, !.err = @ \/ Refused(p.row, p.obj)]
        /\ UNCHANGED <<log, cached, pending, seen, alone, cluster, passes>>
  BY DEF UpdateOne, remoteVars
<1> DEFINE u == Updated(p.row, p.obj)
<1>3. /\ sync'.pc = "apply" /\ sync'.level = sync.level /\ sync'.list = sync.list
      /\ sync'.toRemove = {} /\ sync'.toUpdate = sync.toUpdate \ {p}
      /\ sync'.toAdd = sync.toAdd /\ IsSync(sync')
      /\ sync'.err = (sync.err \/ Refused(p.row, p.obj))
  BY <1>0, <1>2 DEF SyncOK, IsSync
<1>4. SyncOK' /\ RowsOK'
  <2>1. sync'.err \in BOOLEAN
    BY <1>3
  <2>2. SyncOK'
    BY <1>0, <1>2, <1>3, <2>1 DEF SyncOK
  <2> QED BY <1>0, <1>2, <2>2, UpdatedRows
<1>5. CASE alone /\ cluster = "live" /\ ~sync.err /\ ~Refused(p.row, p.obj)
  <2>1. LevelFits(k)
    BY <1>0, <1>1, <1>2, <1>5 DEF WalkOK
  <2>2. Staying(k) = RowsOf(k) /\ Staying(k)' = RowsOf(k)'
    BY <1>2, <1>3 DEF Staying
  <2>3. p.row \in RowsOf(k) /\ p.obj \in Listed(k) /\ p.obj.uid = p.row.uid
    BY <2>1, <2>2 DEF LevelFits, UpdatesFit
  <2>4. p.row \in rows /\ IsRow(p.row) /\ p.row.kind = k
    BY <1>0, <2>3 DEF RowsOf, RowsOK
  <2>5. u.id = p.row.id /\ u.kind = k /\ u.uid = p.row.uid
        /\ (p.obj.kind = "pod" => u.ns = IdOf(NsRows(p.obj)))
    BY <2>3, <2>4, UpdatedFacts
  <2> HIDE DEF u
  <2>6. rows' = (rows \ {p.row}) \cup {u}
    <3>1. rows' = {IF r.id = p.row.id THEN Updated(r, p.obj) ELSE r : r \in rows}
      BY <1>2, <1>5 DEF UpdateRow
    <3>2. \A r \in rows : r.id = p.row.id <=> r = p.row
      BY <1>0, <2>4 DEF RowsOK
    <3>3. \A r \in rows : (IF r.id = p.row.id THEN Updated(r, p.obj) ELSE r) =
                           IF r = p.row THEN u ELSE r
      BY <3>2 DEF u
    <3>4. rows' = {IF r = p.row THEN u ELSE r : r \in rows}
      BY <3>1, <3>3
    <3> QED BY <2>4, <3>4
  <2>7. RowsOf(k)' = (RowsOf(k) \ {p.row}) \cup {u} /\ \A h \in Kinds : h # k => RowsOf(h)' = RowsOf(h)
    BY <2>4, <2>5, <2>6 DEF RowsOf
  <2>8. Listed(k)' = Listed(k) /\ (\A o, q \in Listed(k) : o.uid = q.uid => o = q)
        /\ \A o \in Listed(k) : o.kind = k
    BY <1>0, <1>2, SameLogs, ListedFacts
  <2>9. UpdatesFit(k)'
    <3>1. \A q \in sync'.toUpdate :
            q.row \in RowsOf(k) /\ q.row # p.row /\ q.obj \in Listed(k) /\ q.obj.uid = q.row.uid
      BY <1>3, <2>1, <2>2 DEF LevelFits, UpdatesFit
    <3>2. \A q, w \in sync'.toUpdate : q.row = w.row => q = w
      BY <1>3, <2>1 DEF LevelFits, UpdatesFit
    <3>3. \A q \in sync'.toUpdate : q.row \in RowsOf(k)'
      BY <2>7, <3>1
    <3> QED BY <1>3, <2>2, <2>8, <3>1, <3>2, <3>3 DEF UpdatesFit
  <2>10. StayingFit(k)'
    <3>1. /\ \A r \in RowsOf(k) : \E o \in Listed(k) : o.uid = r.uid
          /\ \A r, q \in RowsOf(k) : r.uid = q.uid => r = q
      BY <2>1, <2>2 DEF LevelFits, StayingFit
    <3>2. \A r \in RowsOf(k)' : \E o \in Listed(k) : o.uid = r.uid
      BY <2>3, <2>5, <2>7, <3>1
    <3>3. \A r, q \in RowsOf(k)' : r.uid = q.uid => r = q
      BY <2>3, <2>5, <2>7, <3>1
    <3> QED BY <2>2, <2>8, <3>2, <3>3 DEF StayingFit
  <2>11. AdditionsFit(k)'
    <3>1. /\ sync.toAdd \subseteq Listed(k)
          /\ \A o \in Listed(k) : \/ \E r \in RowsOf(k) : r.uid = o.uid
                                  \/ o \in sync.toAdd
                                  \/ \E q \in pending["sync"] : q.uid = o.uid
          /\ \A o \in sync.toAdd, r \in RowsOf(k) : r.uid # o.uid
      BY <2>1, <2>2 DEF LevelFits, AdditionsFit
    <3>2. \A n : (\E r \in RowsOf(k) : r.uid = n) => \E r \in RowsOf(k)' : r.uid = n
      BY <2>5, <2>7
    <3>3. \A o \in sync.toAdd, r \in RowsOf(k)' : r.uid # o.uid
      BY <2>3, <2>5, <2>7, <3>1
    <3> QED BY <1>2, <1>3, <2>2, <2>8, <3>1, <3>2, <3>3 DEF AdditionsFit
  <2>12. InsertionFits(k)'
    <3>1. \A q \in pending["sync"] : \A r \in RowsOf(k)' : r.uid # q.uid
      BY <2>1, <2>2, <2>3, <2>5, <2>7 DEF LevelFits, InsertionFits
    <3> QED BY <1>2, <1>3, <2>1, <2>2, <2>8, <3>1 DEF LevelFits, InsertionFits
  <2>13. NamespacesFit(k)'
    <3> SUFFICES ASSUME k = "pod", NEW r \in RowsOf(k)', NEW o \in Listed(k), r.uid = o.uid,
                        ~\E q \in sync'.toUpdate : q.row = r
                 PROVE  InItsNamespace(r, o)'
      BY <2>2, <2>8 DEF NamespacesFit
    <3>1. RowsOf("namespace")' = RowsOf("namespace")
      BY <2>7, KindsFact
    <3>2. CASE r = u
      <4>1. o = p.obj
        BY <2>3, <2>5, <2>8, <3>2
      <4>2. NsRows(p.obj) # {} /\ p.obj.kind = "pod"
        BY <1>5, <2>3, <2>8 DEF Refused
      <4>3. \E n \in RowsOf("namespace") : n.id = u.ns /\ n.name = o.ns
        BY <2>5, <4>1, <4>2, IdOfFact
      <4> QED BY <3>1, <3>2, <4>3 DEF InItsNamespace
    <3>3. CASE r # u
      <4>1. r \in RowsOf(k) /\ r # p.row
        BY <2>7, <3>3
      <4>2. ~\E q \in sync.toUpdate : q.row = r
        BY <1>3, <4>1
      <4>3. InItsNamespace(r, o)
        BY <2>1, <2>2, <4>1, <4>2 DEF LevelFits, NamespacesFit
      <4> QED BY <3>1, <4>3 DEF InItsNamespace
    <3> QED BY <3>2, <3>3
  <2>14. WalkStep
    BY <1>1, <1>2, <1>3, <1>5, <2>7 DEF WalkStep
  <2>15. WalkOK'
    BY <1>0, <1>1, <2>9, <2>10, <2>11, <2>12, <2>13, <2>14, WalkStepOK DEF LevelFits
  <2> QED BY <1>0, <1>2, <1>4, <2>15, WalkPasses, SameLogs DEF TreeInv
<1>6. CASE ~(alone /\ cluster = "live")
  <2>1. WalkOK'
    BY <1>2, <1>6 DEF WalkOK
  <2> QED BY <1>0, <1>2, <1>4, <2>1, WalkPasses, SameLogs DEF TreeInv
<1>7. CASE sync.err \/ Refused(p.row, p.obj)
  <2>1. WalkOK'
    BY <1>0, <1>2, <1>3, <1>7, WalkAfterError
  <2> QED BY <1>0, <1>2, <1>4, <2>1, WalkPasses, SameLogs DEF TreeInv
<1> QED BY <1>5, <1>6, <1>7

\* The lookup before an insertion.
LEMMA AddInv ==
  ASSUME TreeInv, AddOne
  PROVE  TreeInv'
<1>0. LogsOK /\ RowsOK /\ SyncOK /\ PassesOK /\ WalkOK
  BY DEF TreeInv
<1>1. PICK k \in Kinds : k = SyncKind
  BY <1>0, SyncKindFact
<1>2. /\ sync.pc = "apply" /\ sync.toRemove = {} /\ sync.toUpdate = {}
      /\ \A p \in pending["sync"] : p.kind # k
      /\ UNCHANGED <<log, cached, rows, seen, alone, cluster, passes>>
  BY <1>1 DEF AddOne, remoteVars, ClassUnlocked
<1>3. PICK obj \in sync.toAdd :
        \/ /\ sync' = [sync EXCEPT !.toAdd = @ \ {obj}, !.err = TRUE]
           /\ UNCHANGED pending
        \/ /\ pending' = [pending EXCEPT !["sync"] = {NewFromRemoteObject(obj)}]
           /\ sync' = [sync EXCEPT !.toAdd = @ \ {obj}]
  BY DEF AddOne
<1>4. CASE /\ sync' = [sync EXCEPT !.toAdd = @ \ {obj}, !.err = TRUE]
           /\ UNCHANGED pending
  <2>1. /\ sync'.pc = "apply" /\ sync'.level = sync.level /\ sync'.list = sync.list
        /\ sync'.toAdd = sync.toAdd \ {obj} /\ IsSync(sync') /\ sync'.err
        /\ sync'.err \in BOOLEAN
    BY <1>0, <1>2, <1>4 DEF SyncOK, IsSync
  <2>2. SyncOK'
    BY <1>0, <1>4, <2>1 DEF SyncOK
  <2>3. WalkOK'
    BY <1>0, <1>2, <1>4, <2>1, WalkAfterError
  <2> QED BY <1>0, <1>2, <2>2, <2>3, WalkPasses, SameLogs, FewerRows DEF TreeInv
<1>5. CASE /\ pending' = [pending EXCEPT !["sync"] = {NewFromRemoteObject(obj)}]
           /\ sync' = [sync EXCEPT !.toAdd = @ \ {obj}]
  <2> DEFINE p == NewFromRemoteObject(obj)
  <2>1. /\ sync'.pc = "apply" /\ sync'.level = sync.level /\ sync'.list = sync.list
        /\ sync'.toRemove = {} /\ sync'.toUpdate = {}
        /\ sync'.toAdd = sync.toAdd \ {obj} /\ IsSync(sync') /\ sync'.err = sync.err
    BY <1>0, <1>2, <1>5 DEF SyncOK, IsSync
  <2>2. p.kind = obj.kind /\ p.uid = obj.uid /\ p.obj = obj
    BY DEF NewFromRemoteObject
  <2>3. obj.kind \in Kinds
    BY <1>0, <1>3 DEF SyncOK
  <2> HIDE DEF p
  <2>4. "sync" \in Actors /\ \A h \in Kinds : h # "sync" /\ h \in Actors
    BY KindsFact
  <2>5. /\ pending' = [a \in Actors |-> pending'[a]] /\ pending'["sync"] = {p}
        /\ \A a \in Actors : a # "sync" => pending'[a] = pending[a]
    BY <1>0, <1>5, <2>4 DEF SyncOK, p
  <2>6. SyncOK'
    BY <1>0, <2>1, <2>2, <2>3, <2>4, <2>5 DEF SyncOK
  <2>7. CASE ~(alone /\ cluster = "live")
    <3>1. WalkOK'
      BY <1>2, <2>7 DEF WalkOK
    <3> QED BY <1>0, <1>2, <2>6, <3>1, WalkPasses, SameLogs, FewerRows DEF TreeInv
  <2>8. CASE sync.err
    <3>1. WalkOK'
      BY <1>0, <1>2, <2>1, <2>4, <2>5, <2>8, WalkAfterError
    <3> QED BY <1>0, <1>2, <2>6, <3>1, WalkPasses, SameLogs, FewerRows DEF TreeInv
  <2>9. CASE alone /\ cluster = "live" /\ ~sync.err
    <3>1. LevelFits(k)
      BY <1>0, <1>1, <1>2, <2>9 DEF WalkOK
    <3>2. Staying(k)' = Staying(k) /\ RowsOf(k)' = RowsOf(k)
      BY <1>2, <2>1 DEF Staying, RowsOf
    <3>3. Listed(k)' = Listed(k) /\ (\A o, q \in Listed(k) : o.uid = q.uid => o = q)
          /\ \A o \in Listed(k) : o.kind = k
      BY <1>0, <1>2, SameLogs, ListedFacts
    <3>4. pending["sync"] = {}
      BY <1>2, <3>1 DEF LevelFits, InsertionFits
    <3>5. UpdatesFit(k)'
      BY <2>1 DEF UpdatesFit
    <3>6. StayingFit(k)'
      BY <3>1, <3>2, <3>3 DEF LevelFits, StayingFit
    <3>7. AdditionsFit(k)'
      <4>1. \A o \in Listed(k) : \/ \E r \in Staying(k) : r.uid = o.uid
                                 \/ o \in sync.toAdd \ {obj}
                                 \/ o.uid = p.uid
        BY <2>2, <3>1, <3>4 DEF LevelFits, AdditionsFit
      <4> QED BY <2>1, <2>5, <3>1, <3>2, <3>3, <4>1 DEF LevelFits, AdditionsFit
    <3>8. InsertionFits(k)'
      <4>1. obj \in Listed(k) /\ \A r \in Staying(k) : r.uid # obj.uid
        BY <1>3, <3>1 DEF LevelFits, AdditionsFit
      <4>2. p.kind = k /\ p.obj \in Listed(k) /\ p.obj.kind = k /\ p.obj \notin sync'.toAdd
        BY <2>1, <2>2, <3>3, <4>1
      <4> QED BY <2>2, <2>5, <3>2, <3>3, <4>1, <4>2 DEF InsertionFits
    <3>9. NamespacesFit(k)'
      <4>1. RowsOf("namespace")' = RowsOf("namespace")
        BY <1>2 DEF RowsOf
      <4> QED BY <1>2, <2>1, <3>1, <3>2, <3>3, <4>1 DEF LevelFits, NamespacesFit, InItsNamespace
    <3>10. WalkStep
      BY <1>2, <2>1, <2>4, <2>5, <2>9 DEF WalkStep, RowsOf
    <3>11. WalkOK'
      BY <1>0, <1>1, <3>5, <3>6, <3>7, <3>8, <3>9, <3>10, WalkStepOK DEF LevelFits
    <3> QED BY <1>0, <1>2, <2>6, <3>11, WalkPasses, SameLogs, FewerRows DEF TreeInv
  <2> QED BY <2>7, <2>8, <2>9
<1> QED BY <1>3, <1>4, <1>5

\* The insertion: the object has its row, in its namespace, or the walk has
\* met an error.
LEMMA InsertInv ==
  ASSUME TreeInv, InsertOne
  PROVE  TreeInv'
<1>0. LogsOK /\ RowsOK /\ SyncOK /\ PassesOK /\ WalkOK
  BY DEF TreeInv
<1>1. PICK k \in Kinds : k = SyncKind
  BY <1>0, SyncKindFact
<1>2. PICK p \in pending["sync"], id \in FreeIds :
        /\ rows' = rows \cup {Inserted(p, id)}
        /\ pending' = [pending EXCEPT !["sync"] = {}]
        /\ sync' = [sync EXCEPT !.err = @ \/ InsertFails(p)]
        /\ UNCHANGED <<log, cached, seen, alone, cluster, passes>>
  BY DEF InsertOne, remoteVars
<1> DEFINE u == Inserted(p, id)
<1>3. sync.pc = "apply"
  BY <1>0, <1>2 DEF SyncOK
<1>4. /\ sync'.pc = "apply" /\ sync'.level = sync.level /\ sync'.list = sync.list
      /\ sync'.toRemove = sync.toRemove /\ sync'.toUpdate = sync.toUpdate
      /\ sync'.toAdd = sync.toAdd /\ IsSync(sync')
      /\ sync'.err = (sync.err \/ InsertFails(p))
  BY <1>0, <1>2, <1>3 DEF SyncOK, IsSync
<1>5. "sync" \in Actors /\ \A h \in Kinds : h # "sync" /\ h \in Actors
  BY KindsFact
<1>6. /\ pending' = [a \in Actors |-> pending'[a]] /\ pending'["sync"] = {}
      /\ \A a \in Actors : a # "sync" => pending'[a] = pending[a]
  BY <1>0, <1>2, <1>5 DEF SyncOK
<1>7. SyncOK'
  <2>1. sync'.err \in BOOLEAN
    BY <1>4
  <2> QED BY <1>0, <1>4, <1>6, <2>1 DEF SyncOK
<1>8. RowsOK'
  <2>1. p.kind \in Kinds
    BY <1>0, <1>2, <1>5 DEF SyncOK
  <2> QED BY <1>0, <1>2, <2>1, InsertedRows
<1>9. CASE ~(alone /\ cluster = "live")
  <2>1. WalkOK'
    BY <1>2, <1>9 DEF WalkOK
  <2> QED BY <1>0, <1>2, <1>3, <1>7, <1>8, <2>1, WalkPasses, SameLogs DEF TreeInv
<1>10. CASE sync.err \/ InsertFails(p)
  <2>1. WalkOK'
    BY <1>0, <1>2, <1>4, <1>5, <1>6, <1>10, WalkAfterError
  <2> QED BY <1>0, <1>2, <1>3, <1>7, <1>8, <2>1, WalkPasses, SameLogs DEF TreeInv
<1>11. CASE alone /\ cluster = "live" /\ ~sync.err /\ ~InsertFails(p)
  <2>1. LevelFits(k)
    BY <1>0, <1>1, <1>3, <1>11 DEF WalkOK
  <2>2. /\ p.kind = k /\ p.obj \in Listed(k) /\ p.obj.kind = k /\ p.uid = p.obj.uid
        /\ p.obj \notin sync.toAdd /\ \A r \in Staying(k) : r.uid # p.uid
        /\ \A q \in pending["sync"] : q = p
    BY <1>2, <2>1 DEF LevelFits, InsertionFits
  <2>3. Listed(k)' = Listed(k) /\ (\A o, q \in Listed(k) : o.uid = q.uid => o = q)
        /\ \A o \in Listed(k) : o.kind = k /\ o.ver \in Nat
    BY <1>0, <1>2, SameLogs, ListedFacts
  <2>4. k = "pod" => NsRows(p.obj) # {}
    BY <1>11, <2>2 DEF InsertFails
  <2>5. u.id = id /\ u.kind = k /\ u.uid = p.uid /\ (k = "pod" => u.ns = IdOf(NsRows(p.obj)))
    BY <2>2, <2>3, <2>4, InsertedFacts
  <2> HIDE DEF u
  <2>6. rows' = rows \cup {u} /\ u \notin rows
    BY <1>2, <2>5, FreeIdFact DEF u
  <2>7. RowsOf(k)' = RowsOf(k) \cup {u} /\ u \notin RowsOf(k)
        /\ \A h \in Kinds : h # k => RowsOf(h)' = RowsOf(h)
    BY <2>5, <2>6 DEF RowsOf
  <2>8. Staying(k)' = Staying(k) \cup {u}
    <3>1. sync.toRemove \subseteq RowsOf(k)
      BY <2>1 DEF LevelFits, UpdatesFit
    <3> QED BY <1>4, <2>7, <3>1 DEF Staying
  <2>9. UpdatesFit(k)'
    BY <1>4, <2>1, <2>3, <2>7, <2>8 DEF LevelFits, UpdatesFit
  <2>10. StayingFit(k)'
    <3>1. \A r \in Staying(k)' : \E o \in Listed(k) : o.uid = r.uid
      BY <2>1, <2>2, <2>5, <2>8 DEF LevelFits, StayingFit
    <3>2. \A r, q \in Staying(k)' : r.uid = q.uid => r = q
      BY <2>1, <2>2, <2>5, <2>8 DEF LevelFits, StayingFit
    <3> QED BY <2>3, <3>1, <3>2 DEF StayingFit
  <2>11. AdditionsFit(k)'
    <3>1. /\ sync.toAdd \subseteq Listed(k)
          /\ \A o \in Listed(k) : \/ \E r \in Staying(k) : r.uid = o.uid
                                  \/ o \in sync.toAdd
                                  \/ o.uid = p.uid
          /\ \A o \in sync.toAdd, r \in Staying(k) : r.uid # o.uid
      BY <2>1, <2>2 DEF LevelFits, AdditionsFit
    <3>2. \A o \in sync.toAdd : o.uid # p.uid
      BY <2>2, <2>3, <3>1
    <3>3. \A o \in Listed(k) : (\E r \in Staying(k)' : r.uid = o.uid) \/ o \in sync.toAdd
      BY <2>5, <2>8, <3>1
    <3>4. \A o \in sync.toAdd, r \in Staying(k)' : r.uid # o.uid
      BY <2>5, <2>8, <3>1, <3>2
    <3> QED BY <1>4, <2>3, <3>1, <3>3, <3>4 DEF AdditionsFit
  <2>12. InsertionFits(k)'
    BY <1>6 DEF InsertionFits
  <2>13. NamespacesFit(k)'
    <3> SUFFICES ASSUME k = "pod", NEW r \in Staying(k)', NEW o \in Listed(k), r.uid = o.uid,
                        ~\E q \in sync'.toUpdate : q.row = r
                 PROVE  InItsNamespace(r, o)'
      BY <2>3 DEF NamespacesFit
    <3>1. RowsOf("namespace")' = RowsOf("namespace")
      BY <2>7, KindsFact
    <3>2. CASE r = u
      <4>1. o = p.obj
        BY <2>2, <2>3, <2>5, <3>2
      <4>2. \E n \in RowsOf("namespace") : n.id = u.ns /\ n.name = o.ns
        BY <2>4, <2>5, <4>1, IdOfFact
      <4> QED BY <3>1, <3>2, <4>2 DEF InItsNamespace
    <3>3. CASE r # u
      <4>1. InItsNamespace(r, o)
        BY <1>4, <2>1, <2>8, <3>3 DEF LevelFits, NamespacesFit
      <4> QED BY <3>1, <4>1 DEF InItsNamespace
    <3> QED BY <3>2, <3>3
  <2>14. WalkStep
    BY <1>1, <1>2, <1>3, <1>4, <1>5, <1>6, <1>11, <2>7 DEF WalkStep
  <2>15. WalkOK'
    BY <1>0, <1>1, <2>9, <2>10, <2>11, <2>12, <2>13, <2>14, WalkStepOK DEF LevelFits
  <2> QED BY <1>0, <1>2, <1>3, <1>7, <1>8, <2>15, WalkPasses, SameLogs DEF TreeInv
<1> QED BY <1>9, <1>10, <1>11

\* The end of a level: its rows mirror what was listed, and the next level
\* follows.
LEMMA KindDoneInv ==
  ASSUME TreeInv, KindDone
  PROVE  TreeInv'
<1>0. LogsOK /\ RowsOK /\ SyncOK /\ PassesOK /\ WalkOK
  BY DEF TreeInv
<1>1. PICK k \in Kinds : k = SyncKind
  BY <1>0, SyncKindFact
<1>2. /\ sync.pc = "apply" /\ pending["sync"] = {}
      /\ sync.toRemove = {} /\ sync.toUpdate = {} /\ sync.toAdd = {}
      /\ UNCHANGED <<log, cached, rows, pending, seen, alone, cluster, passes>>
  BY DEF KindDone, remoteVars
<1>3. \A h \in Kinds : Listed(h)' = Listed(h) /\ RowsOf(h)' = RowsOf(h)
  BY <1>0, <1>2, SameLogs DEF RowsOf
<1>4. \A h \in Kinds : LevelDone(h) => LevelDone(h)'
  <2>1. RowsOf("namespace")' = RowsOf("namespace")
    BY <1>2 DEF RowsOf
  <2> QED BY <1>3, <2>1 DEF LevelDone, InItsNamespace
<1>5. alone /\ cluster = "live" /\ ~sync.err => LevelDone(k)
  <2> SUFFICES ASSUME alone /\ cluster = "live" /\ ~sync.err PROVE LevelDone(k)
    OBVIOUS
  <2>1. LevelFits(k)
    BY <1>0, <1>1, <1>2 DEF WalkOK
  <2>2. Staying(k) = RowsOf(k)
    BY <1>2 DEF Staying
  <2>3. \A o \in Listed(k) : \E r \in RowsOf(k) : r.uid = o.uid
    BY <1>2, <2>1, <2>2 DEF LevelFits, AdditionsFit
  <2>4. k = "pod" => \A r \in RowsOf(k), o \in Listed(k) : r.uid = o.uid => InItsNamespace(r, o)
    BY <1>2, <2>1, <2>2 DEF LevelFits, NamespacesFit
  <2> QED BY <2>1, <2>2, <2>3, <2>4 DEF LevelDone, LevelFits, StayingFit
<1>6. CASE sync.err
  <2>1. SyncError
    BY <1>6 DEF KindDone, NextKind
  <2> QED BY <1>0, <1>2, <2>1, SyncErrorWalk, WalkPasses, SameLogs, FewerRows DEF TreeInv
<1>7. CASE ~sync.err /\ sync.level = 3
  <2>1. sync' = [pc |-> "ok", level |-> 1, list |-> {}, toRemove |-> {},
                 toUpdate |-> {}, toAdd |-> {}, err |-> FALSE]
    BY <1>7 DEF KindDone, NextKind, Idle
  <2>2. /\ IsSync(sync') /\ sync'.pc = "ok" /\ sync'.level = 1 /\ sync'.err \in BOOLEAN
        /\ sync'.list = {} /\ sync'.toAdd = {}
    BY <2>1 DEF IsSync
  <2>3. SyncOK'
    BY <1>0, <1>2, <2>2 DEF SyncOK
  <2>4. alone /\ cluster = "live" => \A h \in Kinds : LevelDone(h)'
    <3> SUFFICES ASSUME alone, cluster = "live", NEW h \in Kinds PROVE LevelDone(h)'
      OBVIOUS
    <3>1. h = k \/ Above(h)
      BY <1>0, <1>1, <1>7, SyncKindFact, KindsFact DEF Above
    <3>2. LevelDone(h)
      BY <1>0, <1>2, <1>5, <1>7, <3>1 DEF WalkOK
    <3> QED BY <1>4, <3>2
  <2>5. WalkOK'
    BY <1>0, <1>2, <2>2, <2>4 DEF WalkOK
  <2> QED BY <1>0, <1>2, <2>3, <2>5, WalkPasses, SameLogs, FewerRows DEF TreeInv
<1>8. CASE ~sync.err /\ sync.level # 3
  <2>1. sync' = [pc |-> "list", level |-> sync.level + 1, list |-> {}, toRemove |-> {},
                 toUpdate |-> {}, toAdd |-> {}, err |-> FALSE]
    BY <1>8 DEF KindDone, NextKind, Idle
  <2>2. sync.level \in 1..2
    BY <1>0, <1>8 DEF SyncOK
  <2>3. /\ IsSync(sync') /\ sync'.pc = "list" /\ sync'.level = sync.level + 1
        /\ sync'.err \in BOOLEAN /\ sync'.list = {} /\ sync'.toAdd = {}
    BY <2>1 DEF IsSync
  <2>4. SyncOK'
    BY <1>0, <1>2, <2>2, <2>3 DEF SyncOK
  <2>5. alone /\ cluster = "live" => \A h \in Kinds : Above(h)' => LevelDone(h)'
    <3> SUFFICES ASSUME alone, cluster = "live", NEW h \in Kinds, Above(h)' PROVE LevelDone(h)'
      OBVIOUS
    <3>1. h = k \/ Above(h)
      BY <1>0, <1>1, <2>2, <2>3, SyncKindFact, KindsFact DEF Above
    <3>2. LevelDone(h)
      BY <1>0, <1>2, <1>5, <1>8, <3>1 DEF WalkOK
    <3> QED BY <1>4, <3>2
  <2>6. WalkOK'
    BY <1>0, <1>2, <2>3, <2>5 DEF WalkOK
  <2> QED BY <1>0, <1>2, <2>4, <2>6, WalkPasses, SameLogs, FewerRows DEF TreeInv
<1> QED BY <1>6, <1>7, <1>8

-----------------------------------------------------------------------------
(* Theorems *)

\* Every step keeps the invariant.
LEMMA TreeNextInv ==
  ASSUME TreeInv, [TreeNext]_treeAll
  PROVE  TreeInv'
<1>1. CASE UNCHANGED treeAll
  <2>1. UNCHANGED <<log, cached, seen, rows, pending, sync, alone, cluster, passes>>
    BY <1>1 DEF treeAll, treeVars
  <2> QED BY <2>1, SameLogs, FewerRows, SameSync, PassesKept, WalkKept DEF TreeInv
<1>2. CASE TreeNext
  BY <1>2, RemoteInv, InformerApplyInv, HandleEventInv, EventInsertInv, SubmitSyncInv,
     SyncFailInv, ListInv, LoadInv, RemoveInv, UpdateInv, AddInv, InsertInv, KindDoneInv,
     DeleteNamespaceInv, DeleteNamespaceTaskInv, DeleteClusterInv, PurgeInv, PerformGcInv
     DEF TreeNext, Handler, Walk
<1> QED BY <1>1, <1>2

\* The invariant of the copies of all kinds: logs, rows and the walk keep
\* their shape, rows have ids of their own, and walk and collections are
\* where they claim to be.
THEOREM TreeInvariant == TreeSpec => []TreeInv
<1>1. TreeInit => TreeInv
  BY TreeInitInv
<1>2. TreeInv /\ [TreeNext]_treeAll => TreeInv'
  BY TreeNextInv
<1> QED BY <1>1, <1>2, PTL DEF TreeSpec

\* A synchronisation that reports success, and during which nobody else has
\* written rows, has mirrored every level of the tree as it was listed, with
\* every pod's row in the row of its namespace (SyncClusterResources).
THEOREM SuccessMirrorsTree == TreeSpec => []SuccessMeansTree
<1>1. TreeInv => SuccessMeansTree
  <2> SUFFICES ASSUME TreeInv, sync.pc = "ok", alone, cluster = "live", NEW k \in Kinds
               PROVE  Mirrors(k, Listing(k, seen[k]))
    BY DEF SuccessMeansTree
  <2>1. LogsOK /\ LevelDone(k)
    BY DEF TreeInv, WalkOK
  <2>2. Mirrors(k, Listed(k))
    BY <2>1, DoneMirrors
  <2> QED BY <2>2 DEF Listed
<1> QED BY <1>1, TreeInvariant, PTL

\* Two collections leave no row of a deleted cluster behind, whatever
\* handlers and the walk inserted while its rows were purged (GetGCQuery).
THEOREM TwoCollectionsSuffice == TreeSpec => []TwoCollectionsClean
<1>1. TreeInv => TwoCollectionsClean
  BY DEF TreeInv, PassesOK, TwoCollectionsClean
<1> QED BY <1>1, TreeInvariant, PTL
====
