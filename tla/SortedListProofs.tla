--------------------------- MODULE SortedListProofs ---------------------------
(***************************************************************************)
(* Proofs about SortedList for lists of any length: the list stays sorted, *)
(* the binary search finds the right place, and the list behaves as the    *)
(* set of its items.                                                       *)
(***************************************************************************)
EXTENDS SortedList, TLAPS

\* Inserting or removing one element gives a sequence over the same items
\* (the slice operations of AppendToList and RemoveFromList).
LEMMA SliceTypes ==
  ASSUME NEW s \in Seq(Items), NEW at \in 0 .. Len(s), NEW x \in Items
  PROVE  /\ InsertAt(s, at, x) \in Seq(Items)
         /\ Len(InsertAt(s, at, x)) = Len(s) + 1
         /\ at < Len(s) => /\ RemoveAt(s, at) \in Seq(Items)
                           /\ Len(RemoveAt(s, at)) = Len(s) - 1
<1>1. Len(s) \in Nat /\ \A n \in 1 .. Len(s) : s[n] \in Items
  OBVIOUS
<1>2. InsertAt(s, at, x) \in [1 .. Len(s) + 1 -> Items]
  BY <1>1 DEF InsertAt
<1>3. InsertAt(s, at, x) \in Seq(Items) /\ Len(InsertAt(s, at, x)) = Len(s) + 1
  BY <1>1, <1>2
<1>4. ASSUME at < Len(s)
      PROVE  RemoveAt(s, at) \in Seq(Items) /\ Len(RemoveAt(s, at)) = Len(s) - 1
  <2>1. RemoveAt(s, at) \in [1 .. Len(s) - 1 -> Items]
    BY <1>1, <1>4 DEF RemoveAt
  <2>2. Len(s) - 1 \in Nat
    BY <1>1, <1>4
  <2> QED  BY <2>1, <2>2
<1> QED  BY <1>3, <1>4

\* The elements of a list are numbers, so that they can be compared.
LEMMA Elements ==
  ASSUME NEW s \in Seq(Items)
  PROVE  Len(s) \in Nat /\ \A n \in 1 .. Len(s) : s[n] \in Items /\ s[n] \in Int
<1>1. Len(s) \in Nat /\ \A n \in 1 .. Len(s) : s[n] \in Items
  OBVIOUS
<1>2. \A x \in Items : x \in Int
  BY ItemsAssumption
<1> QED  BY <1>1, <1>2

\* The initial list is empty (NewStorageServer makes an empty map).
LEMMA InitInv == Init => Inv
BY ItemsAssumption DEF Init, Inv, TypeOK, Ops, Sorted, SearchBounds, FoundPlace, SearchedInside

\* A turn of the loop of BinarySearchString keeps its bounds.
LEMMA SearchInv == Inv /\ SearchStep => Inv'
<1> SUFFICES ASSUME Inv, SearchStep PROVE Inv'
  OBVIOUS
<1> DEFINE mid == (i + j) \div 2
<1>1. /\ list \in Seq(Items) /\ val \in Items /\ i \in Int /\ j \in Int
      /\ Len(list) \in Nat /\ Sorted /\ Items \subseteq Int
      /\ pc = "search" /\ i <= j
      /\ 0 <= i /\ j < Len(list)
      /\ \A n \in 1 .. i : list[n] < val
      /\ \A n \in (j + 2) .. Len(list) : list[n] > val
  BY ItemsAssumption DEF Inv, TypeOK, SearchBounds, SearchStep
<1>2. mid \in Int /\ i <= mid /\ mid <= j
  BY <1>1
<1>3. \A n \in 1 .. Len(list) : list[n] \in Int
  BY <1>1, Elements
<1> HIDE DEF mid
<1>4. UNCHANGED <<list, op, val, status>>
  BY DEF SearchStep
<1>5. TypeOK' /\ Sorted' /\ SearchedInside'
  <2>1. i' \in Int /\ j' \in Int /\ pc' \in {"search", "found"}
    BY <1>1, <1>2 DEF SearchStep, mid
  <2> QED  BY <1>1, <1>4, <2>1 DEF Inv, TypeOK, Sorted, SearchedInside
<1>6. CASE list[mid + 1] = val
  <2>1. i' = mid /\ pc' = "found"
    BY <1>1, <1>2, <1>3, <1>6 DEF SearchStep, mid
  <2>2. \A n \in 1 .. mid : list[n] < val
    BY <1>1, <1>2, <1>3, <1>6 DEF Sorted
  <2>3. \A n \in (mid + 1) .. Len(list) : list[n] >= val
    BY <1>1, <1>2, <1>3, <1>6 DEF Sorted
  <2> QED  BY <1>1, <1>2, <1>4, <1>5, <2>1, <2>2, <2>3 DEF Inv, SearchBounds, FoundPlace
<1>7. CASE list[mid + 1] < val
  <2>1. i' = mid + 1 /\ j' = j /\ pc' = "search"
    BY <1>1, <1>2, <1>3, <1>7 DEF SearchStep, mid
  <2>2. \A n \in 1 .. (mid + 1) : list[n] < val
    <3>1. mid \in Int /\ mid + 1 \in 1 .. Len(list) /\ Len(list) \in Int /\ val \in Int
      BY <1>1, <1>2, <1>3
    <3>2. \A n \in 1 .. (mid + 1) : n \in 1 .. Len(list) /\ (n < mid + 1 \/ n = mid + 1)
      BY <3>1
    <3>3. \A n \in 1 .. (mid + 1) : n < mid + 1 => list[n] < list[mid + 1]
      BY <1>1, <3>1, <3>2 DEF Sorted
    <3> QED  BY <1>3, <1>7, <3>1, <3>2, <3>3
  <2> QED  BY <1>1, <1>2, <1>4, <1>5, <2>1, <2>2 DEF Inv, SearchBounds, FoundPlace
<1>8. CASE list[mid + 1] > val
  <2>1. i' = i /\ j' = mid - 1 /\ pc' = "search"
    BY <1>1, <1>2, <1>3, <1>8 DEF SearchStep, mid
  <2>2. \A n \in (mid + 1) .. Len(list) : list[n] > val
    BY <1>1, <1>2, <1>3, <1>8 DEF Sorted
  <2> QED  BY <1>1, <1>2, <1>4, <1>5, <2>1, <2>2 DEF Inv, SearchBounds, FoundPlace
<1>9. list[mid + 1] \in Int
  BY <1>1, <1>2, <1>3
<1> QED  BY <1>1, <1>6, <1>7, <1>8, <1>9

\* The end of the loop: i is the place of val.
LEMMA SearchEndInv == Inv /\ SearchEnd => Inv'
<1> SUFFICES ASSUME Inv, SearchEnd PROVE Inv'
  OBVIOUS
<1>1. /\ list \in Seq(Items) /\ Len(list) \in Nat /\ i \in Int /\ j \in Int /\ val \in Int
      /\ i = j + 1 /\ 0 <= i /\ i <= Len(list)
      /\ \A n \in 1 .. Len(list) : list[n] \in Int
      /\ \A n \in 1 .. i : list[n] < val
      /\ \A n \in (i + 1) .. Len(list) : list[n] > val
  BY ItemsAssumption, Elements DEF Inv, TypeOK, SearchBounds, SearchEnd
<1>2. op = "AppendToList" => i < Len(list)
  BY <1>1 DEF Inv, SearchedInside, SearchEnd
<1> QED
  BY <1>1, <1>2 DEF SearchEnd, Inv, TypeOK, Sorted, SearchBounds, FoundPlace, SearchedInside

\* Inserting val at the place that was found keeps the list sorted.
LEMMA InsertSorted ==
  ASSUME Inv, pc = "found", i < Len(list), list[i + 1] # val
  PROVE  \A m, n \in 1 .. (Len(list) + 1) :
           m < n => InsertAt(list, i, val)[m] < InsertAt(list, i, val)[n]
<1>1. /\ list \in Seq(Items) /\ Len(list) \in Nat /\ i \in Int /\ val \in Int /\ 0 <= i
      /\ \A n \in 1 .. Len(list) : list[n] \in Int
      /\ \A n \in 1 .. i : list[n] < val
      /\ \A n \in (i + 1) .. Len(list) : list[n] >= val
      /\ \A m, n \in 1 .. Len(list) : m < n => list[m] < list[n]
  BY ItemsAssumption, Elements DEF Inv, TypeOK, FoundPlace, Sorted
<1>2. \A n \in (i + 1) .. Len(list) : list[n] > val
  <2> SUFFICES ASSUME NEW n \in (i + 1) .. Len(list) PROVE list[n] > val
    OBVIOUS
  <2>1. CASE n = i + 1
    BY <1>1, <2>1
  <2>2. CASE n > i + 1
    <3>1. list[i + 1] < list[n] /\ list[i + 1] >= val
      BY <1>1, <2>2
    <3> QED  BY <1>1, <3>1
  <2> QED  BY <1>1, <2>1, <2>2
<1> DEFINE t == InsertAt(list, i, val)
<1> SUFFICES ASSUME NEW m \in 1 .. (Len(list) + 1), NEW n \in 1 .. (Len(list) + 1), m < n
             PROVE  t[m] < t[n]
  OBVIOUS
<1>3. \A k \in 1 .. (Len(list) + 1) :
        t[k] = IF k <= i THEN list[k] ELSE IF k = i + 1 THEN val ELSE list[k - 1]
  BY <1>1 DEF InsertAt
<1> HIDE DEF t
<1>4. CASE n <= i
  BY <1>1, <1>3, <1>4
<1>5. CASE n = i + 1
  BY <1>1, <1>3, <1>5
<1>6. CASE n > i + 1
  <2>1. t[n] = list[n - 1] /\ n - 1 \in (i + 1) .. Len(list)
    BY <1>1, <1>3, <1>6
  <2>2. CASE m <= i
    <3>1. t[m] = list[m] /\ m \in 1 .. Len(list) /\ n - 1 \in 1 .. Len(list) /\ m < n - 1
      BY <1>1, <1>3, <2>1, <2>2
    <3> QED  BY <1>1, <2>1, <3>1
  <2>3. CASE m = i + 1
    BY <1>1, <1>2, <1>3, <2>1, <2>3
  <2>4. CASE m > i + 1
    <3>1. t[m] = list[m - 1] /\ m - 1 \in 1 .. Len(list) /\ m - 1 < n - 1
      BY <1>1, <1>3, <2>4
    <3> QED  BY <1>1, <2>1, <3>1
  <2> QED  BY <1>1, <2>2, <2>3, <2>4
<1> QED  BY <1>1, <1>4, <1>5, <1>6

\* AppendToList without a search: the item is greater than all others.
LEMMA AppendInv ==
  ASSUME Inv, NEW x \in Items, AppendToList(x)
  PROVE  Inv'
<1>1. /\ list \in Seq(Items) /\ Len(list) \in Nat /\ x \in Int /\ Items \subseteq Int
      /\ \A n \in 1 .. Len(list) : list[n] \in Int
      /\ \A m, n \in 1 .. Len(list) : m < n => list[m] < list[n]
      /\ pc = "idle" /\ i \in Int /\ j \in Int
  BY ItemsAssumption, Elements DEF Inv, TypeOK, Sorted, AppendToList
<1>2. CASE list' = Append(list, x) /\ pc' = "idle" /\ (Len(list) >= 1 => list[Len(list)] < x)
  <2>1. \A n \in 1 .. Len(list) : list[n] < x
    BY <1>1, <1>2
  <2>2. /\ list' \in Seq(Items) /\ Len(list') = Len(list) + 1
        /\ list'[Len(list) + 1] = x
        /\ \A n \in 1 .. Len(list) : list'[n] = list[n]
    BY <1>1, <1>2
  <2>3. Sorted'
    BY <1>1, <2>1, <2>2 DEF Sorted
  <2>4. TypeOK'
    BY <1>1, <1>2, <2>2 DEF AppendToList, Inv, TypeOK, Ops, Return, StartSearch
  <2> QED  BY <1>2, <2>3, <2>4 DEF Inv, SearchBounds, FoundPlace, SearchedInside
<1>3. CASE StartSearch("AppendToList", x) /\ Len(list) >= 1 /\ list[Len(list)] >= x
  BY <1>1, <1>3 DEF StartSearch, Inv, TypeOK, Ops, Sorted, SearchBounds, FoundPlace, SearchedInside
<1> QED  BY <1>2, <1>3 DEF AppendToList, Return

\* RemoveFromList begins with a search, or returns at once.
LEMMA RemoveInv ==
  ASSUME Inv, NEW x \in Items, RemoveFromList(x)
  PROVE  Inv'
BY ItemsAssumption
   DEF RemoveFromList, Return, StartSearch, Inv, TypeOK, Ops, Sorted, SearchBounds, FoundPlace,
       SearchedInside

\* The end of AppendToList.
LEMMA FinishAppendInv == Inv /\ FinishAppend => Inv'
<1> SUFFICES ASSUME Inv, FinishAppend PROVE Inv'
  OBVIOUS
<1>1. /\ list \in Seq(Items) /\ Len(list) \in Nat /\ i \in 0 .. Len(list) /\ i < Len(list)
      /\ val \in Items /\ pc = "found" /\ pc' = "idle"
  BY DEF Inv, TypeOK, FoundPlace, FinishAppend, Return
<1>2. CASE list' = list
  BY <1>1, <1>2 DEF FinishAppend, Return, Inv, TypeOK, Sorted, SearchBounds, FoundPlace, SearchedInside
<1>3. CASE list' = InsertAt(list, i, val) /\ list[i + 1] # val
  <2>1. list' \in Seq(Items) /\ Len(list') = Len(list) + 1
    BY <1>1, <1>3, SliceTypes
  <2>2. Sorted'
    BY <1>1, <1>3, <2>1, InsertSorted DEF Sorted
  <2> QED
    BY <1>1, <2>1, <2>2 DEF FinishAppend, Return, Inv, TypeOK, SearchBounds, FoundPlace, SearchedInside
<1> QED  BY <1>2, <1>3 DEF FinishAppend

\* The end of RemoveFromList.
LEMMA FinishRemoveInv == Inv /\ FinishRemove => Inv'
<1> SUFFICES ASSUME Inv, FinishRemove PROVE Inv'
  OBVIOUS
<1>1. /\ list \in Seq(Items) /\ Len(list) \in Nat /\ i \in 0 .. Len(list)
      /\ val \in Items /\ pc = "found" /\ pc' = "idle"
      /\ \A m, n \in 1 .. Len(list) : m < n => list[m] < list[n]
      /\ \A n \in 1 .. Len(list) : list[n] \in Int
  BY Elements DEF Inv, TypeOK, Sorted, FoundPlace, FinishRemove, Return
<1>2. CASE list' = list
  BY <1>1, <1>2 DEF FinishRemove, Return, Inv, TypeOK, Sorted, SearchBounds, FoundPlace, SearchedInside
<1>3. CASE list' = RemoveAt(list, i) /\ i < Len(list)
  <2>1. list' \in Seq(Items) /\ Len(list') = Len(list) - 1
    BY <1>1, <1>3, SliceTypes
  <2>2. \A n \in 1 .. Len(list') : list'[n] = IF n <= i THEN list[n] ELSE list[n + 1]
    BY <1>1, <1>3, <2>1 DEF RemoveAt
  <2>3. ASSUME NEW m \in 1 .. Len(list'), NEW n \in 1 .. Len(list'), m < n
        PROVE  list'[m] < list'[n]
    <3>1. CASE n <= i
      <4>1. m \in 1 .. Len(list) /\ n \in 1 .. Len(list) /\ m <= i
        BY <1>1, <2>1, <2>3, <3>1
      <4>2. list'[n] = list[n] /\ list'[m] = list[m]
        BY <2>2, <3>1, <4>1
      <4> QED  BY <1>1, <2>3, <4>1, <4>2
    <3>2. CASE n > i /\ m <= i
      <4>1. list'[n] = list[n + 1] /\ list'[m] = list[m] /\ n + 1 \in 1 .. Len(list)
            /\ m \in 1 .. Len(list) /\ m < n + 1
        BY <1>1, <2>1, <2>2, <2>3, <3>2
      <4> QED  BY <1>1, <4>1
    <3>3. CASE n > i /\ m > i
      <4>1. list'[n] = list[n + 1] /\ list'[m] = list[m + 1] /\ n + 1 \in 1 .. Len(list)
            /\ m + 1 \in 1 .. Len(list) /\ m + 1 < n + 1
        BY <1>1, <2>1, <2>2, <2>3, <3>3
      <4> QED  BY <1>1, <4>1
    <3> QED  BY <1>1, <2>1, <3>1, <3>2, <3>3
  <2>4. Sorted'
    BY <2>3 DEF Sorted
  <2> QED
    BY <1>1, <2>1, <2>4 DEF FinishRemove, Return, Inv, TypeOK, SearchBounds, FoundPlace, SearchedInside
<1> QED  BY <1>2, <1>3 DEF FinishRemove

\* Every step keeps the list sorted and the search right.
LEMMA NextInv == Inv /\ [Next]_vars => Inv'
<1> SUFFICES ASSUME Inv, [Next]_vars PROVE Inv'
  OBVIOUS
<1>1. CASE UNCHANGED vars
  BY <1>1 DEF vars, Inv, TypeOK, Sorted, SearchBounds, FoundPlace, SearchedInside
<1> QED
  BY <1>1, AppendInv, RemoveInv, SearchInv, SearchEndInv, FinishAppendInv, FinishRemoveInv DEF Next

\* For lists of any length: AppendToList and RemoveFromList keep the stored list sorted and
\* free of duplicates, the binary search returns the place of the item, and AppendToList
\* never reads past the end of the list.
THEOREM ListSorted == Spec => []Inv
<1>1. Init => Inv
  BY InitInv
<1>2. Inv /\ [Next]_vars => Inv'
  BY NextInv
<1> QED  BY <1>1, <1>2, PTL DEF Spec

-----------------------------------------------------------------------------
(* The list as a set.                                                      *)

\* A search that comes back tells membership: val is in the list exactly if it is at the
\* index the search returned.
LEMMA FoundIsMember ==
  ASSUME Inv, pc = "found"
  PROVE  val \in Members(list) <=> i < Len(list) /\ list[i + 1] = val
<1>1. /\ list \in Seq(Items) /\ Len(list) \in Nat /\ i \in Int /\ val \in Int
      /\ 0 <= i /\ i <= Len(list)
      /\ \A n \in 1 .. Len(list) : list[n] \in Int
      /\ \A n \in 1 .. i : list[n] < val
      /\ \A n \in (i + 1) .. Len(list) : list[n] >= val
      /\ \A m, n \in 1 .. Len(list) : m < n => list[m] < list[n]
  BY ItemsAssumption, Elements DEF Inv, TypeOK, FoundPlace, Sorted
<1>2. ASSUME NEW n \in 1 .. Len(list), list[n] = val
      PROVE  n = i + 1
  <2>1. ~(n <= i)
    BY <1>1, <1>2
  <2>2. ~(n > i + 1)
    <3> SUFFICES ASSUME n > i + 1 PROVE FALSE
      OBVIOUS
    <3>1. list[i + 1] < list[n] /\ list[i + 1] >= val
      BY <1>1
    <3> QED  BY <1>1, <1>2, <3>1
  <2> QED  BY <1>1, <2>1, <2>2
<1>3. val \in Members(list) => i < Len(list) /\ list[i + 1] = val
  BY <1>1, <1>2 DEF Members
<1>4. i < Len(list) /\ list[i + 1] = val => val \in Members(list)
  BY <1>1 DEF Members
<1> QED  BY <1>3, <1>4

\* Inserting adds one member.
LEMMA InsertMembers ==
  ASSUME NEW s \in Seq(Items), NEW at \in 0 .. Len(s), NEW x \in Items
  PROVE  Members(InsertAt(s, at, x)) = Members(s) \cup {x}
<1> DEFINE t == InsertAt(s, at, x)
<1>1. /\ Len(s) \in Nat /\ Len(t) = Len(s) + 1
      /\ \A n \in 1 .. (Len(s) + 1) :
           t[n] = IF n <= at THEN s[n] ELSE IF n = at + 1 THEN x ELSE s[n - 1]
  BY SliceTypes DEF InsertAt
<1> HIDE DEF t
<1>2. ASSUME NEW n \in 1 .. Len(t) PROVE t[n] \in Members(s) \cup {x}
  <2>1. CASE n <= at
    BY <1>1, <1>2, <2>1 DEF Members
  <2>2. CASE n = at + 1
    BY <1>1, <1>2, <2>2
  <2>3. CASE n > at + 1
    <3>1. t[n] = s[n - 1] /\ n - 1 \in 1 .. Len(s)
      BY <1>1, <2>3
    <3> QED  BY <3>1 DEF Members
  <2> QED  BY <1>1, <2>1, <2>2, <2>3
<1>3. ASSUME NEW n \in 1 .. Len(s) PROVE s[n] \in Members(t)
  <2>1. CASE n <= at
    <3>1. t[n] = s[n] /\ n \in 1 .. Len(t)
      BY <1>1, <2>1
    <3> QED  BY <3>1 DEF Members
  <2>2. CASE n > at
    <3>1. t[n + 1] = s[n] /\ n + 1 \in 1 .. Len(t)
      BY <1>1, <2>2
    <3> QED  BY <3>1 DEF Members
  <2> QED  BY <1>1, <2>1, <2>2
<1>4. x \in Members(t)
  <2>1. t[at + 1] = x /\ at + 1 \in 1 .. Len(t)
    BY <1>1
  <2> QED  BY <2>1 DEF Members
<1>5. Members(t) \subseteq Members(s) \cup {x}
  <2> SUFFICES ASSUME NEW y \in Members(t) PROVE y \in Members(s) \cup {x}
    OBVIOUS
  <2>1. PICK n \in 1 .. Len(t) : y = t[n]
    BY DEF Members
  <2> QED  BY <1>2, <2>1
<1>6. Members(s) \subseteq Members(t)
  <2> SUFFICES ASSUME NEW y \in Members(s) PROVE y \in Members(t)
    OBVIOUS
  <2>1. PICK n \in 1 .. Len(s) : y = s[n]
    BY DEF Members
  <2> QED  BY <1>3, <2>1
<1>7. Members(t) = Members(s) \cup {x}
  BY <1>4, <1>5, <1>6
<1> QED  BY <1>7 DEF t

\* Removing from a sorted list takes one member away.
LEMMA RemoveMembers ==
  ASSUME Inv, pc = "found", i < Len(list), list[i + 1] = val
  PROVE  Members(RemoveAt(list, i)) = Members(list) \ {val}
<1> DEFINE t == RemoveAt(list, i)
<1>1. /\ list \in Seq(Items) /\ Len(list) \in Nat /\ i \in 0 .. Len(list) /\ val \in Items
      /\ \A n \in 1 .. Len(list) : list[n] \in Int
      /\ \A m, n \in 1 .. Len(list) : m < n => list[m] < list[n]
  BY Elements DEF Inv, TypeOK, FoundPlace, Sorted
<1>2. Len(t) = Len(list) - 1
  BY <1>1, SliceTypes
<1>3. \A n \in 1 .. (Len(list) - 1) : t[n] = IF n <= i THEN list[n] ELSE list[n + 1]
  BY <1>1 DEF RemoveAt
<1> HIDE DEF t
<1>4. \A n \in 1 .. Len(list) : n # i + 1 => list[n] # val
  <2> SUFFICES ASSUME NEW n \in 1 .. Len(list), n # i + 1 PROVE list[n] # val
    OBVIOUS
  <2>1. i + 1 \in 1 .. Len(list) /\ list[i + 1] \in Int /\ list[n] \in Int
    BY <1>1
  <2>2. CASE n < i + 1
    <3>1. list[n] < list[i + 1]
      BY <1>1, <2>1, <2>2
    <3> QED  BY <2>1, <3>1
  <2>3. CASE n > i + 1
    <3>1. list[i + 1] < list[n]
      BY <1>1, <2>1, <2>3
    <3> QED  BY <2>1, <3>1
  <2> QED  BY <1>1, <2>2, <2>3
<1>5. ASSUME NEW n \in 1 .. Len(t) PROVE t[n] \in Members(list) \ {val}
  <2>1. CASE n <= i
    <3>1. t[n] = list[n] /\ n \in 1 .. Len(list) /\ n # i + 1
      BY <1>1, <1>2, <1>3, <2>1
    <3> QED  BY <1>4, <3>1 DEF Members
  <2>2. CASE n > i
    <3>1. t[n] = list[n + 1] /\ n + 1 \in 1 .. Len(list) /\ n + 1 # i + 1
      BY <1>1, <1>2, <1>3, <2>2
    <3> QED  BY <1>4, <3>1 DEF Members
  <2> QED  BY <1>1, <2>1, <2>2
<1>6. ASSUME NEW n \in 1 .. Len(list), list[n] # val PROVE list[n] \in Members(t)
  <2>1. CASE n <= i
    <3>1. t[n] = list[n] /\ n \in 1 .. Len(t)
      BY <1>1, <1>2, <1>3, <2>1
    <3> QED  BY <3>1 DEF Members
  <2>2. CASE n > i + 1
    <3>1. t[n - 1] = list[n] /\ n - 1 \in 1 .. Len(t)
      BY <1>1, <1>2, <1>3, <2>2
    <3> QED  BY <3>1 DEF Members
  <2>3. n # i + 1
    BY <1>6
  <2> QED  BY <1>1, <2>1, <2>2, <2>3
<1>7. Members(t) \subseteq Members(list) \ {val}
  <2> SUFFICES ASSUME NEW y \in Members(t) PROVE y \in Members(list) \ {val}
    OBVIOUS
  <2>1. PICK n \in 1 .. Len(t) : y = t[n]
    BY DEF Members
  <2> QED  BY <1>5, <2>1
<1>8. Members(list) \ {val} \subseteq Members(t)
  <2> SUFFICES ASSUME NEW y \in Members(list) \ {val} PROVE y \in Members(t)
    OBVIOUS
  <2>1. PICK n \in 1 .. Len(list) : y = list[n]
    BY DEF Members
  <2> QED  BY <1>6, <2>1
<1>9. Members(t) = Members(list) \ {val}
  BY <1>7, <1>8
<1> QED  BY <1>9 DEF t

\* Every step of the list is a step of a set.
LEMMA SetSteps == Inv /\ [Next]_vars => [SetStep]_vars
<1> SUFFICES ASSUME Inv, Next PROVE SetStep
  OBVIOUS
<1>1. /\ list \in Seq(Items) /\ Len(list) \in Nat /\ Items \subseteq Int
      /\ \A n \in 1 .. Len(list) : list[n] \in Int
      /\ \A m, n \in 1 .. Len(list) : m < n => list[m] < list[n]
      /\ val \in Items
  BY ItemsAssumption, Elements DEF Inv, TypeOK, Sorted
<1>2. ASSUME NEW x \in Items, AppendToList(x) PROVE SetStep
  <2>1. CASE StartSearch("AppendToList", x)
    BY <2>1 DEF StartSearch, SetStep
  <2>2. CASE /\ Len(list) >= 1 => list[Len(list)] < x
             /\ list' = Append(list, x) /\ op' = "AppendToList" /\ val' = x /\ status' = "OK"
    <3>1. \A n \in 1 .. Len(list) : list[n] < x
      BY <1>1, <2>2
    <3>2. x \notin Members(list)
      BY <1>1, <3>1 DEF Members
    <3>3. /\ Len(list') = Len(list) + 1 /\ list'[Len(list) + 1] = x
          /\ \A n \in 1 .. Len(list) : list'[n] = list[n]
      BY <1>1, <2>2
    <3>4. ASSUME NEW y \in Members(list') PROVE y \in Members(list) \cup {x}
      <4>1. PICK n \in 1 .. Len(list') : y = list'[n]
        BY <3>4 DEF Members
      <4>2. n \in 1 .. Len(list) \/ n = Len(list) + 1
        BY <1>1, <3>3
      <4> QED  BY <3>3, <4>1, <4>2 DEF Members
    <3>5. ASSUME NEW y \in Members(list) PROVE y \in Members(list')
      <4>1. PICK n \in 1 .. Len(list) : y = list[n]
        BY <3>5 DEF Members
      <4>2. n \in 1 .. Len(list')
        BY <1>1, <3>3
      <4> QED  BY <3>3, <4>1, <4>2 DEF Members
    <3>6. x \in Members(list')
      <4>1. Len(list) + 1 \in 1 .. Len(list')
        BY <1>1, <3>3
      <4> QED  BY <3>3, <4>1 DEF Members
    <3>7. Members(list') = Members(list) \cup {x}
      BY <3>4, <3>5, <3>6
    <3> QED  BY <2>2, <3>2, <3>7 DEF SetStep
  <2> QED  BY <1>2, <2>1, <2>2 DEF AppendToList, Return
<1>3. ASSUME NEW x \in Items, RemoveFromList(x) PROVE SetStep
  <2>1. CASE StartSearch("RemoveFromList", x)
    BY <2>1 DEF StartSearch, SetStep
  <2>2. CASE /\ Len(list) < 1 /\ list' = list
             /\ op' = "RemoveFromList" /\ val' = x /\ status' = "ItemNotFound"
    <3>1. Members(list) = {}
      BY <1>1, <2>2 DEF Members
    <3> QED  BY <2>2, <3>1 DEF SetStep
  <2> QED  BY <1>3, <2>1, <2>2 DEF RemoveFromList, Return
<1>4. ASSUME FinishAppend PROVE SetStep
  <2>1. i < Len(list) /\ i \in 0 .. Len(list) /\ pc = "found" /\ op' = "AppendToList" /\ val' = val
    BY <1>1, <1>4 DEF Inv, TypeOK, FoundPlace, FinishAppend
  <2>2. val \in Members(list) <=> list[i + 1] = val
    BY <2>1, FoundIsMember
  <2>3. CASE list[i + 1] = val
    <3>1. list' = list /\ status' = "ItemExists"
      BY <1>4, <2>3 DEF FinishAppend, Return
    <3> QED  BY <2>1, <2>2, <2>3, <3>1 DEF SetStep
  <2>4. CASE list[i + 1] # val
    <3>1. list' = InsertAt(list, i, val) /\ status' = "OK"
      BY <1>4, <2>4 DEF FinishAppend, Return
    <3>2. Members(list') = Members(list) \cup {val}
      BY <1>1, <2>1, <3>1, InsertMembers
    <3> QED  BY <2>1, <2>2, <2>4, <3>1, <3>2 DEF SetStep
  <2> QED  BY <2>3, <2>4
<1>5. ASSUME FinishRemove PROVE SetStep
  <2>1. pc = "found" /\ op' = "RemoveFromList" /\ val' = val
    BY <1>5 DEF FinishRemove
  <2>2. val \in Members(list) <=> i < Len(list) /\ list[i + 1] = val
    BY <2>1, FoundIsMember
  <2>3. CASE i < Len(list) /\ list[i + 1] = val
    <3>1. list' = RemoveAt(list, i) /\ status' = "OK"
      BY <1>5, <2>3 DEF FinishRemove, Return
    <3>2. Members(list') = Members(list) \ {val}
      BY <2>1, <2>3, <3>1, RemoveMembers
    <3> QED  BY <2>1, <2>2, <2>3, <3>1, <3>2 DEF SetStep
  <2>4. CASE ~(i < Len(list) /\ list[i + 1] = val)
    <3>1. list' = list /\ status' = "ItemNotFound"
      BY <1>5, <2>4 DEF FinishRemove, Return
    <3> QED  BY <2>1, <2>2, <2>4, <3>1 DEF SetStep
  <2> QED  BY <2>3, <2>4
<1>6. ASSUME SearchStep \/ SearchEnd PROVE SetStep
  BY <1>6 DEF SearchStep, SearchEnd, SetStep
<1> QED  BY <1>2, <1>3, <1>4, <1>5, <1>6 DEF Next

\* For lists of any length, AppendToList and RemoveFromList act on the list as on the set
\* of its items, and report truly whether the item was in it.
THEOREM ListActsAsSet == Spec => ActsAsSet
<1>1. Inv /\ [Next]_vars => [SetStep]_vars
  BY SetSteps
<1> QED  BY <1>1, ListSorted, PTL DEF Spec, ActsAsSet
=============================================================================
