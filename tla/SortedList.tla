------------------------------ MODULE SortedList ------------------------------
(***************************************************************************)
(* The stored list of one key, element by element: the index arithmetic of *)
(* AppendToList and RemoveFromList (storageserver/storageserver_impl.go)   *)
(* with the loop of util.BinarySearchString.  The same loop, over another  *)
(* element type, is BinarySearchUint32 (util/common.go, and libstore's own *)
(* copy), which keeps the ring of node IDs sorted, and                     *)
(* BinarySearchLeaseRecord, which keeps the lease records of a key sorted  *)
(* by host.                                                                *)
(*                                                                         *)
(* The handlers hold ss.lock, so the calls come one after the other.  What *)
(* is shown here is what the other modules assume: they represent a stored *)
(* list by the set of its items, and a ring search by its result.          *)
(*                                                                         *)
(* Indices are the code's, from 0; vals[n] of the code is list[n + 1].     *)
(***************************************************************************)
EXTENDS Integers, Sequences

CONSTANT Items       \* the strings that may be stored, as numbers in the same order

ASSUME ItemsAssumption == Items \subseteq Int

VARIABLES
  list,     \* ss.storage[key]
  op,       \* the handler that runs
  val,      \* its args.Value
  pc,       \* where it is: "idle", "search" (in the loop), "found" (after it)
  i, j,     \* the loop's variables; after the loop, i is the index it returned
  status    \* the reply of the latest handler

vars == <<list, op, val, pc, i, j, status>>

Ops == {"AppendToList", "RemoveFromList"}

TypeOK ==
  /\ list \in Seq(Items)
  /\ op \in Ops
  /\ val \in Items
  /\ pc \in {"idle", "search", "found"}
  /\ i \in Int /\ j \in Int
  /\ status \in {"none", "OK", "ItemExists", "ItemNotFound"}

Init ==
  /\ list = <<>>
  /\ op = "AppendToList"
  /\ val \in Items
  /\ pc = "idle"
  /\ i = 0 /\ j = 0
  /\ status = "none"

-----------------------------------------------------------------------------
(* The slices.                                                             *)

\* append(values, ""), copy(values[at+1:], values[at:]), values[at] = x
InsertAt(s, at, x) ==
  [n \in 1 .. Len(s) + 1 |-> IF n <= at THEN s[n] ELSE IF n = at + 1 THEN x ELSE s[n - 1]]

\* copy(values[at:], values[at+1:]), values[:len(values)-1]
RemoveAt(s, at) == [n \in 1 .. Len(s) - 1 |-> IF n <= at THEN s[n] ELSE s[n + 1]]

-----------------------------------------------------------------------------
(* The handlers.                                                           *)

Return(st) == pc' = "idle" /\ status' = st

StartSearch(o, x) ==
  /\ pc' = "search"
  /\ op' = o /\ val' = x
  /\ i' = 0 /\ j' = Len(list) - 1
  /\ UNCHANGED <<list, status>>

\* Mutant: an item equal to the last one is appended too.
AppendToListTail(x) ==
  /\ pc = "idle"
  /\ \/ /\ Len(list) >= 1 => list[Len(list)] <= x
        /\ list' = Append(list, x)
        /\ Return("OK")
        /\ op' = "AppendToList" /\ val' = x
        /\ UNCHANGED <<i, j>>
     \/ /\ Len(list) >= 1 /\ list[Len(list)] > x
        /\ StartSearch("AppendToList", x)

\* An empty list, and an item beyond the last one, need no search.
AppendToList(x) ==
  /\ pc = "idle"
  /\ \/ /\ Len(list) >= 1 => list[Len(list)] < x
        /\ list' = Append(list, x)
        /\ Return("OK")
        /\ op' = "AppendToList" /\ val' = x
        /\ UNCHANGED <<i, j>>
     \/ /\ Len(list) >= 1 /\ list[Len(list)] >= x
        /\ StartSearch("AppendToList", x)

RemoveFromList(x) ==
  /\ pc = "idle"
  /\ \/ /\ Len(list) < 1
        /\ Return("ItemNotFound")
        /\ op' = "RemoveFromList" /\ val' = x
        /\ UNCHANGED <<list, i, j>>
     \/ /\ Len(list) >= 1
        /\ StartSearch("RemoveFromList", x)

\* Mutant: the upper bound passes over an element that was not looked at.
SearchStepWide ==
  LET mid == (i + j) \div 2 IN
  /\ pc = "search" /\ i <= j
  /\ \/ list[mid + 1] = val /\ i' = mid /\ pc' = "found" /\ UNCHANGED j
     \/ list[mid + 1] < val /\ i' = mid + 1 /\ UNCHANGED <<j, pc>>
     \/ list[mid + 1] > val /\ j' = mid - 2 /\ UNCHANGED <<i, pc>>
  /\ UNCHANGED <<list, op, val, status>>

\* Mutant: the lower bound does not move past the middle.
SearchStepStuck ==
  LET mid == (i + j) \div 2 IN
  /\ pc = "search" /\ i <= j
  /\ \/ list[mid + 1] = val /\ i' = mid /\ pc' = "found" /\ UNCHANGED j
     \/ list[mid + 1] < val /\ i' = mid /\ UNCHANGED <<j, pc>>
     \/ list[mid + 1] > val /\ j' = mid - 1 /\ UNCHANGED <<i, pc>>
  /\ UNCHANGED <<list, op, val, status>>

\* One turn of the loop of BinarySearchString.
SearchStep ==
  LET mid == (i + j) \div 2 IN
  /\ pc = "search" /\ i <= j
  /\ \/ list[mid + 1] = val /\ i' = mid /\ pc' = "found" /\ UNCHANGED j
     \/ list[mid + 1] < val /\ i' = mid + 1 /\ UNCHANGED <<j, pc>>
     \/ list[mid + 1] > val /\ j' = mid - 1 /\ UNCHANGED <<i, pc>>
  /\ UNCHANGED <<list, op, val, status>>

SearchEnd ==
  /\ pc = "search" /\ i > j
  /\ pc' = "found"
  /\ UNCHANGED <<list, op, val, i, j, status>>

\* AppendToList reads values[i] without asking whether i < len(values).
FinishAppend ==
  /\ pc = "found" /\ op = "AppendToList"
  /\ \/ /\ list[i + 1] = val
        /\ Return("ItemExists")
        /\ UNCHANGED list
     \/ /\ list[i + 1] # val
        /\ list' = InsertAt(list, i, val)
        /\ Return("OK")
  /\ UNCHANGED <<op, val, i, j>>

FinishRemove ==
  LET exists == i < Len(list) /\ list[i + 1] = val IN
  /\ pc = "found" /\ op = "RemoveFromList"
  /\ \/ /\ exists
        /\ list' = RemoveAt(list, i)
        /\ Return("OK")
     \/ /\ ~exists
        /\ Return("ItemNotFound")
        /\ UNCHANGED list
  /\ UNCHANGED <<op, val, i, j>>

Next ==
  \/ \E x \in Items : AppendToList(x) \/ RemoveFromList(x)
  \/ SearchStep \/ SearchEnd \/ FinishAppend \/ FinishRemove

Spec == Init /\ [][Next]_vars

\* A handler that has begun goes on: nothing in it waits.
Fairness == WF_vars(SearchStep \/ SearchEnd \/ FinishAppend \/ FinishRemove)

FairSpec == Spec /\ Fairness

-----------------------------------------------------------------------------
(* Correctness.                                                            *)

\* The list is sorted and free of duplicates, whatever has been added and removed.
Sorted == \A m, n \in 1 .. Len(list) : m < n => list[m] < list[n]

\* The loop of BinarySearchString narrows [i, j] and loses nothing: what is left of i is
\* smaller than val, what is right of j is greater.
SearchBounds ==
  pc = "search" =>
    /\ 0 <= i /\ i <= j + 1 /\ j < Len(list)
    /\ \A n \in 1 .. i : list[n] < val
    /\ \A n \in (j + 2) .. Len(list) : list[n] > val

\* BinarySearchString returns the place of val in the sorted list: the index of val if it
\* is there, else the index at which it belongs.  For AppendToList that index lies in the
\* list, so that values[i] does not panic.
FoundPlace ==
  pc = "found" =>
    /\ 0 <= i /\ i <= Len(list)
    /\ \A n \in 1 .. i : list[n] < val
    /\ \A n \in (i + 1) .. Len(list) : list[n] >= val
    /\ op = "AppendToList" => i < Len(list)

\* A search of AppendToList is for an item no greater than the last one.
SearchedInside ==
  pc # "idle" /\ op = "AppendToList" => Len(list) >= 1 /\ list[Len(list)] >= val

Inv == TypeOK /\ Sorted /\ SearchBounds /\ FoundPlace /\ SearchedInside

Members(s) == {s[n] : n \in 1 .. Len(s)}

\* Seen as the set of its items, the list is a set: each handler that returns has added
\* or removed its item and says OK, or has left the set alone because the item was (was
\* not) in it and says so.  This is the representation the lease modules use.
SetStep ==
  \/ pc' # "idle" /\ list' = list
  \/ /\ op' = "AppendToList"
     /\ Members(list') = Members(list) \cup {val'}
     /\ status' = IF val' \in Members(list) THEN "ItemExists" ELSE "OK"
  \/ /\ op' = "RemoveFromList"
     /\ Members(list') = Members(list) \ {val'}
     /\ status' = IF val' \in Members(list) THEN "OK" ELSE "ItemNotFound"

ActsAsSet == [][SetStep]_vars

\* The loop ends: every call returns.
CallReturns == (pc # "idle") ~> (pc = "idle")
=============================================================================
