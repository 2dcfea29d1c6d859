------------------------------ MODULE MCLease ------------------------------
(***************************************************************************)
(* Small instances of LeaseSystem for TLC.  Goroutines r1 and r2 run in    *)
(* app server h1, w runs in h2.                                            *)
(***************************************************************************)
EXTENDS LeaseSystem

CONSTANTS h1, h2, r1, r2, w, x, y, a, b

TwoApps == [p \in Procs |-> IF p = w THEN h2 ELSE h1]

Do(p, ops, k, items) == [proc: {p}, op: ops, key: {k}, item: items]

\* Two app servers update one list, each with an item of its own, and the one that may hold
\* the lease reads it too.  Until the second item comes the list becomes empty and full again;
\* an append meets an empty list, one with the item and one with the other item, and while
\* an update waits for its revocations the other one waits for the lock.
SharedWork ==
  Do(r1, {"GetList"}, x, {a})
    \cup Do(r2, {"AppendToList"}, x, {b})
    \cup Do(w, {"AppendToList", "RemoveFromList"}, x, {a})

\* A key that comes and goes, and one (where KeyRange leaves it out) of another server.  The
\* lease holder writes too: if it dies then, the server meets the holder it cannot dial.
LiveWork ==
  Do(r1, {"Get", "Put"}, x, {a})
    \cup Do(w, {"Put", "Delete"}, x, {a}) \cup Do(w, {"Put"}, y, {a})

\* A value that is overwritten with others and deleted.
ScalarWork == Do(r1, {"Get"}, x, {a}) \cup Do(w, {"Put"}, x, {a, b}) \cup Do(w, {"Delete"}, x, {a})
=============================================================================
