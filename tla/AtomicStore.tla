----------------------------- MODULE AtomicStore -----------------------------
(***************************************************************************)
(* What a storage server promises to its callers (the comments of          *)
(* storageserver_api.go), leases, revocations and locks left out: a call   *)
(* is answered in one step, from the value its key has in that step.       *)
(***************************************************************************)
CONSTANTS Procs, Keys, KeyRange, Items, Nil

VARIABLES
  storage,  \* storage[k]: the items under k, or Nil
  req,      \* req[p]: the call p waits for, or Nil
  reply     \* reply[p]: its answer, or Nil

vars == <<storage, req, reply>>

Ops     == {"Get", "GetList", "Put", "Delete", "AppendToList", "RemoveFromList"}
Request == [op: Ops, key: Keys, item: Items, want: BOOLEAN]

Init ==
  /\ storage = [k \in Keys |-> Nil]
  /\ req = [p \in Procs |-> Nil]
  /\ reply = [p \in Procs |-> Nil]

\* The answer to request r on a key whose value is v, and the value it leaves.
Outcome(r, v) ==
  LET Say(status, val, next) == [status |-> status, val |-> val, next |-> next] IN
  CASE r.key \notin KeyRange -> Say("WrongServer", Nil, v)
    [] r.key \in KeyRange /\ r.op \in {"Get", "GetList"} ->
         IF v = Nil THEN Say("KeyNotFound", Nil, v) ELSE Say("OK", v, v)
    [] r.key \in KeyRange /\ r.op = "Put" -> Say("OK", Nil, {r.item})
    [] r.key \in KeyRange /\ r.op = "Delete" ->
         IF v = Nil THEN Say("KeyNotFound", Nil, v) ELSE Say("OK", Nil, Nil)
    [] r.key \in KeyRange /\ r.op = "AppendToList" ->
         IF v = Nil THEN Say("OK", Nil, {r.item})
         ELSE IF r.item \in v THEN Say("ItemExists", Nil, v)
         ELSE Say("OK", Nil, v \cup {r.item})
    [] r.key \in KeyRange /\ r.op = "RemoveFromList" ->
         IF v = Nil THEN Say("ItemNotFound", Nil, v)
         ELSE IF r.item \in v THEN Say("OK", Nil, v \ {r.item})
         ELSE Say("ItemNotFound", Nil, v)

Call(p) ==
  /\ req[p] = Nil
  /\ \E r \in Request : req' = [req EXCEPT ![p] = r]
  /\ UNCHANGED <<storage, reply>>

\* The call takes effect and is answered; whether a lease comes with it is left open.
Execute(p) ==
  LET o == Outcome(req[p], storage[req[p].key]) IN
  /\ req[p] # Nil /\ reply[p] = Nil
  /\ storage' = [storage EXCEPT ![req[p].key] = o.next]
  /\ \E lease \in BOOLEAN :
       reply' = [reply EXCEPT ![p] = [status |-> o.status, val |-> o.val, lease |-> lease]]
  /\ UNCHANGED req

\* Callers take their answers, or give up on their calls.
Leave(P) ==
  /\ req' = [p \in Procs |-> IF p \in P THEN Nil ELSE req[p]]
  /\ reply' = [p \in Procs |-> IF p \in P THEN Nil ELSE reply[p]]
  /\ UNCHANGED storage

Next ==
  \/ \E p \in Procs : Call(p) \/ Execute(p)
  \/ \E P \in SUBSET Procs : Leave(P)

Spec == Init /\ [][Next]_vars
=============================================================================
