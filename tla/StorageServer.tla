---------------------------- MODULE StorageServer ----------------------------
(***************************************************************************)
(* One storage server (storageserver/storageserver_impl.go) after its ring *)
(* has formed: its key-value map, the leases it has granted, and the       *)
(* handlers of its RPCs.  Every handler takes ss.lock for its whole body,  *)
(* and keeps it while revokeLease waits for the lease holders one by one,  *)
(* so an update is three kinds of steps: the one that takes the lock, one  *)
(* or more per lease holder, and FinishUpdate.  A handler that does not    *)
(* revoke is a single step.                                                *)
(***************************************************************************)
EXTENDS LeaseRpc

VARIABLES
  storage,  \* storage[k]: the items stored under k, or Nil
  tenants,  \* tenants[k][h]: age of h's lease record on k, or NoLease
  lock,     \* the goroutine whose update holds ss.lock, or Nil
  todo,     \* lease holders revokeLease has still to go through
  conns,    \* conns[h]: the cached client connection to h
  srvUp     \* the process runs

srvVars == <<storage, tenants, lock, todo, conns, srvUp>>

SrvTypeOK ==
  /\ storage \in [Keys -> {Nil} \cup Values]
  /\ tenants \in [Keys -> [Hosts -> Ages \cup {NoLease}]]
  /\ lock \in {Nil} \cup Procs
  /\ todo \in SUBSET Hosts
  /\ conns \in [Hosts -> {"none", "open", "broken"}]
  /\ srvUp \in BOOLEAN

SrvInit ==
  /\ storage = [k \in Keys |-> Nil]
  /\ tenants = [k \in Keys |-> [h \in Hosts |-> NoLease]]
  /\ lock = Nil
  /\ todo = {}
  /\ conns = [h \in Hosts |-> "none"]
  /\ srvUp = TRUE

Tenants(k) == {h \in Hosts : tenants[k][h] # NoLease}

keyRangeContains(k) == k \in KeyRange

\* The handler of p's call gets ss.lock (after the range check, made without it).
Enter(p, ops) ==
  /\ srvUp
  /\ Waiting(p)
  /\ req[p].op \in ops
  /\ keyRangeContains(req[p].key)
  /\ lock = Nil

-----------------------------------------------------------------------------
(* Handlers that answer in one step.                                       *)

\* A key of another server is refused before the lock is asked for.
RefuseKey(p) ==
  /\ srvUp
  /\ Waiting(p)
  /\ ~keyRangeContains(req[p].key)
  /\ Answer(p, "WrongServer", Nil, FALSE)
  /\ UNCHANGED <<req, callee, done, late, hostUp, srvVars>>

\* A host that is on the list already keeps its old record and its old time.
recordLease(k, h) ==
  tenants' = [tenants EXCEPT ![k][h] = IF @ = NoLease THEN 0 ELSE @]

\* Get and GetList of a stored key: the value, and a lease if one is wanted.
Grant(p) ==
  LET k == req[p].key IN
  /\ Enter(p, Reads)
  /\ storage[k] # Nil
  /\ Answer(p, "OK", storage[k], req[p].want)
  /\ IF req[p].want THEN recordLease(k, HostOf[p]) ELSE UNCHANGED tenants
  /\ UNCHANGED <<req, callee, done, late, hostUp, storage, lock, todo, conns, srvUp>>

\* The early returns: nothing is stored under the key, or the item is (is not) there.
Reject(p) ==
  LET r == req[p]
      v == storage[r.key]
  IN
  /\ \/ /\ Enter(p, Reads \cup {"Delete"})
        /\ v = Nil
        /\ Answer(p, "KeyNotFound", Nil, FALSE)
     \/ /\ Enter(p, {"AppendToList"})
        /\ v # Nil /\ r.item \in v
        /\ Answer(p, "ItemExists", Nil, FALSE)
     \/ /\ Enter(p, {"RemoveFromList"})
        /\ v # Nil => r.item \notin v
        /\ Answer(p, "ItemNotFound", Nil, FALSE)
  /\ UNCHANGED <<req, callee, done, late, hostUp, srvVars>>

\* AppendToList to a key that is not stored, or whose list is empty: no revocation.
AppendFirst(p) ==
  LET r == req[p] IN
  /\ Enter(p, {"AppendToList"})
  /\ storage[r.key] \in {Nil, {}}
  /\ storage' = [storage EXCEPT ![r.key] = {r.item}]
  /\ Answer(p, "OK", Nil, FALSE)
  /\ UNCHANGED <<req, callee, done, late, hostUp, tenants, lock, todo, conns, srvUp>>

-----------------------------------------------------------------------------
(* Updates that revoke.                                                    *)

\* The handler calls revokeLease, which walks the key's lease records.
StartRevoke(p) ==
  /\ lock' = p
  /\ todo' = Tenants(req[p].key)
  /\ UNCHANGED <<rpcVars, storage, tenants, conns, srvUp>>

Put(p) == Enter(p, {"Put"}) /\ StartRevoke(p)

\* Mutant: the key is removed at once, without revokeLease.
DeleteUnrevoked(p) ==
  /\ Enter(p, {"Delete"})
  /\ storage[req[p].key] # Nil
  /\ storage' = [storage EXCEPT ![req[p].key] = Nil]
  /\ Answer(p, "OK", Nil, FALSE)
  /\ UNCHANGED <<req, callee, done, late, hostUp, tenants, lock, todo, conns, srvUp>>

Delete(p) ==
  /\ Enter(p, {"Delete"})
  /\ storage[req[p].key] # Nil
  /\ StartRevoke(p)

\* Mutant: the test for an item that is in the list already is missing.
AppendUnchecked(p) ==
  /\ Enter(p, {"AppendToList"})
  /\ storage[req[p].key] \notin {Nil, {}}
  /\ StartRevoke(p)

AppendToList(p) ==
  /\ Enter(p, {"AppendToList"})
  /\ storage[req[p].key] \notin {Nil, {}}
  /\ req[p].item \notin storage[req[p].key]
  /\ StartRevoke(p)

RemoveFromList(p) ==
  /\ Enter(p, {"RemoveFromList"})
  /\ storage[req[p].key] # Nil
  /\ req[p].item \in storage[req[p].key]
  /\ StartRevoke(p)

LockedKey == req[lock].key

\* One turn of the loop of revokeLease begins with lease holder h.
NextTenant(h) == srvUp /\ lock # Nil /\ callee = Nil /\ h \in todo

\* The lease has run out: the holder is not told.
SkipExpired(h) ==
  /\ NextTenant(h)
  /\ tenants[LockedKey][h] > LeaseTerm
  /\ todo' = todo \ {h}
  /\ UNCHANGED <<rpcVars, storage, tenants, lock, conns, srvUp>>

\* getAppServer finds or opens the connection, and RevokeLease is called on it.
CallRevoke(h) ==
  /\ NextTenant(h)
  /\ tenants[LockedKey][h] <= LeaseTerm
  /\ conns[h] = "open" \/ (conns[h] = "none" /\ hostUp[h])
  /\ conns' = [conns EXCEPT ![h] = "open"]
  /\ callee' = h
  /\ done' = FALSE
  /\ UNCHANGED <<req, reply, late, hostUp, storage, tenants, lock, todo, srvUp>>

\* A connection to a process that has died since fails at once, and is kept.
CallBroken(h) ==
  /\ NextTenant(h)
  /\ tenants[LockedKey][h] <= LeaseTerm
  /\ conns[h] = "broken"
  /\ todo' = todo \ {h}
  /\ UNCHANGED <<rpcVars, storage, tenants, lock, conns, srvUp>>

\* getAppServer cannot dial the holder: log.Fatal ends the storage server.
DialFatal(h) ==
  /\ NextTenant(h)
  /\ tenants[LockedKey][h] <= LeaseTerm
  /\ conns[h] = "none" /\ ~hostUp[h]
  /\ srvUp' = FALSE
  /\ lock' = Nil
  /\ todo' = {}
  /\ UNCHANGED <<rpcVars, storage, tenants, conns>>

\* Mutant: the revocation is sent and not waited for.
RevokeNoWait ==
  /\ srvUp /\ callee # Nil
  /\ todo' = todo \ {callee}
  /\ callee' = Nil
  /\ done' = FALSE
  /\ UNCHANGED <<req, reply, late, hostUp, storage, tenants, lock, conns, srvUp>>

\* The select of revokeLease: the call is done, or the lease has run out.
RevokeDone ==
  /\ srvUp /\ callee # Nil
  /\ done
  /\ todo' = todo \ {callee}
  /\ callee' = Nil
  /\ done' = FALSE
  /\ UNCHANGED <<req, reply, late, hostUp, storage, tenants, lock, conns, srvUp>>

\* Mutant: revokeLease waits for the holder without a timeout.
RevokeForever == FALSE /\ UNCHANGED <<rpcVars, srvVars>>

RevokeTimeout ==
  /\ srvUp /\ callee # Nil
  /\ tenants[LockedKey][callee] >= LeaseTerm
  /\ todo' = todo \ {callee}
  /\ late' = IF done \/ late[callee][LockedKey] = MaxLate THEN late
             ELSE [late EXCEPT ![callee][LockedKey] = @ + 1]
  /\ callee' = Nil
  /\ done' = FALSE
  /\ UNCHANGED <<req, reply, hostUp, storage, tenants, lock, conns, srvUp>>

\* What the handler stores once revokeLease has returned.
Updated(r, v) ==
  CASE r.op = "Put"            -> {r.item}
    [] r.op = "Delete"         -> Nil
    [] r.op = "AppendToList"   -> v \cup {r.item}
    [] r.op = "RemoveFromList" -> v \ {r.item}
    [] OTHER                   -> v

\* revokeLease forgets the key's records; the handler stores, answers, unlocks.
FinishUpdate(p) ==
  LET k == req[p].key IN
  /\ srvUp /\ lock = p /\ todo = {}
  /\ tenants' = [tenants EXCEPT ![k] = [h \in Hosts |-> NoLease]]
  /\ storage' = [storage EXCEPT ![k] = Updated(req[p], @)]
  /\ Answer(p, "OK", Nil, FALSE)
  /\ lock' = Nil
  /\ UNCHANGED <<req, callee, done, late, hostUp, todo, conns, srvUp>>
=============================================================================
