----------------------------- MODULE LeaseSystem -----------------------------
(***************************************************************************)
(* A storage server and the libstores of the app servers that use it: the  *)
(* lease protocol as a whole, with the clock, crashes and restarts of app  *)
(* servers, and revocation callbacks that are slow or come too late.       *)
(*                                                                         *)
(* Two history variables follow the COPIES of a value that leave the       *)
(* server under a lease: a reply on its way, or a cache entry.  A copy is  *)
(* "guarded" from the moment the server grants the lease until the server  *)
(* stops protecting it although it still exists; the mark then says why:   *)
(*   expired      revokeLease skipped the holder or stopped waiting for it *)
(*   overtaken    RevokeLease ran while the copy was still on its way      *)
(*   emptyAppend  an append to an empty list did not revoke                *)
(*   deadConn     the revocation was sent on a broken connection           *)
(* No action reads the history variables.                                  *)
(***************************************************************************)
EXTENDS StorageServer, Libstore

VARIABLES
  replyMark,   \* replyMark[p]: the mark of the copy in p's reply
  cacheMark,   \* cacheMark[h][k]: the mark of the copy in h's cache
  crashes      \* crashes so far

histVars == <<replyMark, cacheMark>>
vars == <<rpcVars, srvVars, libVars, histVars, crashes>>

Marks == {"guarded", "expired", "overtaken", "emptyAppend", "deadConn"}

TypeOK ==
  /\ RpcTypeOK
  /\ SrvTypeOK
  /\ LibTypeOK
  /\ replyMark \in [Procs -> Marks]
  /\ cacheMark \in [Hosts -> [Keys -> Marks]]
  /\ crashes \in 0 .. MaxCrashes

Init ==
  /\ RpcInit
  /\ SrvInit
  /\ LibInit
  /\ replyMark = [p \in Procs |-> "guarded"]
  /\ cacheMark = [h \in Hosts |-> [k \in Keys |-> "guarded"]]
  /\ crashes = 0

-----------------------------------------------------------------------------
(* How the history variables follow the steps.                             *)

LeaseReply(p, h, k) == HostOf[p] = h /\ Replied(p) /\ reply[p].lease /\ req[p].key = k

\* The reply copies of k in hosts H that are still guarded get the mark.
MarkReplies(H, k, mark) ==
  [p \in Procs |->
     IF /\ \E h \in H : LeaseReply(p, h, k)
        /\ replyMark[p] = "guarded"
     THEN mark ELSE replyMark[p]]

MarkCache(H, k, mark) ==
  [h \in Hosts |->
     [cacheMark[h] EXCEPT ![k] =
        IF h \in H /\ cache[h][k] # Nil /\ @ = "guarded" THEN mark ELSE @]]

Mark(H, k, mark) ==
  /\ replyMark' = MarkReplies(H, k, mark)
  /\ cacheMark' = MarkCache(H, k, mark)

-----------------------------------------------------------------------------
(* Steps of the storage server.                                            *)

ServeFirst(p) ==
  /\ AppendFirst(p)
  /\ Mark(Hosts, req[p].key, "emptyAppend")
  /\ UNCHANGED <<libVars, crashes>>

ServeOther(p) ==
  /\ \/ RefuseKey(p) \/ Grant(p) \/ Reject(p)
     \/ Put(p) \/ Delete(p) \/ AppendToList(p) \/ RemoveFromList(p)
     \/ FinishUpdate(p)
  /\ UNCHANGED <<libVars, histVars, crashes>>

\* The server goes on without having reached h, because the lease has run out.
LeaveExpired(h) ==
  /\ SkipExpired(h) \/ (callee = h /\ RevokeTimeout)
  /\ Mark({h}, LockedKey, "expired")
  /\ UNCHANGED <<libVars, crashes>>

LeaveBroken(h) ==
  /\ CallBroken(h)
  /\ Mark({h}, LockedKey, "deadConn")
  /\ UNCHANGED <<libVars, crashes>>

RevokeStep(h) ==
  /\ CallRevoke(h) \/ (callee = h /\ RevokeDone)
  /\ UNCHANGED <<libVars, histVars, crashes>>

ServerDies(h) == DialFatal(h) /\ UNCHANGED <<libVars, histVars, crashes>>

\* A libstore's call to a storage server that has died fails.
CallFails(p) ==
  /\ ~srvUp /\ Waiting(p) /\ hostUp[HostOf[p]]
  /\ req' = [req EXCEPT ![p] = Nil]
  /\ held' = [held EXCEPT ![p] = "none"]
  /\ UNCHANGED <<reply, callee, done, late, hostUp, srvVars, history, granted, cache,
                 recycling, dialed, histVars, crashes>>

-----------------------------------------------------------------------------
(* Steps of the libstores.                                                 *)

\* A call that goes to the storage server needs a connection: an open one, or one that
\* can be opened now.
Connects(p) == srvUp \/ HostOf[p] \in dialed

ClientCall(p, c) ==
  /\ \/ ReadCached(p, c)
     \/ Connects(p) /\ ReadRemote(p, c)
     \/ Connects(p) /\ SendUpdate(p, c)
  /\ UNCHANGED <<srvVars, histVars, crashes>>

ClientReturn(p) ==
  /\ \/ /\ ReturnStatus(p)
        /\ UNCHANGED cacheMark
     \/ /\ ReturnRead(p)
        /\ cacheMark' = IF req[p].want
                        THEN [cacheMark EXCEPT ![HostOf[p]][req[p].key] = replyMark[p]]
                        ELSE cacheMark
  /\ replyMark' = [replyMark EXCEPT ![p] = "guarded"]
  /\ UNCHANGED <<srvVars, crashes>>

Recycler(h) ==
  /\ \/ (\E k \in Keys : RecyclePick(h, k)) /\ UNCHANGED cacheMark
     \/ /\ Recycle(h)
        /\ cacheMark' = [cacheMark EXCEPT ![h] =
                           [k \in Keys |-> IF cache'[h][k] = Nil THEN "guarded" ELSE @[k]]]
  /\ UNCHANGED <<srvVars, replyMark, crashes>>

\* RevokeLease runs for the call the server waits for, or for one it gave up on.
RevokeArrives(h, k) ==
  \/ /\ callee = h /\ ~done /\ k = LockedKey
     /\ done' = TRUE
     /\ replyMark' = MarkReplies({h}, k, "overtaken")
     /\ UNCHANGED late
  \/ /\ late[h][k] > 0
     /\ late' = [late EXCEPT ![h][k] = @ - 1]
     /\ UNCHANGED <<done, replyMark>>

RevokeLease(h, k) ==
  /\ RevokeArrives(h, k)
  /\ DropLease(h, k)
  /\ cacheMark' = [cacheMark EXCEPT ![h][k] = "guarded"]
  /\ UNCHANGED <<req, reply, callee, hostUp, srvVars, crashes>>

\* App server h dies: its memory is gone, its connections break, and a call that the
\* storage server waits for completes with an error.
HostDies(h) ==
  /\ hostUp[h]
  /\ hostUp' = [hostUp EXCEPT ![h] = FALSE]
  /\ history' = [history EXCEPT ![h] = [k \in Keys |-> <<>>]]
  /\ granted' = [granted EXCEPT ![h] = [k \in Keys |-> FALSE]]
  /\ cache' = [cache EXCEPT ![h] = [k \in Keys |-> Nil]]
  /\ cacheMark' = [cacheMark EXCEPT ![h] = [k \in Keys |-> "guarded"]]
  /\ held' = [p \in Procs |-> IF HostOf[p] = h THEN "none" ELSE held[p]]
  /\ recycling' = [recycling EXCEPT ![h] = Nil]
  /\ dialed' = dialed \ {h}
  /\ late' = [late EXCEPT ![h] = [k \in Keys |-> 0]]
  /\ done' = (done \/ callee = h)
  /\ conns' = [conns EXCEPT ![h] = IF @ = "open" THEN "broken" ELSE @]
  /\ UNCHANGED <<req, reply, callee, storage, tenants, lock, todo, srvUp, replyMark>>

\* RevokeLease dereferences a record that does not exist.
RevokePanic(h, k) ==
  /\ (callee = h /\ ~done /\ k = LockedKey) \/ late[h][k] > 0
  /\ RevokePanics(h, k)
  /\ HostDies(h)
  /\ UNCHANGED crashes

\* getStorageServer cannot dial the storage server: log.Fatal ends the app server.
ClientFatal(p, c) ==
  /\ Call(p, c)
  /\ ~Connects(p)
  /\ c.op \in Reads => ~Served(HostOf[p], c.key)
  /\ HostDies(HostOf[p])
  /\ UNCHANGED crashes

Crash(h) ==
  /\ crashes < MaxCrashes
  /\ HostDies(h)
  /\ crashes' = crashes + 1

\* The app server is started again, once the calls of its former life have drained.  It
\* comes up only if NewLibstore reaches the storage server.
Restart(h) ==
  LET mine == {p \in Procs : HostOf[p] = h} IN
  /\ srvUp /\ ~hostUp[h]
  /\ \A p \in mine : ~Waiting(p)
  /\ hostUp' = [hostUp EXCEPT ![h] = TRUE]
  /\ req' = [p \in Procs |-> IF p \in mine THEN Nil ELSE req[p]]
  /\ reply' = [p \in Procs |-> IF p \in mine THEN Nil ELSE reply[p]]
  /\ replyMark' = [p \in Procs |-> IF p \in mine THEN "guarded" ELSE replyMark[p]]
  /\ UNCHANGED <<callee, done, late, srvVars, libVars, cacheMark, crashes>>

\* One second passes: every time stamp is a second older.
Tick ==
  /\ tenants' = [k \in Keys |-> [h \in Hosts |-> Older(tenants[k][h])]]
  /\ history' = [h \in Hosts |-> [k \in Keys |->
                   [i \in 1 .. Len(history[h][k]) |-> Older(history[h][k][i])]]]
  /\ UNCHANGED <<rpcVars, storage, lock, todo, conns, srvUp, granted, cache, held, recycling,
                 dialed, replyMark, cacheMark, crashes>>

-----------------------------------------------------------------------------
Serve(p) == ServeFirst(p) \/ ServeOther(p)

Revoking(h) == LeaveExpired(h) \/ LeaveBroken(h) \/ RevokeStep(h) \/ ServerDies(h)

Step ==
  \/ \E p \in Procs : Serve(p) \/ CallFails(p) \/ ClientReturn(p)
  \/ \E p \in Procs, c \in Workload : ClientCall(p, c) \/ ClientFatal(p, c)
  \/ \E h \in Hosts : Revoking(h) \/ Recycler(h) \/ Crash(h) \/ Restart(h)
  \/ \E h \in Hosts, k \in Keys : RevokeLease(h, k) \/ RevokePanic(h, k)

Next == Step \/ Tick

Spec == Init /\ [][Next]_vars

\* A waiting goroutine gets ss.lock in the end (a Go mutex does not starve a waiter), the
\* handler that has it goes on, time passes, and a call to a dead server returns an error.
\* Nothing is assumed of the app servers: a RevokeLease call may never be answered.
Fairness ==
  /\ \A p \in Procs : SF_vars(Serve(p)) /\ WF_vars(CallFails(p))
  /\ \A h \in Hosts : WF_vars(Revoking(h))
  /\ WF_vars(Tick)

FairSpec == Spec /\ Fairness

-----------------------------------------------------------------------------
(* Correctness.                                                            *)

\* The value v that left the server for host h under a lease on k is protected: it is
\* the stored one, the server knows h as a lease holder, and the update that is in
\* progress on k, if any, has still to deal with h.
Protected(h, k, v) ==
  /\ storage[k] = v
  /\ tenants[k][h] # NoLease
  /\ lock # Nil /\ k = LockedKey => h \in todo /\ ~(callee = h /\ done)

\* Lease coherence.  Every copy of a value that the server granted under a lease, in a
\* reply on its way or in a libstore's cache, equals the stored value and is tracked by
\* the server, whatever updates, revocations, expiries, recycling and crashes interleave,
\* until the server gives the copy up for one of the four reasons a mark can name
\* (recordLease, revokeLease, RevokeLease, cacheRecycler).
GuardedCopiesCurrent ==
  /\ \A h \in Hosts, k \in Keys :
       cache[h][k] # Nil /\ cacheMark[h][k] = "guarded" => Protected(h, k, cache[h][k])
  /\ \A p \in Procs :
       Replied(p) /\ reply[p].lease /\ replyMark[p] = "guarded" /\ hostUp[HostOf[p]]
         => Protected(HostOf[p], req[p].key, reply[p].val)

\* The log.Fatal("Cache inconsistent") of Get and GetList is out of reach: a record that
\* says Granted always has its value in the cache, although records, cache and the
\* pointers of reads in flight are changed by reads, RevokeLease and cacheRecycler.
GrantedIsCached ==
  \A h \in Hosts, k \in Keys : granted[h][k] => cache[h][k] # Nil /\ HasRecord(h, k)

\* A key that is not stored has no lease records (only Delete removes a key, and it
\* revokes first), so an AppendToList or Put that creates it has no one to tell.
LeaseOnlyOnStoredKey ==
  \A k \in Keys : Tenants(k) # {} => storage[k] # Nil

\* What a handler checked before revokeLease still holds when it writes after it: the
\* key is stored, the item to append is not in the list, the item to remove is.  (The
\* index BinarySearchString found before the revocation is used after it.)
UpdateChecked ==
  lock # Nil =>
    LET r == req[lock]
        v == storage[r.key]
    IN
    /\ srvUp /\ Waiting(lock)
    /\ r.op \in Updates /\ r.key \in KeyRange
    /\ r.op # "Put" => v # Nil
    /\ r.op = "AppendToList" => v # {} /\ r.item \notin v
    /\ r.op = "RemoveFromList" => r.item \in v

\* A revocation is waited for only on behalf of the update that holds ss.lock.
CalleeOfUpdate == callee # Nil => lock # Nil /\ callee \in todo

\* The answer to a successful read carries a value, and a lease if one was asked for.
ReadReplies ==
  \A p \in Procs :
    Replied(p) /\ req[p].op \in Reads /\ reply[p].status = "OK"
      => reply[p].val # Nil /\ reply[p].lease = req[p].want

\* The inductive invariant: the safety properties together with what keeps them.
IndInv ==
  /\ TypeOK
  /\ UpdateChecked
  /\ CalleeOfUpdate
  /\ ReadReplies
  /\ GrantedIsCached
  /\ LeaseOnlyOnStoredKey
  /\ GuardedCopiesCurrent

\* The handlers are atomic although an update lets go of nothing but time between its
\* checks and its write: the server implements AtomicStore.
Atomic == INSTANCE AtomicStore
IsAtomic == Atomic!Spec

\* Every call to the storage server is answered, even if lease holders are dead or never
\* answer RevokeLease (the timeout of revokeLease), unless its caller dies.
EveryCallAnswered ==
  \A p \in Procs : Waiting(p) ~> (~Waiting(p) \/ ~hostUp[HostOf[p]])

-----------------------------------------------------------------------------
(* What comments and tests of the repository say, and the code does not do. *)

\* tests/libtest/libtest.go: a revocation must not kill the app server.
HostsStayUp == crashes = 0 => \A h \in Hosts : hostUp[h]

\* tests/libtest/libtest.go: once a lease is revoked the cached value is not used.  A
\* RevokeLease that overtakes the reply with the lease finds nothing to revoke, and the
\* stale value is cached after it.
RevocationSticks ==
  \A h \in Hosts, k \in Keys :
    Served(h, k) /\ cacheMark[h][k] = "overtaken" => cache[h][k] = storage[k]

\* rpc/storagerpc/proto.go: a lease is valid for LeaseSeconds, and the server waits
\* LeaseGuardSeconds more before it invalidates it, so a value whose lease the server has
\* given up is not served any more.  But Get and GetList count the seconds from the last
\* query, and recordLease leaves the time of the first grant when a lease is renewed.
ExpiredLeaseNotServed ==
  \A h \in Hosts, k \in Keys :
    Served(h, k) /\ cacheMark[h][k] = "expired" => cache[h][k] = storage[k]

\* tests/storagetest/storagetest.go: an update of a key whose lease has not expired is
\* announced to the holder, so the holder does not serve the old value.  AppendToList to a
\* stored list that is empty returns before revokeLease.
AppendRevokes ==
  \A h \in Hosts, k \in Keys :
    Served(h, k) /\ cacheMark[h][k] = "emptyAppend" => cache[h][k] = storage[k]
=============================================================================
