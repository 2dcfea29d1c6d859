------------------------------ MODULE Libstore ------------------------------
(***************************************************************************)
(* The libstores (libstore/libstore_impl.go), one per app server: the      *)
(* lease records and cache, the client calls, the RevokeLease callback and *)
(* the cacheRecycler goroutine.  ls.lock is held only between two RPCs, so *)
(* each critical section is one step, and a read that goes to the storage  *)
(* server is two: ReadRemote and, when the reply is back, ReturnRead.      *)
(*                                                                         *)
(* ls.records[key] exists exactly when its history is not empty.  A read   *)
(* keeps the POINTER to the record it saw across its RPC; held[p] says     *)
(* what that pointer is: "none" (recExists was false), "current" (still    *)
(* the record in ls.records) or "orphan" (the map has since lost or        *)
(* replaced it: writes through the pointer are seen by no one).            *)
(***************************************************************************)
EXTENDS LeaseRpc

VARIABLES
  history,   \* history[h][k]: ages of the latest queries, oldest first; <<>>: no record
  granted,   \* granted[h][k]: rec.Granted
  cache,     \* cache[h][k]: the cached items, or Nil
  held,      \* held[p]: the record p's read in flight points to
  recycling, \* recycling[h]: the key cacheRecycler is about to look at, or Nil
  dialed     \* hosts whose libstore has its connection to the storage server (ls.conns)

libVars == <<history, granted, cache, held, recycling, dialed>>

LibTypeOK ==
  /\ history \in [Hosts -> [Keys -> Seq(Ages)]]
  /\ \A h \in Hosts, k \in Keys : Len(history[h][k]) <= QueryCacheThresh
  /\ granted \in [Hosts -> [Keys -> BOOLEAN]]
  /\ cache \in [Hosts -> [Keys -> {Nil} \cup Values]]
  /\ held \in [Procs -> {"none", "current", "orphan"}]
  /\ recycling \in [Hosts -> {Nil} \cup Keys]
  /\ dialed \in SUBSET Hosts

LibInit ==
  /\ history = [h \in Hosts |-> [k \in Keys |-> <<>>]]
  /\ granted = [h \in Hosts |-> [k \in Keys |-> FALSE]]
  /\ cache = [h \in Hosts |-> [k \in Keys |-> Nil]]
  /\ held = [p \in Procs |-> "none"]
  /\ recycling = [h \in Hosts |-> Nil]
  /\ dialed = {}

HasRecord(h, k) == history[h][k] # <<>>

\* The latest query is more than ValidSeconds old (the server always grants LeaseSeconds).
Expired(h, k) == HasRecord(h, k) /\ history[h][k][Len(history[h][k])] > LeaseSeconds

\* A read of k is answered from the cache.
Served(h, k) == Mode = "Normal" /\ granted[h][k] /\ ~Expired(h, k)

wantLease(h, k) ==
  \/ Mode = "Always"
  \/ /\ Mode = "Normal"
     /\ Len(history[h][k]) >= QueryCacheThresh
     /\ history[h][k][1] < QueryCacheSeconds

\* Mutant: the history is not trimmed.
QueriedUntrimmed(s) == Append(s, 0)

\* Append now to a history and keep its last QueryCacheThresh entries.
Queried(s) ==
  LET t == Append(s, 0) IN
  IF Len(t) > QueryCacheThresh THEN SubSeq(t, Len(t) - QueryCacheThresh + 1, Len(t)) ELSE t

\* Of host h's reads in flight on k, other than p's, none points to the current record now.
Orphaned(h, k, p) ==
  [q \in Procs |->
     IF q # p /\ HostOf[q] = h /\ held[q] = "current" /\ req[q].key = k THEN "orphan" ELSE held[q]]

-----------------------------------------------------------------------------
(* The client calls, made by goroutine p of a running app server.          *)

Call(p, c) == c \in Workload /\ c.proc = p /\ Idle(p) /\ hostUp[HostOf[p]]

\* getStorageServer, and the RPC on the connection it returns.
Send(p, c, want) ==
  /\ req' = [req EXCEPT ![p] = [op |-> c.op, key |-> c.key, item |-> c.item, want |-> want]]
  /\ dialed' = dialed \cup {HostOf[p]}

\* Get and GetList under a lease.  (The log.Fatal for a leased key that is not in the
\* cache is not an action: GrantedIsCached shows that it is never reached.)
ReadCached(p, c) ==
  LET h == HostOf[p] IN
  /\ Call(p, c) /\ c.op \in Reads
  /\ Served(h, c.key)
  /\ cache[h][c.key] # Nil
  /\ history' = [history EXCEPT ![h][c.key] = Queried(@)]
  /\ UNCHANGED <<rpcVars, granted, cache, held, recycling, dialed>>

\* Get and GetList without one: an expired lease is dropped, its cache entry is not.
ReadRemote(p, c) ==
  LET h == HostOf[p] IN
  /\ Call(p, c) /\ c.op \in Reads
  /\ ~Served(h, c.key)
  /\ granted' = IF Mode = "Normal" THEN [granted EXCEPT ![h][c.key] = FALSE] ELSE granted
  /\ held' = [held EXCEPT ![p] = IF HasRecord(h, c.key) THEN "current" ELSE "none"]
  /\ Send(p, c, wantLease(h, c.key))
  /\ UNCHANGED <<reply, callee, done, late, hostUp, history, cache, recycling>>

\* Put, Delete, AppendToList and RemoveFromList touch neither records nor cache.
SendUpdate(p, c) ==
  /\ Call(p, c) /\ c.op \in Updates
  /\ Send(p, c, FALSE)
  /\ UNCHANGED <<reply, callee, done, late, hostUp, history, granted, cache, held, recycling>>

Finish(p) ==
  /\ req' = [req EXCEPT ![p] = Nil]
  /\ reply' = [reply EXCEPT ![p] = Nil]
  /\ UNCHANGED <<callee, done, late, hostUp>>

\* A reply that is returned to the caller as it is: of an update, or of a failed read.
ReturnStatus(p) ==
  /\ Replied(p) /\ hostUp[HostOf[p]]
  /\ req[p].op \in Updates \/ reply[p].status # "OK"
  /\ Finish(p)
  /\ held' = [held EXCEPT ![p] = "none"]
  /\ UNCHANGED <<history, granted, cache, recycling, dialed>>

\* A read's value is back: note the query in its record, and cache the value if a lease
\* was asked for.
ReturnRead(p) ==
  LET h == HostOf[p]
      k == req[p].key
      want == req[p].want
  IN
  /\ Replied(p) /\ hostUp[h]
  /\ req[p].op \in Reads /\ reply[p].status = "OK"
  /\ \/ /\ held[p] = "none"
        /\ history' = [history EXCEPT ![h][k] = <<0>>]
        /\ granted' = [granted EXCEPT ![h][k] = want /\ reply[p].lease]
        /\ held' = Orphaned(h, k, p)
     \/ /\ held[p] = "current"
        /\ history' = [history EXCEPT ![h][k] = Queried(@)]
        /\ granted' = [granted EXCEPT ![h][k] = IF want THEN reply[p].lease ELSE @]
        /\ held' = [held EXCEPT ![p] = "none"]
     \/ /\ held[p] = "orphan"
        /\ held' = [held EXCEPT ![p] = "none"]
        /\ UNCHANGED <<history, granted>>
  /\ cache' = IF want THEN [cache EXCEPT ![h][k] = reply[p].val] ELSE cache
  /\ Finish(p)
  /\ UNCHANGED <<recycling, dialed>>

-----------------------------------------------------------------------------
(* Callback and housekeeping.                                              *)

\* The body of RevokeLease: ls.records[key] is dereferenced without a check.
RevokePanics(h, k) == cache[h][k] # Nil /\ ~HasRecord(h, k)

DropLease(h, k) ==
  /\ hostUp[h]
  /\ ~RevokePanics(h, k)
  /\ granted' = IF cache[h][k] # Nil THEN [granted EXCEPT ![h][k] = FALSE] ELSE granted
  /\ cache' = [cache EXCEPT ![h][k] = Nil]
  /\ UNCHANGED <<history, held, recycling, dialed>>

\* cacheRecycler takes the next key of the cache, before it has the lock.
RecyclePick(h, k) ==
  /\ hostUp[h] /\ recycling[h] = Nil
  /\ cache[h][k] # Nil
  /\ recycling' = [recycling EXCEPT ![h] = k]
  /\ UNCHANGED <<rpcVars, history, granted, cache, held, dialed>>

\* Mutant: the cache entry goes and the record stays.
RecycleCacheOnly(h) ==
  LET k == recycling[h] IN
  /\ hostUp[h] /\ k # Nil
  /\ IF HasRecord(h, k) /\ (Expired(h, k) \/ ~granted[h][k])
       THEN cache' = [cache EXCEPT ![h][k] = Nil]
       ELSE UNCHANGED cache
  /\ recycling' = [recycling EXCEPT ![h] = Nil]
  /\ UNCHANGED <<rpcVars, history, granted, held, dialed>>

Recycle(h) ==
  LET k == recycling[h] IN
  /\ hostUp[h] /\ k # Nil
  /\ IF HasRecord(h, k) /\ (Expired(h, k) \/ ~granted[h][k])
       THEN /\ history' = [history EXCEPT ![h][k] = <<>>]
            /\ granted' = [granted EXCEPT ![h][k] = FALSE]
            /\ cache' = [cache EXCEPT ![h][k] = Nil]
            /\ held' = Orphaned(h, k, Nil)
       ELSE UNCHANGED <<history, granted, cache, held>>
  /\ recycling' = [recycling EXCEPT ![h] = Nil]
  /\ UNCHANGED <<rpcVars, dialed>>
=============================================================================
