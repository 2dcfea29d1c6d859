----------------------------- MODULE LeaseProofs -----------------------------
(***************************************************************************)
(* IndInv is an invariant of LeaseSystem for every set of hosts, keys and  *)
(* goroutines, every workload and all lease constants, and LeaseSystem     *)
(* implements AtomicStore.                                                 *)
(***************************************************************************)
EXTENDS LeaseSystem, SequenceTheorems, TLAPS

(***************************************************************************)
(* The data: ages, histories and requests.                                 *)
(***************************************************************************)

\* The clock arithmetic of recordLease and of the libstore's records: ages are natural
\* numbers up to AgeCap, and getting older keeps them there.
LEMMA AgeFacts ==
  /\ LeaseTerm \in Nat /\ AgeCap \in Nat
  /\ 0 \in Ages /\ NoLease \notin Ages
  /\ \A a \in Ages : Older(a) \in Ages
  /\ Older(NoLease) = NoLease
BY TimeAssumption DEF LeaseTerm, AgeCap, Ages, NoLease, Older

\* Changing one entry of a table of hosts and keys (records, cache).
LEMMA EntryType ==
  ASSUME NEW S, NEW f \in [Hosts -> [Keys -> S]], NEW h \in Hosts, NEW k \in Keys, NEW v \in S
  PROVE  /\ [f EXCEPT ![h][k] = v] \in [Hosts -> [Keys -> S]]
         /\ [f EXCEPT ![h][k] = v][h][k] = v
         /\ \A g \in Hosts, j \in Keys :
              <<g, j>> # <<h, k>> => [f EXCEPT ![h][k] = v][g][j] = f[g][j]
OBVIOUS

\* Trimming a query history (the code after each append to rec.history) leaves a
\* non-empty history of at most QueryCacheThresh entries.
LEMMA QueriedFacts ==
  ASSUME NEW s \in Seq(Ages), Len(s) <= QueryCacheThresh
  PROVE  Queried(s) \in Seq(Ages) /\ Queried(s) # <<>> /\ Len(Queried(s)) <= QueryCacheThresh
<1> DEFINE t == Append(s, 0)
           m == Len(t) - QueryCacheThresh + 1
           n == Len(t)
<1>1. QueryCacheThresh \in Nat \ {0} /\ 0 \in Ages
  BY AgeFacts, TimeAssumption
<1>2. t \in Seq(Ages) /\ Len(t) = Len(s) + 1 /\ t # <<>> /\ Len(s) \in Nat
  BY <1>1, AppendProperties, LenProperties
<1>3. CASE Len(t) > QueryCacheThresh
  <2>1. m = 2 /\ n = QueryCacheThresh + 1
    BY <1>1, <1>2, <1>3
  <2>2. \A i \in m .. n : t[i] \in Ages
    <3> HIDE DEF t
    <3> QED BY <1>1, <1>2, <2>1, ElementOfSeq
  <2>3. SubSeq(t, m, n) \in Seq(Ages) /\ Len(SubSeq(t, m, n)) = QueryCacheThresh
    <3> HIDE DEF t
    <3> QED BY <1>1, <2>1, <2>2, SubSeqProperties
  <2>4. SubSeq(t, m, n) # <<>>
    BY <1>1, <2>3, EmptySeq
  <2>5. Queried(s) = SubSeq(t, m, n)
    BY <1>3 DEF Queried
  <2> HIDE DEF t, m, n
  <2> QED BY <1>1, <2>3, <2>4, <2>5
<1>4. CASE ~(Len(t) > QueryCacheThresh)
  <2>1. Queried(s) = t
    BY <1>4 DEF Queried
  <2> HIDE DEF t
  <2> QED BY <1>1, <1>2, <1>4, <2>1
<1> QED BY <1>3, <1>4

\* One second older, a history keeps its length.
LEMMA OlderHistory ==
  ASSUME NEW s \in Seq(Ages)
  PROVE  LET t == [i \in 1 .. Len(s) |-> Older(s[i])] IN
         /\ t \in Seq(Ages) /\ Len(t) = Len(s)
         /\ s # <<>> => t # <<>>
<1> DEFINE t == [i \in 1 .. Len(s) |-> Older(s[i])]
<1>1. Len(s) \in Nat /\ \A i \in 1 .. Len(s) : Older(s[i]) \in Ages
  BY AgeFacts, ElementOfSeq, LenProperties
<1>2. t \in Seq(Ages)
  BY <1>1, IsASeq
<1>3. Len(t) = Len(s)
  BY <1>1, <1>2, LenProperties
<1>4. s # <<>> => t # <<>>
  BY <1>1, <1>3, EmptySeq
<1> QED BY <1>2, <1>3, <1>4

(***************************************************************************)
(* Every step preserves the types.                                         *)
(***************************************************************************)

\* The key of the update that holds ss.lock is a key.
LEMMA LockedKeyType ==
  ASSUME TypeOK, UpdateChecked, lock # Nil
  PROVE  LockedKey \in Keys /\ lock \in Procs /\ req[lock] \in Request
BY ConstantAssumption DEF TypeOK, RpcTypeOK, SrvTypeOK, UpdateChecked, Waiting, LockedKey, Request

\* The handlers of the storage server that answer in one step.
LEMMA ServeType ==
  ASSUME IndInv, NEW p \in Procs, Serve(p)
  PROVE  TypeOK'
<1> USE DEF IndInv, TypeOK
<1>1. req[p] \in Request /\ req[p].key \in Keys /\ req[p].item \in Items /\ HostOf[p] \in Hosts
  BY ConstantAssumption DEF Serve, ServeFirst, ServeOther, AppendFirst, RefuseKey, Grant,
     Reject, Put, Delete, AppendToList, RemoveFromList, FinishUpdate, Enter, Waiting,
     RpcTypeOK, UpdateChecked, Request
<1>2. CASE ServeFirst(p)
  <2>1. RpcTypeOK'
    BY <1>1, <1>2, ConstantAssumption DEF RpcTypeOK, Idle, ServeFirst, AppendFirst, Answer, Reply, Status, Enter, Waiting
  <2>2. SrvTypeOK' 
    BY <1>1, <1>2, ConstantAssumption DEF SrvTypeOK, ServeFirst, AppendFirst, Values
  <2>3. LibTypeOK'
    BY <1>2 DEF LibTypeOK, ServeFirst, libVars
  <2>4. replyMark' \in [Procs -> Marks]
    BY <1>2 DEF ServeFirst, Mark, MarkReplies, Marks
  <2>5. cacheMark' \in [Hosts -> [Keys -> Marks]]
    BY <1>1, <1>2 DEF ServeFirst, Mark, MarkCache, Marks
  <2> QED BY <1>2, <2>1, <2>2, <2>3, <2>4, <2>5 DEF ServeFirst
<1>3. CASE ServeOther(p)
  <2>0. LibTypeOK' /\ replyMark' = replyMark /\ cacheMark' = cacheMark /\ crashes' = crashes
    BY <1>3 DEF LibTypeOK, ServeOther, libVars, histVars
  <2>1. CASE RefuseKey(p)
    <3>1. RpcTypeOK'
      BY <1>1, <2>1, ConstantAssumption DEF RpcTypeOK, Idle, RefuseKey, Answer, Reply, Status, Waiting
    <3> QED BY <2>0, <2>1, <3>1 DEF RefuseKey, SrvTypeOK, srvVars
  <2>2. CASE Grant(p)
    <3>1. RpcTypeOK'
      BY <1>1, <2>2, ConstantAssumption DEF RpcTypeOK, SrvTypeOK, Idle, Grant, Answer, Reply, Status, Enter, Waiting, Request
    <3>2. tenants' \in [Keys -> [Hosts -> Ages \cup {NoLease}]]
      <4>1. CASE req[p].want
        <5> DEFINE k == req[p].key
                   h == HostOf[p]
                   t == IF tenants[k][h] = NoLease THEN 0 ELSE tenants[k][h]
        <5>1. t \in Ages \cup {NoLease}
          BY <1>1, AgeFacts DEF SrvTypeOK
        <5>2. tenants' = [tenants EXCEPT ![k] = [tenants[k] EXCEPT ![h] = t]]
          BY <2>2, <4>1 DEF Grant, recordLease
        <5> HIDE DEF t
        <5> QED BY <1>1, <5>1, <5>2 DEF SrvTypeOK
      <4>2. CASE ~req[p].want
        BY <2>2, <4>2 DEF SrvTypeOK, Grant
      <4> QED BY <4>1, <4>2
    <3> QED BY <2>0, <2>2, <3>1, <3>2 DEF Grant, SrvTypeOK
  <2>3. CASE Reject(p)
    <3>1. RpcTypeOK'
      <4>1. PICK st \in Status : Answer(p, st, Nil, FALSE)
        BY <2>3 DEF Reject, Status
      <4>2. UNCHANGED <<req, callee, done, late, hostUp>> /\ req[p] # Nil
        BY <2>3 DEF Reject, Enter, Waiting
      <4> QED BY <1>1, <4>1, <4>2, ConstantAssumption DEF RpcTypeOK, Idle, Answer, Reply
    <3> QED BY <2>0, <2>3, <3>1 DEF Reject, SrvTypeOK, srvVars
  <2>4. CASE Put(p) \/ Delete(p) \/ AppendToList(p) \/ RemoveFromList(p)
    <3>1. StartRevoke(p)
      BY <2>4 DEF Put, Delete, AppendToList, RemoveFromList
    <3>2. RpcTypeOK'
      BY <3>1 DEF StartRevoke, rpcVars, RpcTypeOK, Idle
    <3>3. SrvTypeOK'
      BY <3>1 DEF StartRevoke, SrvTypeOK, Tenants
    <3> QED BY <2>0, <3>2, <3>3
  <2>5. CASE FinishUpdate(p)
    <3>1. RpcTypeOK'
      BY <1>1, <2>5, ConstantAssumption DEF RpcTypeOK, Idle, FinishUpdate, Answer, Reply, Status
    <3>2. Updated(req[p], storage[req[p].key]) \in {Nil} \cup Values
      BY <1>1, <2>5, ConstantAssumption DEF FinishUpdate, Updated, UpdateChecked, SrvTypeOK, Values, Updates
    <3>3. SrvTypeOK'
      BY <1>1, <2>5, <3>2, AgeFacts DEF FinishUpdate, SrvTypeOK
    <3> QED BY <2>0, <3>1, <3>3
  <2> QED BY <1>3, <2>1, <2>2, <2>3, <2>4, <2>5 DEF ServeOther
<1> QED BY <1>2, <1>3 DEF Serve

\* The loop of revokeLease.
LEMMA RevokingType ==
  ASSUME IndInv, NEW h \in Hosts, Revoking(h)
  PROVE  TypeOK'
<1> USE DEF IndInv, TypeOK
<1>1. lock # Nil /\ LockedKey \in Keys
  <2>1. lock # Nil
    BY DEF Revoking, LeaveExpired, LeaveBroken, RevokeStep, ServerDies, SkipExpired, CallBroken,
       CallRevoke, DialFatal, RevokeDone, RevokeTimeout, NextTenant, CalleeOfUpdate
  <2> QED BY <2>1, LockedKeyType
<1>2. LibTypeOK' /\ crashes' = crashes
  BY DEF Revoking, LeaveExpired, LeaveBroken, RevokeStep, ServerDies, libVars, LibTypeOK
<1>3. ASSUME NEW m \in Marks, Mark({h}, LockedKey, m)
      PROVE  replyMark' \in [Procs -> Marks] /\ cacheMark' \in [Hosts -> [Keys -> Marks]]
  BY <1>1, <1>3 DEF Mark, MarkReplies, MarkCache
<1>4. RpcTypeOK' /\ SrvTypeOK'
  <2>1. CASE SkipExpired(h) \/ CallBroken(h)
    BY <2>1 DEF SkipExpired, CallBroken, rpcVars, RpcTypeOK, SrvTypeOK, Idle
  <2>2. CASE CallRevoke(h)
    BY <2>2 DEF CallRevoke, RpcTypeOK, SrvTypeOK, Idle
  <2>3. CASE DialFatal(h)
    BY <2>3 DEF DialFatal, rpcVars, RpcTypeOK, SrvTypeOK, Idle
  <2>4. CASE RevokeDone
    BY <2>4 DEF RevokeDone, RpcTypeOK, SrvTypeOK, Idle
  <2>5. CASE RevokeTimeout
    <3>1. late' \in [Hosts -> [Keys -> 0 .. MaxLate]]
      <4>1. callee \in Hosts
        BY <2>5 DEF RevokeTimeout, RpcTypeOK
      <4>2. CASE done \/ late[callee][LockedKey] = MaxLate
        BY <2>5, <4>2 DEF RevokeTimeout, RpcTypeOK
      <4>3. CASE ~(done \/ late[callee][LockedKey] = MaxLate)
        <5> DEFINE n == late[callee][LockedKey] + 1
        <5>0. late[callee][LockedKey] \in 0 .. MaxLate
          BY <1>1, <4>1 DEF RpcTypeOK
        <5>1. n \in 0 .. MaxLate
          BY <4>3, <5>0, TimeAssumption
        <5>2. late' = [late EXCEPT ![callee] = [late[callee] EXCEPT ![LockedKey] = n]]
          BY <2>5, <4>3 DEF RevokeTimeout
        <5> HIDE DEF n
        <5> QED BY <1>1, <4>1, <5>1, <5>2 DEF RpcTypeOK
      <4> QED BY <4>2, <4>3
    <3> QED BY <2>5, <3>1 DEF RevokeTimeout, RpcTypeOK, SrvTypeOK, Idle
  <2> QED BY <2>1, <2>2, <2>3, <2>4, <2>5 DEF Revoking, LeaveExpired, LeaveBroken, RevokeStep, ServerDies
<1>5. replyMark' \in [Procs -> Marks] /\ cacheMark' \in [Hosts -> [Keys -> Marks]]
  <2>1. CASE LeaveExpired(h)
    BY <1>3, <2>1 DEF LeaveExpired, Marks
  <2>2. CASE LeaveBroken(h)
    BY <1>3, <2>2 DEF LeaveBroken, Marks
  <2>3. CASE RevokeStep(h) \/ ServerDies(h)
    BY <2>3 DEF RevokeStep, ServerDies, histVars
  <2> QED BY <2>1, <2>2, <2>3 DEF Revoking
<1> QED BY <1>2, <1>4, <1>5

\* The death of an app server, by whatever cause.
LEMMA HostDiesType ==
  ASSUME TypeOK, NEW h \in Hosts, HostDies(h), crashes' \in 0 .. MaxCrashes
  PROVE  TypeOK'
<1> USE DEF TypeOK
<1>1. RpcTypeOK'
  BY TimeAssumption DEF HostDies, RpcTypeOK, Idle
<1>2. SrvTypeOK'
  BY DEF HostDies, SrvTypeOK
<1>3. LibTypeOK'
  <2>1. history' \in [Hosts -> [Keys -> Seq(Ages)]]
    BY EmptySeq DEF HostDies, LibTypeOK
  <2>2. \A g \in Hosts, k \in Keys : Len(history'[g][k]) <= QueryCacheThresh
    BY EmptySeq, TimeAssumption DEF HostDies, LibTypeOK
  <2>3. /\ granted' \in [Hosts -> [Keys -> BOOLEAN]]
        /\ cache' \in [Hosts -> [Keys -> {Nil} \cup Values]]
        /\ recycling' \in [Hosts -> {Nil} \cup Keys]
        /\ dialed' \in SUBSET Hosts
    BY DEF HostDies, LibTypeOK
  <2>4. held' \in [Procs -> {"none", "current", "orphan"}]
    BY DEF HostDies, LibTypeOK
  <2> QED BY <2>1, <2>2, <2>3, <2>4 DEF LibTypeOK
<1>4. replyMark' \in [Procs -> Marks] /\ cacheMark' \in [Hosts -> [Keys -> Marks]]
  BY DEF HostDies, Marks
<1> QED BY <1>1, <1>2, <1>3, <1>4

\* The calls of the libstores.
LEMMA CallType ==
  ASSUME IndInv, NEW p \in Procs, NEW c \in Workload, ClientCall(p, c) \/ ClientFatal(p, c)
  PROVE  TypeOK'
<1> USE DEF IndInv, TypeOK
<1>1. c \in Calls /\ HostOf[p] \in Hosts
  BY ConstantAssumption
<1>2. CASE ClientFatal(p, c)
  BY <1>1, <1>2, HostDiesType DEF ClientFatal
<1>3. CASE ClientCall(p, c)
  <2>0. SrvTypeOK' /\ replyMark' = replyMark /\ cacheMark' = cacheMark /\ crashes' = crashes
    BY <1>3 DEF ClientCall, srvVars, histVars, SrvTypeOK
  <2>1. CASE ReadCached(p, c)
    <3>1. RpcTypeOK'
      BY <2>1 DEF ReadCached, rpcVars, RpcTypeOK, Idle
    <3> DEFINE h == HostOf[p]
               s == Queried(history[h][c.key])
    <3>2. s \in Seq(Ages) /\ Len(s) <= QueryCacheThresh
      BY <1>1, QueriedFacts DEF LibTypeOK, Calls
    <3>3. history' = [history EXCEPT ![h][c.key] = s]
      BY <2>1 DEF ReadCached
    <3> HIDE DEF s
    <3>4. LibTypeOK'
      BY <1>1, <2>1, <3>2, <3>3 DEF ReadCached, LibTypeOK, Calls
    <3> QED BY <2>0, <3>1, <3>4
  <2>2. CASE ReadRemote(p, c) \/ SendUpdate(p, c)
    <3>1. PICK want \in BOOLEAN : Send(p, c, want)
      BY <2>2 DEF ReadRemote, SendUpdate, wantLease
    <3>2. RpcTypeOK'
      BY <1>1, <2>2, <3>1, ConstantAssumption DEF ReadRemote, SendUpdate, Send, Call, RpcTypeOK, Idle, Request, Calls
    <3>3. granted' \in [Hosts -> [Keys -> BOOLEAN]]
      <4>1. c.key \in Keys /\ FALSE \in BOOLEAN
        BY <1>1 DEF Calls
      <4>2. [granted EXCEPT ![HostOf[p]][c.key] = FALSE] \in [Hosts -> [Keys -> BOOLEAN]]
        BY <1>1, <4>1, EntryType DEF LibTypeOK
      <4>3. granted' = granted \/ granted' = [granted EXCEPT ![HostOf[p]][c.key] = FALSE]
        BY <2>2 DEF ReadRemote, SendUpdate
      <4> QED BY <4>2, <4>3 DEF LibTypeOK
    <3>4. held' \in [Procs -> {"none", "current", "orphan"}]
      BY <2>2 DEF ReadRemote, SendUpdate, LibTypeOK
    <3>5. dialed' \in SUBSET Hosts
      BY <1>1, <3>1 DEF Send, LibTypeOK
    <3>6. LibTypeOK'
      BY <2>2, <3>3, <3>4, <3>5 DEF ReadRemote, SendUpdate, LibTypeOK
    <3> QED BY <2>0, <3>2, <3>6
  <2> QED BY <1>3, <2>1, <2>2 DEF ClientCall
<1> QED BY <1>2, <1>3

\* A reply reaches its caller, or the call fails.
LEMMA ReturnType ==
  ASSUME IndInv, NEW p \in Procs, ClientReturn(p) \/ CallFails(p)
  PROVE  TypeOK'
<1> USE DEF IndInv, TypeOK
<1>1. CASE CallFails(p)
  BY <1>1 DEF CallFails, RpcTypeOK, SrvTypeOK, LibTypeOK, srvVars, histVars, Idle, Waiting
<1>2. CASE ClientReturn(p)
  <2>0. SrvTypeOK' /\ crashes' = crashes /\ replyMark' \in [Procs -> Marks]
    BY <1>2 DEF ClientReturn, srvVars, SrvTypeOK, Marks
  <2>1. Finish(p)
    BY <1>2 DEF ClientReturn, ReturnStatus, ReturnRead
  <2>2. RpcTypeOK'
    BY <2>1 DEF Finish, RpcTypeOK, Idle
  <2>3. CASE ReturnStatus(p) /\ UNCHANGED cacheMark
    BY <2>0, <2>2, <2>3 DEF ReturnStatus, LibTypeOK
  <2>4. CASE ReturnRead(p) /\ ~(ReturnStatus(p) /\ UNCHANGED cacheMark)
    <3> DEFINE h == HostOf[p]
               k == req[p].key
               s == Queried(history[h][k])
    <3>1. h \in Hosts /\ req[p] \in Request /\ k \in Keys /\ reply[p] \in Reply
      BY <2>4, ConstantAssumption DEF ReturnRead, Replied, RpcTypeOK, Idle, Request
    <3>2. s \in Seq(Ages) /\ Len(s) <= QueryCacheThresh
      BY <3>1, QueriedFacts DEF LibTypeOK
    <3>3. <<0>> \in Seq(Ages) /\ Len(<<0>>) <= QueryCacheThresh
      BY AgeFacts, TimeAssumption
    <3>4. \/ history' = history
          \/ history' = [history EXCEPT ![h][k] = <<0>>]
          \/ history' = [history EXCEPT ![h][k] = s]
      BY <2>4 DEF ReturnRead
    <3>5. granted' \in [Hosts -> [Keys -> BOOLEAN]]
      <4>1. PICK g : \/ granted' = granted
                     \/ g \in BOOLEAN /\ granted' = [granted EXCEPT ![h][k] = g]
        <5>1. req[p].want \in BOOLEAN /\ reply[p].lease \in BOOLEAN /\ granted[h][k] \in BOOLEAN
          BY <3>1 DEF Request, Reply, LibTypeOK
        <5> QED BY <2>4, <5>1 DEF ReturnRead
      <4>2. ASSUME NEW b \in BOOLEAN
            PROVE  [granted EXCEPT ![h][k] = b] \in [Hosts -> [Keys -> BOOLEAN]]
        BY <3>1, EntryType DEF LibTypeOK
      <4> HIDE DEF h, k
      <4> QED BY <4>1, <4>2 DEF LibTypeOK
    <3>6. cache' \in [Hosts -> [Keys -> {Nil} \cup Values]]
      BY <2>4, <3>1 DEF ReturnRead, LibTypeOK, Reply
    <3>7. held' \in [Procs -> {"none", "current", "orphan"}]
      BY <2>4, <3>1 DEF ReturnRead, LibTypeOK, Orphaned
    <3>8. cacheMark' \in [Hosts -> [Keys -> Marks]]
      BY <1>2, <2>4, <3>1 DEF ClientReturn
    <3> HIDE DEF h, k, s
    <3>9. ASSUME NEW v \in Seq(Ages), Len(v) <= QueryCacheThresh,
                 history' = [history EXCEPT ![h][k] = v]
          PROVE  /\ history' \in [Hosts -> [Keys -> Seq(Ages)]]
                 /\ \A g \in Hosts, j \in Keys : Len(history'[g][j]) <= QueryCacheThresh
      <4>1. history \in [Hosts -> [Keys -> Seq(Ages)]]
        BY DEF LibTypeOK
      <4>2. history' \in [Hosts -> [Keys -> Seq(Ages)]]
        BY <3>1, <3>9, <4>1, EntryType
      <4>3. \A g \in Hosts, j \in Keys : history'[g][j] \in {history[g][j], v}
        BY <3>1, <3>9, <4>1
      <4> QED BY <3>9, <4>2, <4>3 DEF LibTypeOK
    <3>10. /\ history' \in [Hosts -> [Keys -> Seq(Ages)]]
           /\ \A g \in Hosts, j \in Keys : Len(history'[g][j]) <= QueryCacheThresh
      BY <3>2, <3>3, <3>4, <3>9 DEF LibTypeOK
    <3>11. LibTypeOK'
      BY <2>4, <3>5, <3>6, <3>7, <3>10 DEF ReturnRead, LibTypeOK
    <3> QED BY <2>0, <2>2, <3>8, <3>11
  <2> QED BY <1>2, <2>3, <2>4 DEF ClientReturn
<1> QED BY <1>1, <1>2

\* Callbacks and housekeeping in an app server, its death and its restart.
LEMMA HostType ==
  ASSUME IndInv, NEW h \in Hosts,
         \/ Recycler(h) \/ Crash(h) \/ Restart(h)
         \/ \E k \in Keys : RevokeLease(h, k) \/ RevokePanic(h, k)
  PROVE  TypeOK'
<1> USE DEF IndInv, TypeOK
<1>1. CASE Recycler(h)
  <2>1. RpcTypeOK' /\ SrvTypeOK' /\ replyMark' = replyMark /\ crashes' = crashes
    BY <1>1 DEF Recycler, RecyclePick, Recycle, rpcVars, srvVars, RpcTypeOK, SrvTypeOK, Idle
  <2>2. cacheMark' \in [Hosts -> [Keys -> Marks]]
    BY <1>1 DEF Recycler, Marks
  <2>3. LibTypeOK'
    <3>1. CASE \E k \in Keys : RecyclePick(h, k)
      BY <3>1 DEF RecyclePick, LibTypeOK
    <3>2. CASE Recycle(h)
      <4>1. recycling[h] \in Keys /\ dialed' = dialed /\ recycling' \in [Hosts -> {Nil} \cup Keys]
        BY <3>2 DEF Recycle, LibTypeOK
      <4>2. CASE UNCHANGED <<history, granted, cache, held>>
        BY <4>1, <4>2 DEF LibTypeOK
      <4>3. CASE ~UNCHANGED <<history, granted, cache, held>>
        <5> DEFINE k == recycling[h]
        <5>1. /\ history' = [history EXCEPT ![h][k] = <<>>]
              /\ granted' = [granted EXCEPT ![h][k] = FALSE]
              /\ cache' = [cache EXCEPT ![h][k] = Nil]
              /\ held' = Orphaned(h, k, Nil)
          BY <3>2, <4>3 DEF Recycle
        <5>2. held' \in [Procs -> {"none", "current", "orphan"}]
          BY <5>1 DEF LibTypeOK, Orphaned
        <5>3. granted' \in [Hosts -> [Keys -> BOOLEAN]] /\ cache' \in [Hosts -> [Keys -> {Nil} \cup Values]]
          BY <4>1, <5>1 DEF LibTypeOK
        <5>4. history' \in [Hosts -> [Keys -> Seq(Ages)]]
          BY <4>1, <5>1, EmptySeq DEF LibTypeOK
        <5>5. \A g \in Hosts, j \in Keys : Len(history'[g][j]) <= QueryCacheThresh
          <6>1. \A g \in Hosts, j \in Keys : history'[g][j] \in {history[g][j], <<>>}
            BY <4>1, <5>1 DEF LibTypeOK
          <6> QED BY <6>1, EmptySeq, TimeAssumption DEF LibTypeOK
        <5> QED BY <4>1, <5>2, <5>3, <5>4, <5>5 DEF LibTypeOK
      <4> QED BY <4>2, <4>3
    <3> QED BY <1>1, <3>1, <3>2 DEF Recycler
  <2> QED BY <2>1, <2>2, <2>3
<1>2. CASE Crash(h)
  <2>1. crashes' \in 0 .. MaxCrashes
    BY <1>2, TimeAssumption DEF Crash
  <2> QED BY <1>2, <2>1, HostDiesType DEF Crash
<1>3. CASE Restart(h)
  <2>1. RpcTypeOK'
    BY <1>3 DEF Restart, RpcTypeOK, Idle, Waiting
  <2>2. replyMark' \in [Procs -> Marks]
    BY <1>3 DEF Restart, Marks
  <2> QED BY <1>3, <2>1, <2>2 DEF Restart, SrvTypeOK, LibTypeOK, srvVars, libVars
<1>4. ASSUME NEW k \in Keys, RevokeLease(h, k) PROVE TypeOK'
  <2>1. late' \in [Hosts -> [Keys -> 0 .. MaxLate]]
    <3>1. CASE UNCHANGED late
      BY <3>1 DEF RpcTypeOK
    <3>2. CASE ~UNCHANGED late
      <4> DEFINE n == late[h][k] - 1
      <4>1. n \in 0 .. MaxLate
        BY <1>4, <3>2, TimeAssumption DEF RevokeLease, RevokeArrives, RpcTypeOK
      <4>2. late' = [late EXCEPT ![h][k] = n]
        BY <1>4, <3>2 DEF RevokeLease, RevokeArrives
      <4> HIDE DEF n
      <4> QED BY <4>1, <4>2, EntryType DEF RpcTypeOK
    <3> QED BY <3>1, <3>2
  <2>2. RpcTypeOK'
    BY <1>4, <2>1 DEF RevokeLease, RevokeArrives, RpcTypeOK, Idle
  <2>3. LibTypeOK'
    BY <1>4 DEF RevokeLease, DropLease, LibTypeOK
  <2>4. replyMark' \in [Procs -> Marks] /\ cacheMark' \in [Hosts -> [Keys -> Marks]]
    BY <1>4 DEF RevokeLease, RevokeArrives, MarkReplies, Marks
  <2> QED BY <1>4, <2>2, <2>3, <2>4 DEF RevokeLease, SrvTypeOK, srvVars
<1>5. ASSUME NEW k \in Keys, RevokePanic(h, k) PROVE TypeOK'
  BY <1>5, HostDiesType DEF RevokePanic
<1> QED BY <1>1, <1>2, <1>3, <1>4, <1>5

\* One second passes.
LEMMA TickType ==
  ASSUME IndInv, Tick
  PROVE  TypeOK'
<1> USE DEF IndInv, TypeOK
<1>1. tenants' \in [Keys -> [Hosts -> Ages \cup {NoLease}]]
  BY AgeFacts DEF Tick, SrvTypeOK
<1>2. history' \in [Hosts -> [Keys -> Seq(Ages)]]
  BY OlderHistory DEF Tick, LibTypeOK
<1>3. \A h \in Hosts, k \in Keys : Len(history'[h][k]) <= QueryCacheThresh
  BY OlderHistory DEF Tick, LibTypeOK
<1>4. RpcTypeOK'
  BY DEF Tick, rpcVars, RpcTypeOK, Idle
<1>5. SrvTypeOK' /\ LibTypeOK'
  BY <1>1, <1>2, <1>3 DEF Tick, SrvTypeOK, LibTypeOK
<1> QED BY <1>4, <1>5 DEF Tick

(***************************************************************************)
(* The update that holds ss.lock.                                          *)
(***************************************************************************)

\* No step invalidates what the handler that holds ss.lock has checked, and the server
\* waits for a callback only on its behalf.
LEMMA LockStep ==
  ASSUME IndInv, Next
  PROVE  UpdateChecked' /\ CalleeOfUpdate'
<1> USE DEF IndInv
<1> DEFINE Same(p) == req'[p] = req[p] /\ reply'[p] = reply[p]
<1>1. ASSUME lock # Nil => Same(lock) /\ storage' = storage, lock' = lock, srvUp' = srvUp
      PROVE  UpdateChecked'
  BY <1>1 DEF UpdateChecked, Waiting
<1>2. lock # Nil => srvUp /\ Waiting(lock) /\ lock \in Procs
  BY DEF UpdateChecked, TypeOK, SrvTypeOK
<1>3. lock = Nil => callee = Nil
  BY DEF CalleeOfUpdate
<1>4. ASSUME NEW p \in Procs, Serve(p) PROVE UpdateChecked' /\ CalleeOfUpdate'
  <2>1. CASE AppendFirst(p) \/ Grant(p) \/ Reject(p)
    BY <1>3, <2>1 DEF AppendFirst, Grant, Reject, Enter, UpdateChecked, CalleeOfUpdate, srvVars
  <2>2. CASE RefuseKey(p)
    <3>1. lock # p
      BY <2>2, ConstantAssumption DEF RefuseKey, keyRangeContains, UpdateChecked
    <3>2. lock # Nil => Same(lock)
      BY <1>2, <2>2, <3>1 DEF RefuseKey, Answer, TypeOK, RpcTypeOK
    <3> QED BY <1>1, <2>2, <3>2 DEF RefuseKey, srvVars, CalleeOfUpdate
  <2>3. CASE Put(p) \/ Delete(p) \/ AppendToList(p) \/ RemoveFromList(p)
    <3>1. lock = Nil /\ StartRevoke(p)
      BY <2>3 DEF Put, Delete, AppendToList, RemoveFromList, Enter
    <3>2. UpdateChecked'
      BY <2>3, <3>1 DEF Put, Delete, AppendToList, RemoveFromList, Enter, StartRevoke, UpdateChecked,
         rpcVars, Waiting, keyRangeContains, Updates
    <3> QED BY <1>3, <3>1, <3>2 DEF StartRevoke, rpcVars, CalleeOfUpdate
  <2>4. CASE FinishUpdate(p)
    BY <2>4 DEF FinishUpdate, UpdateChecked, CalleeOfUpdate
  <2> QED BY <1>4, <2>1, <2>2, <2>3, <2>4 DEF Serve, ServeFirst, ServeOther
<1>5. ASSUME NEW p \in Procs, CallFails(p) PROVE UpdateChecked' /\ CalleeOfUpdate'
  BY <1>2, <1>3, <1>5 DEF CallFails, UpdateChecked, CalleeOfUpdate, srvVars
<1>6. ASSUME NEW p \in Procs, ClientReturn(p) PROVE UpdateChecked' /\ CalleeOfUpdate'
  <2>1. Replied(p) /\ Finish(p) /\ UNCHANGED srvVars
    BY <1>6 DEF ClientReturn, ReturnStatus, ReturnRead
  <2>2. lock # p
    BY <1>2, <2>1, ConstantAssumption DEF Waiting, Replied
  <2>3. lock # Nil => Same(lock)
    BY <1>2, <2>1, <2>2 DEF Finish, TypeOK, RpcTypeOK
  <2> QED BY <1>1, <2>1, <2>3 DEF srvVars, Finish, CalleeOfUpdate
<1>7. ASSUME NEW p \in Procs, NEW c \in Workload, ClientCall(p, c)
      PROVE  UpdateChecked' /\ CalleeOfUpdate'
  <2>1. CASE ReadCached(p, c)
    BY <1>1, <1>7, <2>1 DEF ClientCall, ReadCached, srvVars, rpcVars, CalleeOfUpdate
  <2>2. CASE ReadRemote(p, c) \/ SendUpdate(p, c)
    <3>1. lock # p
      BY <1>2, <2>2, ConstantAssumption DEF ReadRemote, SendUpdate, Call, Idle, Waiting
    <3>2. lock # Nil => Same(lock)
      BY <1>2, <2>2, <3>1 DEF ReadRemote, SendUpdate, Send, TypeOK, RpcTypeOK
    <3> QED BY <1>1, <1>7, <2>2, <3>2 DEF ClientCall, srvVars, CalleeOfUpdate, ReadRemote, SendUpdate
  <2> QED BY <1>7, <2>1, <2>2 DEF ClientCall
<1>8. ASSUME NEW h \in Hosts, HostDies(h) PROVE UpdateChecked' /\ CalleeOfUpdate'
  BY <1>1, <1>8 DEF HostDies, CalleeOfUpdate
<1>9. ASSUME NEW h \in Hosts, Revoking(h) PROVE UpdateChecked' /\ CalleeOfUpdate'
  <2>1. CASE SkipExpired(h) \/ CallBroken(h) \/ CallRevoke(h)
    BY <1>1, <2>1 DEF SkipExpired, CallBroken, CallRevoke, NextTenant, rpcVars, CalleeOfUpdate
  <2>2. CASE DialFatal(h)
    BY <2>2 DEF DialFatal, NextTenant, rpcVars, UpdateChecked, CalleeOfUpdate
  <2>3. CASE RevokeDone \/ RevokeTimeout
    BY <1>1, <2>3 DEF RevokeDone, RevokeTimeout, CalleeOfUpdate
  <2> QED BY <1>9, <2>1, <2>2, <2>3 DEF Revoking, LeaveExpired, LeaveBroken, RevokeStep, ServerDies
<1>10. ASSUME NEW h \in Hosts, Recycler(h) PROVE UpdateChecked' /\ CalleeOfUpdate'
  BY <1>1, <1>10 DEF Recycler, RecyclePick, Recycle, srvVars, rpcVars, CalleeOfUpdate
<1>11. ASSUME NEW h \in Hosts, Restart(h) PROVE UpdateChecked' /\ CalleeOfUpdate'
  <2>1. lock # Nil => Same(lock)
    BY <1>2, <1>11 DEF Restart
  <2> QED BY <1>1, <1>11, <2>1 DEF Restart, srvVars, CalleeOfUpdate
<1>12. ASSUME NEW h \in Hosts, NEW k \in Keys, RevokeLease(h, k)
       PROVE  UpdateChecked' /\ CalleeOfUpdate'
  BY <1>1, <1>12 DEF RevokeLease, srvVars, CalleeOfUpdate
<1>13. CASE Tick
  BY <1>1, <1>13 DEF Tick, rpcVars, CalleeOfUpdate
<1> QED
  <2>1. ASSUME NEW p \in Procs, NEW c \in Workload, ClientFatal(p, c)
        PROVE  UpdateChecked' /\ CalleeOfUpdate'
    BY <1>8, <2>1, ConstantAssumption DEF ClientFatal
  <2> QED BY <1>4, <1>5, <1>6, <1>7, <1>8, <1>9, <1>10, <1>11, <1>12, <1>13, <2>1
          DEF Next, Step, Crash, RevokePanic

(***************************************************************************)
(* Replies and lease records.                                              *)
(***************************************************************************)

\* What a reply to a read carries.
LEMMA ReplyStep ==
  ASSUME IndInv, Next
  PROVE  ReadReplies'
<1> USE DEF IndInv
<1> DEFINE Good(p) == Replied(p) /\ req[p].op \in Reads /\ reply[p].status = "OK"
                        => reply[p].val # Nil /\ reply[p].lease = req[p].want
<1>0. req \in [Procs -> {Nil} \cup Request] /\ reply \in [Procs -> {Nil} \cup Reply]
  BY DEF TypeOK, RpcTypeOK
<1>1. ASSUME \A q \in Procs : (req'[q] = req[q] /\ reply'[q] = reply[q]) \/ reply'[q] = Nil
      PROVE  ReadReplies'
  BY <1>1 DEF ReadReplies, Replied
<1>2. ASSUME NEW p \in Procs, Serve(p) PROVE ReadReplies'
  <2>1. CASE Put(p) \/ Delete(p) \/ AppendToList(p) \/ RemoveFromList(p)
    BY <1>1, <2>1 DEF Put, Delete, AppendToList, RemoveFromList, StartRevoke, rpcVars
  <2>2. CASE RefuseKey(p) \/ AppendFirst(p) \/ Grant(p) \/ Reject(p) \/ FinishUpdate(p)
    <3>1. req' = req /\ \A q \in Procs \ {p} : reply'[q] = reply[q]
      BY <2>2, <1>0 DEF RefuseKey, AppendFirst, Grant, Reject, FinishUpdate, Answer
    <3>2. Good(p)'
      <4>1. CASE RefuseKey(p) \/ Reject(p)
        BY <1>0, <4>1 DEF RefuseKey, Reject, Answer
      <4>2. CASE AppendFirst(p)
        BY <1>0, <4>2 DEF AppendFirst, Enter, Reads
      <4>3. CASE Grant(p)
        BY <1>0, <4>3 DEF Grant, Answer
      <4>4. CASE FinishUpdate(p)
        BY <1>0, <4>4, ConstantAssumption DEF FinishUpdate, UpdateChecked, Updates, Reads
      <4> QED BY <2>2, <4>1, <4>2, <4>3, <4>4
    <3> QED BY <3>1, <3>2 DEF ReadReplies, Replied
  <2> QED BY <1>2, <2>1, <2>2 DEF Serve, ServeFirst, ServeOther
<1>3. ASSUME NEW p \in Procs, CallFails(p) PROVE ReadReplies'
  BY <1>0, <1>1, <1>3 DEF CallFails, Waiting
<1>4. ASSUME NEW p \in Procs, ClientReturn(p) PROVE ReadReplies'
  BY <1>0, <1>1, <1>4 DEF ClientReturn, ReturnStatus, ReturnRead, Finish
<1>5. ASSUME NEW p \in Procs, NEW c \in Workload, ClientCall(p, c) PROVE ReadReplies'
  <2>1. req[p] = Nil => reply[p] = Nil
    BY DEF TypeOK, RpcTypeOK, Idle
  <2> QED BY <1>0, <1>1, <1>5, <2>1
          DEF ClientCall, ReadCached, ReadRemote, SendUpdate, Send, Call, Idle, rpcVars
<1>6. ASSUME NEW h \in Hosts, HostDies(h) \/ Restart(h) PROVE ReadReplies'
  BY <1>1, <1>6 DEF HostDies, Restart
<1>7. ASSUME NEW h \in Hosts, Revoking(h) PROVE ReadReplies'
  BY <1>1, <1>7 DEF Revoking, LeaveExpired, LeaveBroken, RevokeStep, ServerDies, SkipExpired,
     CallBroken, CallRevoke, DialFatal, RevokeDone, RevokeTimeout, rpcVars
<1>8. ASSUME NEW h \in Hosts, Recycler(h) PROVE ReadReplies'
  BY <1>1, <1>8 DEF Recycler, RecyclePick, Recycle, rpcVars
<1>9. ASSUME NEW h \in Hosts, NEW k \in Keys, RevokeLease(h, k) PROVE ReadReplies'
  BY <1>1, <1>9 DEF RevokeLease
<1>10. CASE Tick
  BY <1>1, <1>10 DEF Tick, rpcVars
<1> QED
  <2>1. ASSUME NEW p \in Procs, NEW c \in Workload, ClientFatal(p, c) PROVE ReadReplies'
    BY <1>6, <2>1, ConstantAssumption DEF ClientFatal
  <2> QED BY <1>2, <1>3, <1>4, <1>5, <1>6, <1>7, <1>8, <1>9, <1>10, <2>1
          DEF Next, Step, Crash, RevokePanic

\* Lease records exist for stored keys only.
LEMMA LeaseStep ==
  ASSUME IndInv, Next
  PROVE  LeaseOnlyOnStoredKey'
<1> USE DEF IndInv
<1>0. /\ tenants \in [Keys -> [Hosts -> Ages \cup {NoLease}]]
      /\ storage \in [Keys -> {Nil} \cup Values]
      /\ \A p \in Procs : req[p] # Nil => req[p].key \in Keys /\ req[p].item \in Items
  BY DEF TypeOK, SrvTypeOK, RpcTypeOK, Request
<1>1. ASSUME UNCHANGED <<storage, tenants>> PROVE LeaseOnlyOnStoredKey'
  BY <1>1 DEF LeaseOnlyOnStoredKey, Tenants
<1>2. ASSUME NEW p \in Procs, Serve(p) PROVE LeaseOnlyOnStoredKey'
  <2>1. CASE Put(p) \/ Delete(p) \/ AppendToList(p) \/ RemoveFromList(p) \/ RefuseKey(p) \/ Reject(p)
    BY <1>1, <2>1 DEF Put, Delete, AppendToList, RemoveFromList, StartRevoke, RefuseKey, Reject, srvVars
  <2>2. CASE AppendFirst(p)
    BY <1>0, <2>2, ConstantAssumption DEF AppendFirst, Enter, Waiting, LeaseOnlyOnStoredKey, Tenants, Values
  <2>3. CASE Grant(p)
    <3>1. storage' = storage /\ storage[req[p].key] # Nil
      BY <2>3 DEF Grant
    <3>2. \A k \in Keys, h \in Hosts : k # req[p].key => tenants'[k][h] = tenants[k][h]
      BY <1>0, <2>3 DEF Grant, recordLease
    <3> QED BY <3>1, <3>2 DEF LeaseOnlyOnStoredKey, Tenants
  <2>4. CASE FinishUpdate(p)
    BY <1>0, <2>4 DEF FinishUpdate, LeaseOnlyOnStoredKey, Tenants
  <2> QED BY <1>2, <2>1, <2>2, <2>3, <2>4 DEF Serve, ServeFirst, ServeOther
<1>3. CASE Tick
  <2>1. \A k \in Keys, h \in Hosts : tenants[k][h] = NoLease => tenants'[k][h] = NoLease
    BY <1>0, <1>3, AgeFacts DEF Tick
  <2> QED BY <1>3, <2>1 DEF Tick, LeaseOnlyOnStoredKey, Tenants
<1>4. CASE Step /\ ~\E p \in Procs : Serve(p)
  <2>1. UNCHANGED <<storage, tenants>>
    BY <1>4 DEF Step, CallFails, ClientReturn, ClientCall, ClientFatal, Revoking, LeaveExpired,
       LeaveBroken, RevokeStep, ServerDies, SkipExpired, CallBroken, CallRevoke, DialFatal, RevokeDone,
       RevokeTimeout, Recycler, Crash, Restart, RevokeLease, RevokePanic, HostDies, srvVars
  <2> QED BY <1>1, <2>1
<1> QED BY <1>2, <1>3, <1>4 DEF Next

(***************************************************************************)
(* The records and the cache of a libstore.                                *)
(***************************************************************************)

\* A record that says Granted keeps its cache entry.
LEMMA CacheStep ==
  ASSUME IndInv, Next
  PROVE  GrantedIsCached'
<1> USE DEF IndInv
<1>0. /\ history \in [Hosts -> [Keys -> Seq(Ages)]]
      /\ \A h \in Hosts, k \in Keys : Len(history[h][k]) <= QueryCacheThresh
      /\ granted \in [Hosts -> [Keys -> BOOLEAN]]
      /\ cache \in [Hosts -> [Keys -> {Nil} \cup Values]]
  BY DEF TypeOK, LibTypeOK
<1>1. ASSUME UNCHANGED <<history, granted, cache>> PROVE GrantedIsCached'
  BY <1>1 DEF GrantedIsCached, HasRecord
<1>2. ASSUME NEW p \in Procs, ClientReturn(p) PROVE GrantedIsCached'
  <2>1. CASE ReturnStatus(p)
    BY <1>1, <2>1 DEF ReturnStatus
  <2>2. CASE ReturnRead(p)
    <3> DEFINE h == HostOf[p]
               k == req[p].key
    <3>1. h \in Hosts /\ k \in Keys /\ reply[p].val # Nil
      BY <2>2, ConstantAssumption DEF ReturnRead, Replied, ReadReplies, TypeOK, RpcTypeOK, Idle, Request
    <3>2. Queried(history[h][k]) # <<>> /\ <<0>> # <<>>
      BY <1>0, <3>1, QueriedFacts
    <3>3. cache'[h][k] = (IF req[p].want THEN reply[p].val ELSE cache[h][k])
      BY <1>0, <2>2, <3>1 DEF ReturnRead
    <3> DEFINE Kept == granted'[h][k] => cache'[h][k] # Nil /\ history'[h][k] # <<>>
    <3>4. ASSUME held[p] = "none" PROVE Kept
      <4>1. history' = [history EXCEPT ![h][k] = <<0>>]
        BY <2>2, <3>4 DEF ReturnRead
      <4>2. granted' = [granted EXCEPT ![h][k] = req[p].want /\ reply[p].lease]
        BY <2>2, <3>4 DEF ReturnRead
      <4>3. history'[h][k] = <<0>>
        BY <1>0, <3>1, <4>1
      <4>4. granted'[h][k] = (req[p].want /\ reply[p].lease)
        BY <1>0, <3>1, <4>2
      <4> QED BY <3>1, <3>2, <3>3, <4>3, <4>4
    <3>5. ASSUME held[p] = "current" PROVE Kept
      <4> DEFINE s == Queried(history[h][k])
      <4>1. history' = [history EXCEPT ![h][k] = s]
        BY <2>2, <3>5 DEF ReturnRead
      <4>2. granted' = [granted EXCEPT ![h][k] = IF req[p].want THEN reply[p].lease ELSE @]
        BY <2>2, <3>5 DEF ReturnRead
      <4>3. history'[h][k] = s
        <5> HIDE DEF s
        <5> QED BY <1>0, <3>1, <4>1
      <4>4. granted'[h][k] = IF req[p].want THEN reply[p].lease ELSE granted[h][k]
        BY <1>0, <3>1, <4>2
      <4> QED BY <3>1, <3>2, <3>3, <4>3, <4>4 DEF GrantedIsCached, HasRecord
    <3>6. ASSUME held[p] = "orphan" PROVE Kept
      <4>1. history' = history /\ granted' = granted
        BY <2>2, <3>6 DEF ReturnRead
      <4> QED BY <3>1, <3>3, <4>1 DEF GrantedIsCached, HasRecord
    <3>7. Kept
      BY <2>2, <3>4, <3>5, <3>6 DEF ReturnRead
    <3>8. \A g \in Hosts, j \in Keys : <<g, j>> # <<h, k>> =>
            /\ granted'[g][j] = granted[g][j]
            /\ cache'[g][j] = cache[g][j]
            /\ history'[g][j] = history[g][j]
      BY <1>0, <2>2, <3>1 DEF ReturnRead
    <3> HIDE DEF h, k
    <3> QED BY <3>1, <3>7, <3>8 DEF GrantedIsCached, HasRecord
  <2> QED BY <1>2, <2>1, <2>2 DEF ClientReturn
<1>3. ASSUME NEW p \in Procs, NEW c \in Workload, ClientCall(p, c) PROVE GrantedIsCached'
  <2>1. c.key \in Keys /\ HostOf[p] \in Hosts
    BY ConstantAssumption DEF Calls
  <2>2. CASE ReadCached(p, c)
    <3>1. Queried(history[HostOf[p]][c.key]) # <<>>
      BY <1>0, <2>1, QueriedFacts
    <3> QED BY <1>0, <2>1, <2>2, <3>1 DEF ReadCached, GrantedIsCached, HasRecord
  <2>3. CASE ReadRemote(p, c)
    BY <1>0, <2>1, <2>3 DEF ReadRemote, GrantedIsCached, HasRecord
  <2>4. CASE SendUpdate(p, c)
    BY <1>1, <2>4 DEF SendUpdate
  <2> QED BY <1>3, <2>2, <2>3, <2>4 DEF ClientCall
<1>4. ASSUME NEW h \in Hosts, HostDies(h) PROVE GrantedIsCached'
  BY <1>0, <1>4 DEF HostDies, GrantedIsCached, HasRecord
<1>5. ASSUME NEW h \in Hosts, Recycler(h) PROVE GrantedIsCached'
  <2>1. CASE \E k \in Keys : RecyclePick(h, k)
    BY <1>1, <2>1 DEF RecyclePick
  <2>2. CASE Recycle(h)
    <3>1. recycling[h] \in Keys
      BY <2>2 DEF Recycle, TypeOK, LibTypeOK
    <3>2. CASE UNCHANGED <<history, granted, cache>>
      BY <1>1, <3>2
    <3>3. CASE ~UNCHANGED <<history, granted, cache>>
      <4> DEFINE k == recycling[h]
      <4>1. /\ history' = [history EXCEPT ![h][k] = <<>>]
            /\ granted' = [granted EXCEPT ![h][k] = FALSE]
            /\ cache' = [cache EXCEPT ![h][k] = Nil]
        BY <2>2, <3>3 DEF Recycle
      <4> HIDE DEF k
      <4> QED BY <1>0, <3>1, <4>1 DEF GrantedIsCached, HasRecord, k
    <3> QED BY <3>2, <3>3
  <2> QED BY <1>5, <2>1, <2>2 DEF Recycler
<1>6. ASSUME NEW h \in Hosts, NEW k \in Keys, RevokeLease(h, k) PROVE GrantedIsCached'
  BY <1>0, <1>6 DEF RevokeLease, DropLease, GrantedIsCached, HasRecord
<1>7. CASE Tick
  <2>1. \A h \in Hosts, k \in Keys : history[h][k] # <<>> => history'[h][k] # <<>>
    BY <1>0, <1>7, OlderHistory DEF Tick
  <2> QED BY <1>7, <2>1 DEF Tick, GrantedIsCached, HasRecord
<1>8. ASSUME NEW p \in Procs, Serve(p) \/ CallFails(p) PROVE GrantedIsCached'
  BY <1>1, <1>8 DEF Serve, ServeFirst, ServeOther, CallFails, libVars
<1>9. ASSUME NEW h \in Hosts, Revoking(h) \/ Restart(h) PROVE GrantedIsCached'
  BY <1>1, <1>9 DEF Revoking, LeaveExpired, LeaveBroken, RevokeStep, ServerDies, Restart, libVars
<1> QED
  <2>1. ASSUME NEW p \in Procs, NEW c \in Workload, ClientFatal(p, c) PROVE GrantedIsCached'
    BY <1>4, <2>1, ConstantAssumption DEF ClientFatal
  <2> QED BY <1>2, <1>3, <1>4, <1>5, <1>6, <1>7, <1>8, <1>9, <2>1
          DEF Next, Step, Crash, RevokePanic

(***************************************************************************)
(* Lease coherence.                                                        *)
(***************************************************************************)

\* The two kinds of copies.
CacheCopy(h, k) == cache[h][k] # Nil /\ cacheMark[h][k] = "guarded"
ReplyCopy(p) ==
  Replied(p) /\ reply[p].lease /\ replyMark[p] = "guarded" /\ hostUp[HostOf[p]]

\* GuardedCopiesCurrent, one copy at a time.
LEMMA CopyByCopy ==
  GuardedCopiesCurrent <=>
    /\ \A h \in Hosts, k \in Keys : CacheCopy(h, k) => Protected(h, k, cache[h][k])
    /\ \A p \in Procs : ReplyCopy(p) => Protected(HostOf[p], req[p].key, reply[p].val)
BY DEF GuardedCopiesCurrent, CacheCopy, ReplyCopy

\* A copy that was there before the step is the same copy after it.
SameCache(h, k) == CacheCopy(h, k)' => CacheCopy(h, k) /\ cache'[h][k] = cache[h][k]
SameReply(p) ==
  ReplyCopy(p)' => ReplyCopy(p) /\ reply'[p] = reply[p] /\ req'[p].key = req[p].key

\* A step that creates no copy and takes no protection away keeps the copies current.
LEMMA NoNewCopies ==
  ASSUME GuardedCopiesCurrent,
         \A h \in Hosts, k \in Keys : SameCache(h, k),
         \A p \in Procs : SameReply(p),
         \A h \in Hosts, k \in Keys, v \in {Nil} \cup Values :
            Protected(h, k, v) /\ (CacheCopy(h, k)' \/ \E p \in Procs : ReplyCopy(p)' /\ HostOf[p] = h /\ req[p].key = k)
              => Protected(h, k, v)',
         TypeOK
  PROVE  GuardedCopiesCurrent'
<1>1. ASSUME NEW h \in Hosts, NEW k \in Keys, CacheCopy(h, k)'
      PROVE  Protected(h, k, cache[h][k])'
  <2>1. CacheCopy(h, k) /\ cache'[h][k] = cache[h][k] /\ cache[h][k] \in {Nil} \cup Values
    BY <1>1 DEF SameCache, TypeOK, LibTypeOK
  <2>2. Protected(h, k, cache[h][k])
    BY <2>1, CopyByCopy
  <2>3. \A v : v = cache[h][k] => Protected(h, k, v)'
    BY <1>1, <2>1, <2>2
  <2> QED BY <2>1, <2>3 DEF Protected
<1>2. ASSUME NEW p \in Procs, ReplyCopy(p)'
      PROVE  Protected(HostOf[p], req[p].key, reply[p].val)'
  <2>1. ReplyCopy(p) /\ reply'[p] = reply[p] /\ req'[p].key = req[p].key
    BY <1>2 DEF SameReply
  <2>2. HostOf[p] \in Hosts /\ req[p].key \in Keys /\ reply[p].val \in {Nil} \cup Values
    BY <2>1, ConstantAssumption DEF ReplyCopy, Replied, TypeOK, RpcTypeOK, Idle, Request, Reply
  <2>3. Protected(HostOf[p], req[p].key, reply[p].val)
    BY <2>1, CopyByCopy
  <2>4. \A h, k, v : h = HostOf[p] /\ k = req[p].key /\ v = reply[p].val => Protected(h, k, v)'
    BY <1>2, <2>2, <2>3
  <2> QED BY <2>1, <2>4 DEF Protected
<1>3. (GuardedCopiesCurrent <=>
    /\ \A h \in Hosts, k \in Keys : CacheCopy(h, k) => Protected(h, k, cache[h][k])
    /\ \A p \in Procs : ReplyCopy(p) => Protected(HostOf[p], req[p].key, reply[p].val))'
  BY CopyByCopy, PTL
<1> QED BY <1>1, <1>2, <1>3

\* A step that leaves the stored values and the update in progress alone, and loses no
\* lease record, takes no protection away.
LEMMA KeepsProtection ==
  ASSUME UNCHANGED <<storage, lock, todo, callee, done>>,
         lock # Nil => req'[lock] = req[lock],
         \A h \in Hosts, k \in Keys : tenants[k][h] # NoLease => tenants'[k][h] # NoLease,
         NEW h \in Hosts, NEW k \in Keys, NEW v, Protected(h, k, v)
  PROVE  Protected(h, k, v)'
BY DEF Protected, LockedKey

\* The history variables after Mark: in hosts H no copy of k is guarded.
LEMMA Unguarded ==
  ASSUME TypeOK, NEW H \in SUBSET Hosts, NEW k \in Keys, NEW m \in Marks \ {"guarded"}, Mark(H, k, m),
         UNCHANGED <<cache, hostUp>>, TypeOK'
  PROVE  /\ \A h \in Hosts, j \in Keys : SameCache(h, j)
         /\ \A h \in H : ~CacheCopy(h, k)'
         /\ \A p \in Procs : UNCHANGED <<req[p], reply[p]>> => SameReply(p)
         /\ \A p \in Procs : UNCHANGED <<req[p], reply[p]>> /\ HostOf[p] \in H /\ req[p].key = k
               => ~ReplyCopy(p)'
<1>1. /\ cacheMark' = MarkCache(H, k, m) /\ replyMark' = MarkReplies(H, k, m)
      /\ cacheMark \in [Hosts -> [Keys -> Marks]]
  BY DEF Mark, TypeOK
<1>2. \A h \in Hosts, j \in Keys : cacheMark'[h][j] =
         IF h \in H /\ j = k /\ cache[h][k] # Nil /\ cacheMark[h][k] = "guarded" THEN m ELSE cacheMark[h][j]
  BY <1>1 DEF MarkCache
<1>3. \A p \in Procs : replyMark'[p] =
         IF (\E h \in H : LeaseReply(p, h, k)) /\ replyMark[p] = "guarded" THEN m ELSE replyMark[p]
  BY <1>1 DEF MarkReplies
<1>4. \A h \in Hosts, j \in Keys : SameCache(h, j)
  BY <1>2 DEF SameCache, CacheCopy
<1>5. \A h \in H : ~CacheCopy(h, k)'
  BY <1>2 DEF CacheCopy
<1>6. \A p \in Procs : UNCHANGED <<req[p], reply[p]>> => SameReply(p)
  BY <1>3 DEF SameReply, ReplyCopy, Replied
<1>7. ASSUME NEW p \in Procs, UNCHANGED <<req[p], reply[p]>>, HostOf[p] \in H, req[p].key = k
      PROVE  ~ReplyCopy(p)'
  BY <1>3, <1>7 DEF ReplyCopy, Replied, LeaseReply
<1> QED BY <1>4, <1>5, <1>6, <1>7

\* The storage server's handlers keep every guarded copy current.
LEMMA ServeCopies ==
  ASSUME IndInv, TypeOK', NEW p \in Procs, Serve(p)
  PROVE  GuardedCopiesCurrent'
<1> USE DEF IndInv
<1> DEFINE r == req[p]
<1>0. /\ r.key \in Keys /\ HostOf[p] \in Hosts /\ req[p] # Nil /\ reply[p] = Nil
      /\ storage \in [Keys -> {Nil} \cup Values]
      /\ tenants \in [Keys -> [Hosts -> Ages \cup {NoLease}]]
      /\ reply \in [Procs -> {Nil} \cup Reply]
  <2>1. Waiting(p)
    BY ConstantAssumption DEF Serve, ServeFirst, ServeOther, AppendFirst, RefuseKey, Grant,
       Reject, Put, Delete, AppendToList, RemoveFromList, FinishUpdate, Enter, UpdateChecked
  <2> QED BY <2>1, ConstantAssumption DEF Waiting, TypeOK, RpcTypeOK, SrvTypeOK, Request
<1>1. CASE AppendFirst(p) /\ Mark(Hosts, r.key, "emptyAppend") /\ UNCHANGED libVars
  <2>0. PICK j \in Keys : j = r.key
    BY <1>0
  <2>1. \A q \in Procs \ {p} : UNCHANGED <<req[q], reply[q]>> /\ HostOf[q] \in Hosts
    BY <1>0, <1>1, ConstantAssumption DEF AppendFirst, Answer
  <2>2. /\ UNCHANGED <<cache, hostUp>> /\ "emptyAppend" \in Marks \ {"guarded"}
        /\ Hosts \in SUBSET Hosts /\ Mark(Hosts, j, "emptyAppend")
    BY <1>1, <2>0 DEF AppendFirst, libVars, Marks
  <2>3. /\ \A h \in Hosts, k \in Keys : SameCache(h, k)
        /\ \A h \in Hosts : ~CacheCopy(h, j)'
        /\ \A q \in Procs : UNCHANGED <<req[q], reply[q]>> => SameReply(q)
        /\ \A q \in Procs : UNCHANGED <<req[q], reply[q]>> /\ HostOf[q] \in Hosts /\ req[q].key = j
             => ~ReplyCopy(q)'
    BY <2>2, Unguarded
  <2>4. ~ReplyCopy(p)'
    BY <1>0, <1>1 DEF AppendFirst, Answer, ReplyCopy
  <2>5. ASSUME NEW h \in Hosts, NEW k \in Keys, NEW v, k # j, Protected(h, k, v)
        PROVE  Protected(h, k, v)'
    BY <1>0, <1>1, <2>0, <2>5 DEF AppendFirst, Enter, Protected
  <2>6. \A q \in Procs : SameReply(q) /\ (req[q].key = j => ~ReplyCopy(q)')
    BY <2>1, <2>3, <2>4 DEF SameReply
  <2>7. \A h \in Hosts, k \in Keys, v \in {Nil} \cup Values :
          Protected(h, k, v) /\ (CacheCopy(h, k)' \/ \E q \in Procs : ReplyCopy(q)' /\ HostOf[q] = h /\ req[q].key = k)
            => Protected(h, k, v)'
    BY <2>3, <2>5, <2>6
  <2> QED BY <2>3, <2>6, <2>7, NoNewCopies
<1>2. CASE (RefuseKey(p) \/ Reject(p)) /\ UNCHANGED <<libVars, histVars>>
  <2>1. \A q \in Procs : SameReply(q)
    BY <1>0, <1>2 DEF RefuseKey, Reject, Answer, SameReply, ReplyCopy, Replied, histVars
  <2>2. \A h \in Hosts, k \in Keys : SameCache(h, k)
    BY <1>2 DEF SameCache, CacheCopy, libVars, histVars
  <2>3. \A h \in Hosts, k \in Keys, v \in {Nil} \cup Values : Protected(h, k, v) => Protected(h, k, v)'
    BY <1>2, KeepsProtection DEF RefuseKey, Reject, srvVars
  <2> QED BY <2>1, <2>2, <2>3, NoNewCopies
<1>3. CASE Grant(p) /\ UNCHANGED <<libVars, histVars>>
  <2>1. /\ \A h \in Hosts, k \in Keys : tenants[k][h] # NoLease => tenants'[k][h] # NoLease
        /\ r.want => tenants'[r.key][HostOf[p]] # NoLease
    <3>1. CASE r.want
      BY <1>0, <1>3, <3>1, AgeFacts DEF Grant, recordLease
    <3>2. CASE ~r.want
      BY <1>3, <3>2 DEF Grant
    <3> QED BY <3>1, <3>2
  <2>2. /\ lock = Nil /\ UNCHANGED <<storage, lock, todo, callee, done, req, hostUp>>
        /\ reply' = [reply EXCEPT ![p] = [status |-> "OK", val |-> storage[r.key], lease |-> r.want]]
    BY <1>3 DEF Grant, Enter, Answer
  <2>3. ASSUME NEW h \in Hosts, NEW k \in Keys, NEW v, Protected(h, k, v) PROVE Protected(h, k, v)'
    BY <2>1, <2>2, <2>3, KeepsProtection
  <2>4. ASSUME NEW h \in Hosts, NEW k \in Keys, CacheCopy(h, k)' PROVE Protected(h, k, cache[h][k])'
    <3>1. CacheCopy(h, k) /\ cache' = cache
      BY <1>3, <2>4 DEF CacheCopy, libVars, histVars
    <3>2. Protected(h, k, cache[h][k])
      BY <3>1, CopyByCopy
    <3> QED BY <2>3, <3>1, <3>2 DEF Protected
  <2>5. ASSUME NEW q \in Procs, ReplyCopy(q)' PROVE Protected(HostOf[q], req[q].key, reply[q].val)'
    <3>1. CASE q = p
      BY <1>0, <2>1, <2>2, <2>5, <3>1 DEF Protected, ReplyCopy
    <3>2. CASE q # p
      <4>1. ReplyCopy(q) /\ reply'[q] = reply[q]
        BY <1>0, <1>3, <2>2, <2>5, <3>2 DEF ReplyCopy, Replied, histVars
      <4>2. HostOf[q] \in Hosts /\ req[q].key \in Keys
        BY <4>1, ConstantAssumption DEF ReplyCopy, Replied, TypeOK, RpcTypeOK, Idle, Request
      <4>3. Protected(HostOf[q], req[q].key, reply[q].val)
        BY <4>1, CopyByCopy
      <4> QED BY <2>1, <2>2, <4>1, <4>2, <4>3 DEF Protected, LockedKey
    <3> QED BY <3>1, <3>2
  <2> QED BY <2>4, <2>5 DEF GuardedCopiesCurrent, CacheCopy, ReplyCopy
<1>4. CASE (Put(p) \/ Delete(p) \/ AppendToList(p) \/ RemoveFromList(p)) /\ UNCHANGED <<libVars, histVars>>
  <2>1. lock = Nil /\ StartRevoke(p) /\ callee = Nil
    BY <1>4 DEF Put, Delete, AppendToList, RemoveFromList, Enter, CalleeOfUpdate
  <2>2. \A q \in Procs : SameReply(q)
    BY <1>4, <2>1 DEF StartRevoke, rpcVars, SameReply, ReplyCopy, Replied, histVars
  <2>3. \A h \in Hosts, k \in Keys : SameCache(h, k)
    BY <1>4 DEF SameCache, CacheCopy, libVars, histVars
  <2>4. ASSUME NEW h \in Hosts, NEW k \in Keys, NEW v, Protected(h, k, v) PROVE Protected(h, k, v)'
    BY <2>1, <2>4, ConstantAssumption DEF Protected, StartRevoke, rpcVars, Tenants, LockedKey
  <2> QED BY <2>2, <2>3, <2>4, NoNewCopies
<1>5. CASE FinishUpdate(p) /\ UNCHANGED <<libVars, histVars>>
  <2>1. lock = p /\ todo = {} /\ lock' = Nil /\ lock # Nil
    BY <1>5, ConstantAssumption DEF FinishUpdate
  <2>2. \A q \in Procs : SameReply(q)
    BY <1>0, <1>5 DEF FinishUpdate, Answer, SameReply, ReplyCopy, Replied, histVars
  <2>3. \A h \in Hosts, k \in Keys : SameCache(h, k)
    BY <1>5 DEF SameCache, CacheCopy, libVars, histVars
  <2>4. ASSUME NEW h \in Hosts, NEW k \in Keys, NEW v, Protected(h, k, v) PROVE Protected(h, k, v)'
    <3>1. k # r.key
      BY <2>1, <2>4 DEF Protected, LockedKey
    <3>2. storage'[k] = storage[k] /\ tenants'[k] = tenants[k]
      BY <1>0, <1>5, <3>1 DEF FinishUpdate
    <3> QED BY <2>1, <2>4, <3>2 DEF Protected
  <2> QED BY <2>2, <2>3, <2>4, NoNewCopies
<1> QED BY <1>1, <1>2, <1>3, <1>4, <1>5 DEF Serve, ServeFirst, ServeOther

\* The loop of revokeLease: a holder leaves the list only when it has no guarded copy.
LEMMA RevokingCopies ==
  ASSUME IndInv, TypeOK', NEW h \in Hosts, Revoking(h)
  PROVE  GuardedCopiesCurrent'
<1> USE DEF IndInv
<1>0. lock # Nil /\ LockedKey \in Keys
  <2>1. lock # Nil
    BY DEF Revoking, LeaveExpired, LeaveBroken, RevokeStep, ServerDies, SkipExpired, CallBroken,
       CallRevoke, DialFatal, RevokeDone, RevokeTimeout, NextTenant, CalleeOfUpdate
  <2> QED BY <2>1, LockedKeyType
<1>1. PICK j \in Keys : j = LockedKey
  BY <1>0
<1>2. UNCHANGED <<req, reply, hostUp, cache, storage, tenants>>
  BY DEF Revoking, LeaveExpired, LeaveBroken, RevokeStep, ServerDies, SkipExpired, CallBroken,
     CallRevoke, DialFatal, RevokeDone, RevokeTimeout, rpcVars, libVars
<1>3. ASSUME NEW m \in Marks \ {"guarded"}, Mark({h}, LockedKey, m),
             lock' = lock, todo' = todo \ {h}, callee' = Nil
      PROVE  GuardedCopiesCurrent'
  <2>1. {h} \in SUBSET Hosts /\ Mark({h}, j, m) /\ UNCHANGED <<cache, hostUp>>
    BY <1>1, <1>2, <1>3
  <2>2. /\ \A g \in Hosts, k \in Keys : SameCache(g, k)
        /\ \A g \in {h} : ~CacheCopy(g, j)'
        /\ \A q \in Procs : UNCHANGED <<req[q], reply[q]>> => SameReply(q)
        /\ \A q \in Procs : UNCHANGED <<req[q], reply[q]>> /\ HostOf[q] \in {h} /\ req[q].key = j
             => ~ReplyCopy(q)'
    BY <2>1, Unguarded
  <2>3. ASSUME NEW g \in Hosts, NEW k \in Keys, NEW v, <<g, k>> # <<h, j>>, Protected(g, k, v)
        PROVE  Protected(g, k, v)'
    BY <1>1, <1>2, <1>3, <2>3, ConstantAssumption DEF Protected, LockedKey
  <2>4. \A q \in Procs : SameReply(q) /\ (HostOf[q] = h /\ req[q].key = j => ~ReplyCopy(q)')
    BY <1>2, <2>2
  <2>5. \A g \in Hosts, k \in Keys, v \in {Nil} \cup Values :
          Protected(g, k, v) /\ (CacheCopy(g, k)' \/ \E q \in Procs : ReplyCopy(q)' /\ HostOf[q] = g /\ req[q].key = k)
            => Protected(g, k, v)'
    BY <2>2, <2>3, <2>4
  <2> QED BY <2>2, <2>4, <2>5, NoNewCopies
<1>4. ASSUME UNCHANGED histVars,
             \A g \in Hosts, k \in Keys, v \in {Nil} \cup Values : Protected(g, k, v) => Protected(g, k, v)'
      PROVE  GuardedCopiesCurrent'
  <2>1. \A g \in Hosts, k \in Keys : SameCache(g, k)
    BY <1>2, <1>4 DEF SameCache, CacheCopy, histVars
  <2>2. \A q \in Procs : SameReply(q)
    BY <1>2, <1>4 DEF SameReply, ReplyCopy, Replied, histVars
  <2> QED BY <1>4, <2>1, <2>2, NoNewCopies
<1>5. CASE LeaveExpired(h)
  <2>1. Mark({h}, LockedKey, "expired") /\ "expired" \in Marks \ {"guarded"}
    BY <1>5 DEF LeaveExpired, Marks
  <2>2. lock' = lock /\ todo' = todo \ {h} /\ callee' = Nil
    BY <1>5 DEF LeaveExpired, SkipExpired, RevokeTimeout, NextTenant, rpcVars
  <2> QED BY <1>3, <2>1, <2>2
<1>6. CASE LeaveBroken(h)
  <2>1. Mark({h}, LockedKey, "deadConn") /\ "deadConn" \in Marks \ {"guarded"}
    BY <1>6 DEF LeaveBroken, Marks
  <2>2. lock' = lock /\ todo' = todo \ {h} /\ callee' = Nil
    BY <1>6 DEF LeaveBroken, CallBroken, NextTenant, rpcVars
  <2> QED BY <1>3, <2>1, <2>2
<1>7. CASE RevokeStep(h)
  <2>1. ASSUME NEW g \in Hosts, NEW k \in Keys, NEW v, Protected(g, k, v) PROVE Protected(g, k, v)'
    <3>1. CASE CallRevoke(h)
      BY <1>2, <2>1, <3>1 DEF CallRevoke, Protected, LockedKey
    <3>2. CASE RevokeDone /\ callee = h
      BY <1>2, <2>1, <3>2, ConstantAssumption DEF RevokeDone, Protected, LockedKey
    <3> QED BY <1>7, <3>1, <3>2 DEF RevokeStep
  <2>2. UNCHANGED histVars
    BY <1>7 DEF RevokeStep
  <2> QED BY <1>4, <2>1, <2>2
<1>8. CASE ServerDies(h)
  <2>1. ASSUME NEW g \in Hosts, NEW k \in Keys, NEW v, Protected(g, k, v) PROVE Protected(g, k, v)'
    BY <1>2, <1>8, <2>1 DEF ServerDies, DialFatal, Protected
  <2>2. UNCHANGED histVars
    BY <1>8 DEF ServerDies
  <2> QED BY <1>4, <2>1, <2>2
<1> QED BY <1>5, <1>6, <1>7, <1>8 DEF Revoking

\* A reply that reaches the cache takes its protection along.
LEMMA ReturnCopies ==
  ASSUME IndInv, TypeOK', NEW p \in Procs, ClientReturn(p)
  PROVE  GuardedCopiesCurrent'
<1> USE DEF IndInv
<1>1. Replied(p) /\ Finish(p) /\ UNCHANGED <<srvVars, callee, done, hostUp>> /\ HostOf[p] \in Hosts
  BY ConstantAssumption DEF ClientReturn, ReturnStatus, ReturnRead, Finish
<1>2. /\ req \in [Procs -> {Nil} \cup Request] /\ reply \in [Procs -> {Nil} \cup Reply]
      /\ replyMark \in [Procs -> Marks] /\ cacheMark \in [Hosts -> [Keys -> Marks]]
      /\ cache \in [Hosts -> [Keys -> {Nil} \cup Values]]
      /\ req[p].key \in Keys
  BY <1>1 DEF TypeOK, RpcTypeOK, LibTypeOK, Idle, Replied, Request
<1>3. lock # Nil => lock \in Procs /\ lock # p
  BY <1>1, ConstantAssumption DEF UpdateChecked, Waiting, Replied, TypeOK, SrvTypeOK
<1>4. lock # Nil => req'[lock] = req[lock]
  BY <1>1, <1>2, <1>3 DEF Finish
<1>5. ASSUME NEW h \in Hosts, NEW k \in Keys, NEW v, Protected(h, k, v) PROVE Protected(h, k, v)'
  BY <1>1, <1>4, <1>5, KeepsProtection DEF srvVars
<1>6. \A q \in Procs : SameReply(q)
  <2>1. replyMark' = [replyMark EXCEPT ![p] = "guarded"]
    BY DEF ClientReturn
  <2> QED BY <1>1, <1>2, <2>1 DEF Finish, SameReply, ReplyCopy, Replied
<1>7. CASE ReturnStatus(p) /\ UNCHANGED cacheMark
  <2>1. \A h \in Hosts, k \in Keys : SameCache(h, k)
    BY <1>7 DEF ReturnStatus, SameCache, CacheCopy
  <2> QED BY <1>5, <1>6, <2>1, NoNewCopies
<1>8. CASE /\ ReturnRead(p)
           /\ cacheMark' = IF req[p].want
                           THEN [cacheMark EXCEPT ![HostOf[p]][req[p].key] = replyMark[p]]
                           ELSE cacheMark
  <2>1. CASE ~req[p].want
    <3>1. \A h \in Hosts, k \in Keys : SameCache(h, k)
      BY <1>8, <2>1 DEF ReturnRead, SameCache, CacheCopy
    <3> QED BY <1>5, <1>6, <3>1, NoNewCopies
  <2>2. CASE req[p].want
    <3>1. reply[p].lease /\ hostUp[HostOf[p]] /\ reply[p].val # Nil
      BY <1>8, <2>2 DEF ReturnRead, ReadReplies
    <3>2. /\ cache' = [cache EXCEPT ![HostOf[p]][req[p].key] = reply[p].val]
          /\ cacheMark' = [cacheMark EXCEPT ![HostOf[p]][req[p].key] = replyMark[p]]
      BY <1>8, <2>2 DEF ReturnRead
    <3>3. ASSUME NEW h \in Hosts, NEW k \in Keys, CacheCopy(h, k)' PROVE Protected(h, k, cache[h][k])'
      <4>1. PICK v : v = cache'[h][k]
        OBVIOUS
      <4>2. CASE h = HostOf[p] /\ k = req[p].key
        <5>1. cache'[h][k] = reply[p].val /\ cacheMark'[h][k] = replyMark[p]
          BY <1>2, <3>2, <4>2
        <5>2. ReplyCopy(p)
          BY <1>1, <3>1, <3>3, <5>1 DEF CacheCopy, ReplyCopy
        <5>3. Protected(h, k, v)
          BY <4>1, <4>2, <5>1, <5>2, CopyByCopy
        <5> QED BY <1>5, <4>1, <5>3 DEF Protected
      <4>3. CASE ~(h = HostOf[p] /\ k = req[p].key)
        <5>1. cache'[h][k] = cache[h][k] /\ cacheMark'[h][k] = cacheMark[h][k]
          BY <1>1, <1>2, <3>2, <4>3
        <5>2. Protected(h, k, v)
          BY <3>3, <4>1, <5>1, CopyByCopy DEF CacheCopy
        <5> QED BY <1>5, <4>1, <5>2 DEF Protected
      <4> QED BY <4>2, <4>3
    <3>4. ASSUME NEW q \in Procs, ReplyCopy(q)' PROVE Protected(HostOf[q], req[q].key, reply[q].val)'
      <4>1. ReplyCopy(q) /\ reply'[q] = reply[q] /\ req'[q].key = req[q].key
        BY <1>6, <3>4 DEF SameReply
      <4>2. HostOf[q] \in Hosts /\ req[q].key \in Keys
        BY <4>1, ConstantAssumption DEF ReplyCopy, Replied, TypeOK, RpcTypeOK, Idle, Request
      <4>3. PICK h \in Hosts, k \in Keys : h = HostOf[q] /\ k = req[q].key
        BY <4>2
      <4>4. PICK v : v = reply[q].val
        OBVIOUS
      <4>5. Protected(h, k, v)
        BY <4>1, <4>3, <4>4, CopyByCopy
      <4> QED BY <1>5, <4>1, <4>3, <4>4, <4>5 DEF Protected
    <3> QED BY <3>3, <3>4 DEF GuardedCopiesCurrent, CacheCopy, ReplyCopy
  <2> QED BY <2>1, <2>2
<1> QED BY <1>7, <1>8 DEF ClientReturn

\* The death of an app server: its copies are gone, so the call to it counts as done.
LEMMA DeathCopies ==
  ASSUME IndInv, NEW h \in Hosts, HostDies(h)
  PROVE  GuardedCopiesCurrent'
<1> USE DEF IndInv
<1>1. /\ UNCHANGED <<req, reply, callee, storage, tenants, lock, todo, replyMark>>
      /\ hostUp' = [hostUp EXCEPT ![h] = FALSE] /\ hostUp \in [Hosts -> BOOLEAN]
      /\ cache \in [Hosts -> [Keys -> {Nil} \cup Values]]
      /\ cacheMark \in [Hosts -> [Keys -> Marks]]
      /\ \A q \in Procs : HostOf[q] \in Hosts
  BY ConstantAssumption DEF HostDies, TypeOK, RpcTypeOK, LibTypeOK
<1>2. \A g \in Hosts, k \in Keys : SameCache(g, k) /\ (g = h => ~CacheCopy(g, k)')
  BY <1>1 DEF HostDies, SameCache, CacheCopy
<1>3. \A q \in Procs : SameReply(q) /\ (HostOf[q] = h => ~ReplyCopy(q)')
  BY <1>1 DEF SameReply, ReplyCopy, Replied
<1>4. ASSUME NEW g \in Hosts, NEW k \in Keys, NEW v, g # h, Protected(g, k, v)
      PROVE  Protected(g, k, v)'
  BY <1>1, <1>4 DEF HostDies, Protected, LockedKey
<1>5. \A g \in Hosts, k \in Keys, v \in {Nil} \cup Values :
        Protected(g, k, v) /\ (CacheCopy(g, k)' \/ \E q \in Procs : ReplyCopy(q)' /\ HostOf[q] = g /\ req[q].key = k)
          => Protected(g, k, v)'
  BY <1>2, <1>3, <1>4
<1> QED BY <1>2, <1>3, <1>5, NoNewCopies

\* RevokeLease leaves its host without a guarded copy of the key.
LEMMA RevokedCopies ==
  ASSUME IndInv, NEW h \in Hosts, NEW j \in Keys, RevokeLease(h, j)
  PROVE  GuardedCopiesCurrent'
<1> USE DEF IndInv
<1>1. /\ UNCHANGED <<req, reply, callee, hostUp, storage, tenants, lock, todo>>
      /\ cache' = [cache EXCEPT ![h][j] = Nil]
      /\ cacheMark' = [cacheMark EXCEPT ![h][j] = "guarded"]
      /\ cache \in [Hosts -> [Keys -> {Nil} \cup Values]]
      /\ cacheMark \in [Hosts -> [Keys -> Marks]]
  BY DEF RevokeLease, DropLease, srvVars, TypeOK, LibTypeOK
<1>2. \A g \in Hosts, k \in Keys : SameCache(g, k) /\ (g = h /\ k = j => ~CacheCopy(g, k)')
  BY <1>1 DEF SameCache, CacheCopy
<1>3. CASE callee = h /\ ~done /\ j = LockedKey /\ done' = TRUE /\ replyMark' = MarkReplies({h}, j, "overtaken")
  <2>1. \A q \in Procs : SameReply(q) /\ (HostOf[q] = h /\ req[q].key = j => ~ReplyCopy(q)')
    BY <1>1, <1>3 DEF MarkReplies, LeaseReply, SameReply, ReplyCopy, Replied
  <2>2. ASSUME NEW g \in Hosts, NEW k \in Keys, NEW v, <<g, k>> # <<h, j>>, Protected(g, k, v)
        PROVE  Protected(g, k, v)'
    BY <1>1, <1>3, <2>2 DEF Protected, LockedKey
  <2>3. \A g \in Hosts, k \in Keys, v \in {Nil} \cup Values :
          Protected(g, k, v) /\ (CacheCopy(g, k)' \/ \E q \in Procs : ReplyCopy(q)' /\ HostOf[q] = g /\ req[q].key = k)
            => Protected(g, k, v)'
    BY <1>2, <2>1, <2>2
  <2> QED BY <1>2, <2>1, <2>3, NoNewCopies
<1>4. CASE UNCHANGED <<done, replyMark>>
  <2>1. \A q \in Procs : SameReply(q)
    BY <1>1, <1>4 DEF SameReply, ReplyCopy, Replied
  <2>2. ASSUME NEW g \in Hosts, NEW k \in Keys, NEW v, Protected(g, k, v) PROVE Protected(g, k, v)'
    BY <1>1, <1>4, <2>2, KeepsProtection
  <2> QED BY <1>2, <2>1, <2>2, NoNewCopies
<1> QED BY <1>3, <1>4 DEF RevokeLease, RevokeArrives

\* The steps that touch neither the server nor a revocation.
LEMMA QuietCopies ==
  ASSUME IndInv,
         \/ \E p \in Procs : CallFails(p) \/ \E c \in Workload : ClientCall(p, c)
         \/ \E h \in Hosts : Recycler(h) \/ Restart(h)
         \/ Tick
  PROVE  GuardedCopiesCurrent'
<1> USE DEF IndInv
<1>0. /\ req \in [Procs -> {Nil} \cup Request] /\ reply \in [Procs -> {Nil} \cup Reply]
      /\ cache \in [Hosts -> [Keys -> {Nil} \cup Values]]
      /\ cacheMark \in [Hosts -> [Keys -> Marks]]
      /\ hostUp \in [Hosts -> BOOLEAN]
      /\ lock # Nil => lock \in Procs /\ srvUp /\ Waiting(lock)
  BY DEF TypeOK, RpcTypeOK, SrvTypeOK, LibTypeOK, UpdateChecked
<1>1. ASSUME UNCHANGED <<srvVars, callee, done>>, lock # Nil => req'[lock] = req[lock],
             \A h \in Hosts, k \in Keys : SameCache(h, k), \A q \in Procs : SameReply(q)
      PROVE  GuardedCopiesCurrent'
  <2>1. ASSUME NEW h \in Hosts, NEW k \in Keys, NEW v, Protected(h, k, v) PROVE Protected(h, k, v)'
    BY <1>1, <2>1, KeepsProtection DEF srvVars
  <2> QED BY <1>1, <2>1, NoNewCopies
<1>2. ASSUME UNCHANGED <<cache, cacheMark>> PROVE \A h \in Hosts, k \in Keys : SameCache(h, k)
  BY <1>2 DEF SameCache, CacheCopy
<1>3. ASSUME NEW p \in Procs, CallFails(p) PROVE GuardedCopiesCurrent'
  <2>1. lock = Nil /\ UNCHANGED <<srvVars, callee, done, cache, cacheMark>>
    BY <1>0, <1>3 DEF CallFails, histVars
  <2>2. \A q \in Procs : SameReply(q)
    BY <1>0, <1>3 DEF CallFails, Waiting, histVars, SameReply, ReplyCopy, Replied
  <2> QED BY <1>1, <1>2, <2>1, <2>2
<1>4. ASSUME NEW p \in Procs, NEW c \in Workload, ClientCall(p, c) PROVE GuardedCopiesCurrent'
  <2>1. /\ UNCHANGED <<srvVars, callee, done, cache, cacheMark, reply, replyMark, hostUp>>
        /\ \A q \in Procs : req[q] # Nil => req'[q] = req[q]
    BY <1>0, <1>4 DEF ClientCall, ReadCached, ReadRemote, SendUpdate, Send, Call, Idle, rpcVars, histVars
  <2>2. \A q \in Procs : reply[q] # Nil => req[q] # Nil
    BY DEF TypeOK, RpcTypeOK, Idle
  <2>3. \A q \in Procs : SameReply(q)
    BY <2>1, <2>2 DEF SameReply, ReplyCopy, Replied
  <2>4. lock # Nil => req'[lock] = req[lock]
    BY <1>0, <2>1 DEF Waiting
  <2> QED BY <1>1, <1>2, <2>1, <2>3, <2>4
<1>5. ASSUME NEW h \in Hosts, Recycler(h) PROVE GuardedCopiesCurrent'
  <2>1. UNCHANGED <<srvVars, rpcVars, replyMark>>
    BY <1>5 DEF Recycler, RecyclePick, Recycle
  <2>2. \A g \in Hosts, k \in Keys : SameCache(g, k)
    <3>1. CASE \E k \in Keys : RecyclePick(h, k) /\ UNCHANGED cacheMark
      BY <1>2, <3>1 DEF RecyclePick
    <3>2. CASE /\ Recycle(h)
               /\ cacheMark' = [cacheMark EXCEPT ![h] =
                                  [k \in Keys |-> IF cache'[h][k] = Nil THEN "guarded" ELSE @[k]]]
      <4>1. \A g \in Hosts, k \in Keys : cache'[g][k] \in {Nil, cache[g][k]}
        <5>1. recycling[h] \in Keys
          BY <3>2 DEF Recycle, TypeOK, LibTypeOK
        <5>2. cache' = cache \/ cache' = [cache EXCEPT ![h][recycling[h]] = Nil]
          BY <3>2 DEF Recycle
        <5> QED BY <1>0, <5>1, <5>2
      <4>2. \A g \in Hosts, k \in Keys : cache'[g][k] # Nil => cacheMark'[g][k] = cacheMark[g][k]
        BY <1>0, <3>2
      <4> QED BY <4>1, <4>2 DEF SameCache, CacheCopy
    <3> QED BY <1>5, <3>1, <3>2 DEF Recycler
  <2>3. \A q \in Procs : SameReply(q)
    BY <2>1 DEF SameReply, ReplyCopy, Replied, rpcVars
  <2> QED BY <1>1, <2>1, <2>2, <2>3 DEF rpcVars
<1>6. ASSUME NEW h \in Hosts, Restart(h) PROVE GuardedCopiesCurrent'
  <2>1. UNCHANGED <<srvVars, callee, done, cache, cacheMark>>
    BY <1>6 DEF Restart, libVars
  <2>2. \A q \in Procs : SameReply(q)
    BY <1>0, <1>6, ConstantAssumption DEF Restart, SameReply, ReplyCopy, Replied
  <2>3. lock # Nil => req'[lock] = req[lock]
    BY <1>0, <1>6 DEF Restart
  <2> QED BY <1>1, <1>2, <2>1, <2>2, <2>3
<1>7. CASE Tick
  <2>1. UNCHANGED <<rpcVars, storage, lock, todo, cache, replyMark, cacheMark>>
    BY <1>7 DEF Tick
  <2>2. \A h \in Hosts, k \in Keys : tenants[k][h] # NoLease => tenants'[k][h] # NoLease
    BY <1>7, AgeFacts DEF Tick, TypeOK, SrvTypeOK
  <2>3. ASSUME NEW h \in Hosts, NEW k \in Keys, NEW v, Protected(h, k, v) PROVE Protected(h, k, v)'
    BY <2>1, <2>2, <2>3, KeepsProtection DEF rpcVars
  <2>4. \A q \in Procs : SameReply(q)
    BY <2>1 DEF SameReply, ReplyCopy, Replied, rpcVars
  <2> QED BY <1>2, <2>1, <2>3, <2>4, NoNewCopies
<1> QED BY <1>3, <1>4, <1>5, <1>6, <1>7

(***************************************************************************)
(* The theorems.                                                           *)
(***************************************************************************)

\* The initial state: nothing stored, nothing cached, nobody waiting.
LEMMA InitInv == Init => IndInv
<1> SUFFICES ASSUME Init PROVE IndInv
  OBVIOUS
<1> USE DEF Init, RpcInit, SrvInit, LibInit
<1>1. RpcTypeOK /\ SrvTypeOK
  <2>1. RpcTypeOK
    <3>1. 0 \in 0 .. MaxLate
      BY TimeAssumption
    <3>2. late \in [Hosts -> [Keys -> 0 .. MaxLate]]
      BY <3>1
    <3>3. req \in [Procs -> {Nil} \cup Request] /\ reply \in [Procs -> {Nil} \cup Reply]
      OBVIOUS
    <3> QED BY <3>2, <3>3 DEF RpcTypeOK, Idle
  <2>2. SrvTypeOK
    BY DEF SrvTypeOK
  <2> QED BY <2>1, <2>2
<1>2. LibTypeOK
  BY EmptySeq, TimeAssumption DEF LibTypeOK
<1>3. TypeOK
  BY <1>1, <1>2, TimeAssumption DEF TypeOK, Marks
<1>4. UpdateChecked /\ CalleeOfUpdate /\ ReadReplies /\ GrantedIsCached /\ LeaseOnlyOnStoredKey
  BY DEF UpdateChecked, CalleeOfUpdate, ReadReplies, Replied, GrantedIsCached, LeaseOnlyOnStoredKey, Tenants
<1>5. GuardedCopiesCurrent
  BY DEF GuardedCopiesCurrent, Replied
<1> QED BY <1>3, <1>4, <1>5 DEF IndInv

\* Every step of the server, the libstores, the clock and the crashes preserves IndInv.
LEMMA StepInv == IndInv /\ [Next]_vars => IndInv'
<1> SUFFICES ASSUME IndInv, [Next]_vars PROVE IndInv'
  OBVIOUS
<1>1. CASE Next
  <2>1. TypeOK'
    <3>1. ASSUME NEW h \in Hosts, NEW k \in Keys, RevokeLease(h, k) \/ RevokePanic(h, k) PROVE TypeOK'
      BY <3>1, HostType
    <3> QED BY <1>1, <3>1, ServeType, RevokingType, CallType, ReturnType, HostType, TickType DEF Next, Step
  <2>2. UpdateChecked' /\ CalleeOfUpdate' /\ ReadReplies' /\ LeaseOnlyOnStoredKey' /\ GrantedIsCached'
    BY <1>1, LockStep, ReplyStep, LeaseStep, CacheStep
  <2>3. GuardedCopiesCurrent'
    <3>1. ASSUME NEW p \in Procs, NEW c \in Workload, ClientFatal(p, c) PROVE GuardedCopiesCurrent'
      BY <3>1, DeathCopies, ConstantAssumption DEF ClientFatal
    <3>2. ASSUME NEW h \in Hosts, NEW k \in Keys, RevokeLease(h, k) \/ RevokePanic(h, k)
          PROVE  GuardedCopiesCurrent'
      BY <3>2, RevokedCopies, DeathCopies DEF RevokePanic
    <3>3. ASSUME NEW h \in Hosts, Crash(h) PROVE GuardedCopiesCurrent'
      BY <3>3, DeathCopies DEF Crash
    <3> QED BY <1>1, <2>1, <3>1, <3>2, <3>3, ServeCopies, RevokingCopies, ReturnCopies, QuietCopies
            DEF Next, Step
  <2> QED BY <2>1, <2>2, <2>3 DEF IndInv
<1>2. CASE UNCHANGED vars
  <2> USE <1>2 DEF IndInv, vars, rpcVars, srvVars, libVars, histVars
  <2>1. RpcTypeOK' /\ SrvTypeOK' /\ LibTypeOK' /\ TypeOK'
    BY DEF TypeOK, RpcTypeOK, SrvTypeOK, LibTypeOK, Idle
  <2>2. UpdateChecked' /\ CalleeOfUpdate' /\ ReadReplies'
    BY DEF UpdateChecked, CalleeOfUpdate, ReadReplies, Waiting, Replied
  <2>3. GrantedIsCached' /\ LeaseOnlyOnStoredKey'
    BY DEF GrantedIsCached, HasRecord, LeaseOnlyOnStoredKey, Tenants
  <2>4. GuardedCopiesCurrent'
    BY DEF GuardedCopiesCurrent, Protected, LockedKey, Replied
  <2> QED BY <2>1, <2>2, <2>3, <2>4
<1> QED BY <1>1, <1>2

\* IndInv holds in every reachable state, for every instance.
THEOREM Invariance == Spec => []IndInv
BY InitInv, StepInv, PTL DEF Spec

\* The variables of the server, the libstores and the RPCs keep their types.
THEOREM TypeCorrect == Spec => []TypeOK
<1>1. IndInv => TypeOK
  BY DEF IndInv
<1> QED BY <1>1, Invariance, PTL

\* Lease coherence: a copy that the server granted under a lease is the stored value, and
\* the server knows its holder, until one of the four named reasons gives it up.
THEOREM LeaseCoherence == Spec => []GuardedCopiesCurrent
<1>1. IndInv => GuardedCopiesCurrent
  BY DEF IndInv
<1> QED BY <1>1, Invariance, PTL

\* The log.Fatal("Cache inconsistent") of Get and GetList is never reached.
THEOREM CacheConsistent == Spec => []GrantedIsCached
<1>1. IndInv => GrantedIsCached
  BY DEF IndInv
<1> QED BY <1>1, Invariance, PTL

\* Lease records exist for stored keys only, so creating a key needs no revocation.
THEOREM NoLeaseOnAbsentKey == Spec => []LeaseOnlyOnStoredKey
<1>1. IndInv => LeaseOnlyOnStoredKey
  BY DEF IndInv
<1> QED BY <1>1, Invariance, PTL

(***************************************************************************)
(* The storage server implements AtomicStore: a call takes effect in the   *)
(* one step that answers it.                                               *)
(***************************************************************************)

\* Steps of leases, caches and connections are invisible.
LEMMA Stutters ==
  UNCHANGED <<storage, req, reply>> => [Atomic!Next]_Atomic!vars
BY DEF Atomic!vars

\* To execute p's call is to give it the outcome its key's value asks for.
LEMMA Executes ==
  ASSUME IndInv, NEW p \in Procs, Waiting(p), UNCHANGED req,
         NEW status, NEW val, NEW next, NEW lease \in BOOLEAN,
         Atomic!Outcome(req[p], storage[req[p].key]) = [status |-> status, val |-> val, next |-> next],
         Answer(p, status, val, lease),
         storage' = [storage EXCEPT ![req[p].key] = next]
  PROVE  Atomic!Next
<1> DEFINE o == Atomic!Outcome(req[p], storage[req[p].key])
<1>0. /\ o.status = status /\ o.val = val /\ o.next = next
      /\ req[p] # Nil /\ reply[p] = Nil
      /\ reply' = [reply EXCEPT ![p] = [status |-> o.status, val |-> o.val, lease |-> lease]]
  BY DEF Answer, Waiting
<1> HIDE DEF o
<1>1. Atomic!Execute(p)
  BY <1>0 DEF Atomic!Execute, o
<1> QED BY <1>1 DEF Atomic!Next

\* A refusal, a read, and an early return leave the value as it is.
LEMMA AnswersAtomic ==
  ASSUME IndInv, NEW p \in Procs, RefuseKey(p) \/ Grant(p) \/ Reject(p)
  PROVE  Atomic!Next
<1> DEFINE r == req[p]
           v == storage[req[p].key]
<1>1. /\ Waiting(p) /\ UNCHANGED <<req, storage>>
      /\ r \in Request /\ r.key \in Keys /\ r.want \in BOOLEAN /\ r.op \in Reads \cup Updates
  BY ConstantAssumption DEF IndInv, TypeOK, RpcTypeOK, RefuseKey, Grant, Reject, Enter, Waiting, Request, srvVars
<1>2. storage' = [storage EXCEPT ![r.key] = v]
  BY <1>1 DEF IndInv, TypeOK, SrvTypeOK
<1>3. CASE RefuseKey(p)
  <2>1. Atomic!Outcome(r, v) = [status |-> "WrongServer", val |-> Nil, next |-> v]
    BY <1>3 DEF RefuseKey, keyRangeContains, Atomic!Outcome
  <2>2. Answer(p, "WrongServer", Nil, FALSE)
    BY <1>3 DEF RefuseKey
  <2> QED BY <1>1, <1>2, <2>1, <2>2, Executes
<1>4. CASE Grant(p)
  <2>1. Atomic!Outcome(r, v) = [status |-> "OK", val |-> v, next |-> v]
    BY <1>4 DEF Grant, Enter, Reads, keyRangeContains, Atomic!Outcome
  <2>2. Answer(p, "OK", v, TRUE) \/ Answer(p, "OK", v, FALSE)
    BY <1>1, <1>4 DEF Grant
  <2> QED BY <1>1, <1>2, <2>1, <2>2, Executes
<1>5. CASE Reject(p)
  <2>1. PICK status : /\ Answer(p, status, Nil, FALSE)
                      /\ Atomic!Outcome(r, v) = [status |-> status, val |-> Nil, next |-> v]
    <3>1. CASE Enter(p, Reads \cup {"Delete"}) /\ v = Nil /\ Answer(p, "KeyNotFound", Nil, FALSE)
      BY <3>1 DEF Enter, Reads, keyRangeContains, Atomic!Outcome
    <3>2. CASE Enter(p, {"AppendToList"}) /\ v # Nil /\ r.item \in v /\ Answer(p, "ItemExists", Nil, FALSE)
      BY <3>2 DEF Enter, keyRangeContains, Atomic!Outcome
    <3>3. CASE /\ Enter(p, {"RemoveFromList"}) /\ (v # Nil => r.item \notin v)
               /\ Answer(p, "ItemNotFound", Nil, FALSE)
      BY <3>3 DEF Enter, keyRangeContains, Atomic!Outcome
    <3> QED BY <1>5, <3>1, <3>2, <3>3 DEF Reject
  <2> QED BY <1>1, <1>2, <2>1, Executes
<1> QED BY <1>3, <1>4, <1>5

\* An update that revokes takes effect when it is done: what it had checked before the
\* revocations (UpdateChecked) still decides the answer.
LEMMA UpdatesAtomic ==
  ASSUME IndInv, NEW p \in Procs, AppendFirst(p) \/ FinishUpdate(p)
  PROVE  Atomic!Next
<1> DEFINE r == req[p]
           v == storage[req[p].key]
<1>1. CASE AppendFirst(p)
  <2>1. Atomic!Outcome(r, v) = [status |-> "OK", val |-> Nil, next |-> {r.item}]
    <3>1. r.op = "AppendToList" /\ r.key \in KeyRange /\ (v = Nil \/ v = {})
      BY <1>1 DEF AppendFirst, Enter, keyRangeContains
    <3>2. {} \cup {r.item} = {r.item}
      OBVIOUS
    <3> QED BY <3>1, <3>2 DEF Atomic!Outcome
  <2> QED BY <1>1, <2>1, Executes DEF AppendFirst, Enter
<1>2. CASE FinishUpdate(p)
  <2>1. /\ Waiting(p) /\ UNCHANGED req /\ Answer(p, "OK", Nil, FALSE) /\ lock = p /\ lock # Nil
        /\ r.key \in KeyRange /\ r.key \in Keys /\ r.op \in Updates
        /\ r.op # "Put" => v # Nil
        /\ r.op = "AppendToList" => r.item \notin v
        /\ r.op = "RemoveFromList" => r.item \in v
    BY <1>2, ConstantAssumption DEF IndInv, UpdateChecked, FinishUpdate
  <2>2. Atomic!Outcome(r, v) = [status |-> "OK", val |-> Nil, next |-> Updated(r, v)]
    BY <2>1 DEF Atomic!Outcome, Updated, Updates
  <2>3. storage' = [storage EXCEPT ![r.key] = Updated(r, v)]
    BY <1>2, <2>1 DEF FinishUpdate, IndInv, TypeOK, SrvTypeOK
  <2> QED BY <2>1, <2>2, <2>3, Executes
<1> QED BY <1>1, <1>2

\* Calls are made, answers are taken, and callers die.
LEMMA CallersAtomic ==
  ASSUME IndInv, NEW p \in Procs
  PROVE  /\ \A c \in Workload : ClientCall(p, c) => [Atomic!Next]_Atomic!vars
         /\ ClientReturn(p) => Atomic!Next
         /\ CallFails(p) => Atomic!Next
<1>1. ASSUME NEW c \in Workload, ClientCall(p, c) PROVE [Atomic!Next]_Atomic!vars
  <2>1. CASE ReadCached(p, c)
    BY <1>1, <2>1, Stutters DEF ReadCached, ClientCall, rpcVars, srvVars
  <2>2. CASE ReadRemote(p, c) \/ SendUpdate(p, c)
    <3>1. PICK want \in BOOLEAN : Send(p, c, want)
      BY <2>2 DEF ReadRemote, SendUpdate, wantLease
    <3>2. [op |-> c.op, key |-> c.key, item |-> c.item, want |-> want] \in Atomic!Request
      BY ConstantAssumption DEF Calls, Reads, Updates, Atomic!Request, Atomic!Ops
    <3>3. Atomic!Call(p)
      BY <1>1, <2>2, <3>1, <3>2
         DEF Atomic!Call, ReadRemote, SendUpdate, Send, Call, Idle, ClientCall, srvVars
    <3> QED BY <3>3 DEF Atomic!Next
  <2> QED BY <1>1, <2>1, <2>2 DEF ClientCall
<1>2. ASSUME req' = [req EXCEPT ![p] = Nil], reply' = [reply EXCEPT ![p] = Nil], UNCHANGED storage
      PROVE Atomic!Next
  <2>1. Atomic!Leave({p})
    BY <1>2 DEF Atomic!Leave, IndInv, TypeOK, RpcTypeOK
  <2> QED BY <2>1 DEF Atomic!Next
<1>3. ClientReturn(p) => Atomic!Next
  BY <1>2 DEF ClientReturn, ReturnStatus, ReturnRead, Finish, srvVars
<1>4. CallFails(p) => Atomic!Next
  <2>1. CallFails(p) => reply' = [reply EXCEPT ![p] = Nil]
    BY DEF CallFails, Waiting, IndInv, TypeOK, RpcTypeOK
  <2> QED BY <1>2, <2>1 DEF CallFails, srvVars
<1> QED BY <1>1, <1>3, <1>4

\* Every step of the protocol is one of the atomic store, or invisible there.
LEMMA StepAtomic == IndInv /\ [Next]_vars => [Atomic!Next]_Atomic!vars
<1> SUFFICES ASSUME IndInv, [Next]_vars PROVE [Atomic!Next]_Atomic!vars
  OBVIOUS
<1>1. ASSUME NEW p \in Procs, Serve(p) PROVE [Atomic!Next]_Atomic!vars
  <2>1. CASE Put(p) \/ Delete(p) \/ AppendToList(p) \/ RemoveFromList(p)
    BY <2>1, Stutters DEF Put, Delete, AppendToList, RemoveFromList, StartRevoke, rpcVars
  <2> QED BY <1>1, <2>1, AnswersAtomic, UpdatesAtomic DEF Serve, ServeFirst, ServeOther
<1>2. ASSUME NEW p \in Procs, CallFails(p) \/ ClientReturn(p) PROVE [Atomic!Next]_Atomic!vars
  BY <1>2, CallersAtomic
<1>3. ASSUME NEW p \in Procs, NEW c \in Workload, ClientCall(p, c) PROVE [Atomic!Next]_Atomic!vars
  BY <1>3, CallersAtomic
<1>4. ASSUME NEW h \in Hosts, Revoking(h) PROVE [Atomic!Next]_Atomic!vars
  BY <1>4, Stutters DEF Revoking, LeaveExpired, LeaveBroken, RevokeStep, ServerDies, SkipExpired,
     RevokeTimeout, CallBroken, CallRevoke, RevokeDone, DialFatal, rpcVars
<1>5. ASSUME NEW h \in Hosts, HostDies(h) PROVE [Atomic!Next]_Atomic!vars
  BY <1>5, Stutters DEF HostDies
<1>6. ASSUME NEW h \in Hosts, Recycler(h) PROVE [Atomic!Next]_Atomic!vars
  BY <1>6, Stutters DEF Recycler, RecyclePick, Recycle, rpcVars, srvVars
<1>7. ASSUME NEW h \in Hosts, NEW k \in Keys, RevokeLease(h, k) PROVE [Atomic!Next]_Atomic!vars
  BY <1>7, Stutters DEF RevokeLease, srvVars
<1>8. ASSUME NEW h \in Hosts, Restart(h) PROVE [Atomic!Next]_Atomic!vars
  <2>1. Atomic!Leave({p \in Procs : HostOf[p] = h})
    BY <1>8 DEF Restart, Atomic!Leave, srvVars
  <2> QED BY <2>1 DEF Atomic!Next
<1>9. ASSUME Tick PROVE [Atomic!Next]_Atomic!vars
  BY <1>9, Stutters DEF Tick, rpcVars
<1>10. CASE UNCHANGED vars
  BY <1>10, Stutters DEF vars, rpcVars, srvVars
<1>11. ASSUME NEW p \in Procs, NEW c \in Workload, ClientFatal(p, c) PROVE [Atomic!Next]_Atomic!vars
  BY <1>5, <1>11, ConstantAssumption DEF ClientFatal
<1> QED BY <1>1, <1>2, <1>3, <1>4, <1>5, <1>6, <1>7, <1>8, <1>9, <1>10, <1>11
        DEF Next, Step, Crash, RevokePanic

\* The server is atomic to its callers (IsAtomic): although an update waits for lease holders
\* between its checks and its write, its answer and its effect belong to one state.
THEOREM ServerAtomic == Spec => IsAtomic
<1>1. Init => Atomic!Init
  BY DEF Init, RpcInit, SrvInit, Atomic!Init
<1> QED BY <1>1, Invariance, StepAtomic, PTL DEF Spec, IsAtomic, Atomic!Spec
=============================================================================
