---------------------------- MODULE TimelineProofs ----------------------------
(***************************************************************************)
(* Proofs about what the web server's pages show, for any users, handlers, *)
(* requests, limit and faults: a timeline misses no post, unless a copy of *)
(* a list is out of date, /home shows its user's own posts, and a page     *)
(* that signs its user up finds the user.                                  *)
(***************************************************************************)
EXTENDS WebProofs, FiniteSetTheorems

-----------------------------------------------------------------------------
(* The inductive invariant.                                                *)

\* Requests whose first RPC creates the user.
Page(r) == r.path \in {"/timeline", "/home"} \/ (r.path = "/posts" /\ r.method # "DELETE")
Reads(j) == j.op \in {"Timeline", "HomeTimeline"}

\* What a handler has still to call is the end of its request's list of RPCs.
Left(h) == Len(web[h].todo)
All(h)  == Len(Rpcs(web[h].req))

\* The RPC of a handler is one of its request's, for the request's user.
RequestFits(h) ==
  LET r == web[h].req IN
  /\ r \in Requests[h] \cup {NoRequest}
  /\ Left(h) <= All(h)
  /\ \A n \in 1 .. Left(h) : web[h].todo[n] = Rpcs(r)[All(h) - Left(h) + n]
  /\ web[h].pc \in {"route", "dial"} => Left(h) = All(h)
  /\ web[h].pc = "rpc" /\ web[h].todo # <<>> => web[h].conn # "none"
  /\ job[h].op = "none" => job[h] = NoJob
  /\ job[h].op # "none" =>
       /\ job[h].user = r.user /\ job[h].target = r.target
       /\ \E n \in 1 .. All(h) : job[h].op = Rpcs(r)[n]

\* A handler has replied only when it is done.
StatusFits(h) ==
  /\ Busy(h) => status[h] = "none"
  /\ job[h].op = "none" => status[h] \in {"none", "Error"}

\* Once a page's CreateUser has returned over a connection that lives, its user is there.
UserThere(h) ==
  Page(web[h].req) =>
    /\ status[h] # "NoSuchUser"
    /\ Busy(h) => job[h].op = "CreateUser" \/ job[h].user \in users
    /\ web[h].conn = "open" /\ Left(h) < All(h) =>
         (Busy(h) /\ job[h].op = "CreateUser") \/ web[h].req.user \in users

\* A user's own posts are subscribed to, as long as they are owed.
OwnSubscribed(h) ==
  \A k \in due[h] : k.user = web[h].req.user => k.user \in subs[k.user]

\* Once /home's Subscribe has returned over a connection that lives, so are they.
SubscribedToSelf(h) ==
  web[h].req.path = "/home" =>
    /\ web[h].conn = "open" /\ Left(h) = 1 =>
         (Busy(h) /\ job[h].op = "Subscribe") \/ OwnSubscribed(h)
    /\ job[h].op = "HomeTimeline" => OwnSubscribed(h)

\* What a timeline owes is listed by those whose posts it shows.
Owes(h) ==
  \A k \in due[h] :
    LET r == web[h].req IN
    /\ k \in postlist[k.user]
    /\ IsTimeline(r) => k.user = r.user
    /\ IsHome(r) /\ (r.path = "/home" => k.user # r.user) => k.user \in subs[r.user]

\* k is among the posts A, or as many newer ones are as a timeline shows.
Covered(k, A) == k \in A \/ Cardinality({l \in A : l.time > k.time}) >= Limit

\* Steps that are only taken for some RPCs.
Fits(j) ==
  /\ j.pc = "target" => j.op \in {"Subscribe", "Unsubscribe"}
  /\ j.pc = "list" => j.op = "Timeline"
  /\ j.pc \in {"subs", "lists"} => j.op = "HomeTimeline"
  /\ j.pc = "fetch" => Reads(j)

\* A handler gathers no more posts than a timeline shows,
Gathers(h) ==
  LET j == job[h] IN
  /\ j.pc \notin {"lists", "fetch"} => j.keys = {}
  /\ j.pc \notin {"fetch", "done"} => j.got = {}
  /\ j.pc \in {"fetch", "done"} => Cardinality(j.got \cup j.keys) <= Limit
  /\ Fits(j)

\* and loses none of those it owes.
Keeps(h, k) ==
  LET j == job[h] IN
  /\ j.pc = "lists" => k.user \in j.todo \/ Covered(k, j.keys)
  /\ j.pc = "fetch" \/ (j.pc = "done" /\ status[h] = "OK") => Covered(k, j.got \cup j.keys)

LosesNone(h) == Reads(job[h]) => \A k \in due[h] : Keeps(h, k)

RequestInv == \A h \in Handlers : RequestFits(h)
StatusInv == status \in [Handlers -> Statuses] /\ \A h \in Handlers : StatusFits(h)
SignedUp == \A h \in Handlers \ failed : UserThere(h)
SelfSubscribed == \A h \in Handlers \ failed : SubscribedToSelf(h)
DueInv == \A h \in Handlers : Owes(h)
GatherInv == (\A h \in Handlers : Gathers(h)) /\ \A h \in Handlers \ failed : LosesNone(h)

OtherInv ==
  /\ webUp \in BOOLEAN /\ appUp \in [Apps -> BOOLEAN]
  /\ due \in [Handlers -> SUBSET PostKeys]
  /\ failed \subseteq Handlers
  /\ faults \in 0 .. MaxFaults

\* The keys in the lists that the libstores answer.
Copied == UNION {UNION {seenLists[a][u] : u \in Users} : a \in Apps}

\* The keys that are listed, about to be, copied, read or owed: no two have the same time.
Pool == Listed \cup Drafts \cup Copied \cup UNION {job[h].keys \cup job[h].got \cup due[h] : h \in Handlers}
PoolInv ==
  /\ \A k \in Pool : k.time <= clock
  /\ \A k, l \in Pool : k.time = l.time => k = l

TimelineInv ==
  /\ RequestInv /\ StatusInv /\ OtherInv
  /\ SignedUp /\ SelfSubscribed /\ PoolInv /\ DueInv /\ GatherInv

-----------------------------------------------------------------------------
(* What a step of an app server's handler does to its job.                 *)

\* The handler goes on, or returns; its RPC stays what it is, and so do the other handlers.
\* It finds its user unknown only where it looks for it and there is none, or a fault.
Turn(h) ==
  /\ \A g \in Handlers \ {h} : job'[g] = job[g] /\ status'[g] = status[g]
  /\ Busy(h)
  /\ job'[h].op = job[h].op /\ job'[h].user = job[h].user /\ job'[h].target = job[h].target
  /\ \/ job'[h].pc # "done" /\ status'[h] = status[h]
     \/ job'[h].pc = "done" /\ status'[h] \in Statuses
  /\ status'[h] = "NoSuchUser" =>
       \/ status[h] = "NoSuchUser" \/ faults' # faults
       \/ job[h].pc = "user" /\ job[h].op # "CreateUser" /\ job[h].user \notin users
  /\ status' \in [Handlers -> Statuses]

\* A turn that reads no list of posts and no post: it answers no timeline.
PlainTurn(h) ==
  /\ Turn(h)
  /\ job[h].pc \notin {"lists", "fetch"} /\ job'[h].pc \notin {"lists", "fetch"} /\ Fits(job'[h])
  /\ job'[h].got = job[h].got
  /\ job'[h].keys = IF job'[h].pc = "done" THEN {} ELSE job[h].keys
  /\ Reads(job[h]) /\ job'[h].pc = "done" => status'[h] # "OK"

JobType == job \in [Handlers -> Job] /\ status \in [Handlers -> Statuses]

\* A handler that goes on changes its own job only,
LEMMA GotoJob ==
  ASSUME JobType, NEW h \in Handlers, NEW pc, Goto(h, pc)
  PROVE  /\ \A g \in Handlers \ {h} : job'[g] = job[g] /\ status'[g] = status[g]
         /\ job'[h] = [job[h] EXCEPT !.pc = pc] /\ status' = status
         /\ job'[h].pc = pc /\ job'[h].op = job[h].op /\ job'[h].user = job[h].user
         /\ job'[h].target = job[h].target /\ job'[h].key = job[h].key /\ job'[h].todo = job[h].todo
         /\ job'[h].keys = job[h].keys /\ job'[h].got = job[h].got
BY DEF Goto, JobType, Job

\* and one that returns its status too.
LEMMA ReturnJob ==
  ASSUME JobType, NEW h \in Handlers, NEW st \in Statuses, Return(h, st)
  PROVE  /\ \A g \in Handlers \ {h} : job'[g] = job[g] /\ status'[g] = status[g]
         /\ job'[h].pc = "done" /\ job'[h].op = job[h].op /\ job'[h].user = job[h].user
         /\ job'[h].target = job[h].target /\ job'[h].key = job[h].key /\ job'[h].todo = {}
         /\ job'[h].keys = {} /\ job'[h].got = job[h].got
         /\ status'[h] = st /\ status' \in [Handlers -> Statuses]
<1>1. job' = [job EXCEPT ![h] = [job[h] EXCEPT !.pc = "done", !.todo = {}, !.keys = {}]]
  BY DEF Return, JobType
<1> QED  BY <1>1 DEF Return, JobType, Job

\* Every step that is not one of the reading ones is plain.
LEMMA PlainTurns ==
  ASSUME JobType, FaultsType, StoreInv, NEW h \in Handlers,
         \/ NoUser(h) \/ IsUser(h) \/ CreateUser(h) \/ GetTarget(h) \/ Subscribe(h) \/ Unsubscribe(h)
         \/ PutPost(h) \/ Post(h) \/ Unlist(h) \/ DeletePost(h)
  PROVE  PlainTurn(h)
<1>0. /\ job[h].op \in Ops \/ ~Busy(h)
      /\ {"OK", "Exists", "NoSuchUser", "NoSuchTargetUser", "NoSuchPost", "Error"} \subseteq Statuses
      /\ Fault => faults' # faults
      /\ job[h].pc \notin {"lists", "fetch"}
  <2>1. job[h].pc \notin {"lists", "fetch"}
    BY DEF NoUser, IsUser, CreateUser, GetTarget, Subscribe, Unsubscribe, PutPost, Post, Unlist, DeletePost, At
  <2> QED  BY <2>1 DEF StoreInv, JobsChecked, Checked, Busy, Statuses, FaultsType, Fault
<1>1. ASSUME NEW pc, pc \notin {"done", "lists", "fetch"}, Goto(h, pc), Busy(h),
             pc = "target" => job[h].op \in {"Subscribe", "Unsubscribe"},
             pc = "list" => job[h].op = "Timeline", pc = "subs" => job[h].op = "HomeTimeline"
      PROVE  PlainTurn(h)
  BY <1>0, <1>1, GotoJob DEF PlainTurn, Turn, JobType, Fits
<1>2. ASSUME NEW st \in Statuses, Return(h, st), Busy(h), st # "NoSuchUser", Reads(job[h]) => st # "OK"
      PROVE  PlainTurn(h)
  BY <1>0, <1>2, ReturnJob DEF PlainTurn, Turn, JobType, Fits
<1>3. CASE NoUser(h)
  <2>1. Busy(h)
    BY <1>3 DEF NoUser, Busy
  <2>2. CASE job[h].op = "CreateUser"
    BY <1>1, <1>3, <2>1, <2>2 DEF NoUser
  <2>3. CASE job[h].op # "CreateUser"
    <3>1. Return(h, "NoSuchUser") /\ job[h].pc = "user" /\ (job[h].user \notin users \/ faults' # faults)
      BY <1>0, <1>3, <2>3 DEF NoUser
    <3> QED  BY <1>0, <2>1, <2>3, <3>1, ReturnJob DEF PlainTurn, Turn, JobType, Fits
  <2> QED  BY <2>2, <2>3
<1>4. CASE IsUser(h)
  <2>1. Busy(h) /\ job[h].op \in Ops
    BY <1>0, <1>4 DEF IsUser, Busy
  <2>2. \/ Return(h, "Exists") \/ Return(h, "NoSuchPost")
        \/ \E pc \in {"put", "unlist"} : Goto(h, pc)
        \/ Goto(h, "target") /\ job[h].op \in {"Subscribe", "Unsubscribe"}
        \/ Goto(h, "list") /\ job[h].op = "Timeline"
        \/ Goto(h, "subs") /\ job[h].op = "HomeTimeline"
    BY <1>4, <2>1 DEF IsUser, Ops
  <2> QED  BY <1>0, <1>1, <1>2, <2>1, <2>2
<1>5. CASE CreateUser(h)
  BY <1>0, <1>2, <1>5 DEF CreateUser, At, Busy, Reads
<1>6. CASE GetTarget(h)
  BY <1>0, <1>1, <1>2, <1>6 DEF GetTarget, Busy
<1>7. CASE Subscribe(h) \/ Unsubscribe(h)
  BY <1>0, <1>2, <1>7 DEF Subscribe, Unsubscribe, At, Busy, Reads
<1>8. CASE PutPost(h)
  <2> DEFINE k == [user |-> job[h].user, time |-> clock + 1]
             j == [job[h] EXCEPT !.pc = "append", !.key = k]
  <2>1. job' = [job EXCEPT ![h] = j] /\ status' = status /\ Busy(h)
    BY <1>8 DEF PutPost, JobType, At, Busy
  <2> HIDE DEF k
  <2> QED  BY <1>0, <2>1 DEF PlainTurn, Turn, JobType, Job, Fits
<1>9. CASE Post(h)
  BY <1>0, <1>2, <1>9 DEF Post, At, Busy, Reads
<1>10. CASE Unlist(h) \/ DeletePost(h)
  BY <1>0, <1>1, <1>2, <1>10 DEF Unlist, DeletePost, At, Busy, Reads
<1> QED  BY <1>3, <1>4, <1>5, <1>6, <1>7, <1>8, <1>9, <1>10

-----------------------------------------------------------------------------
(* Cutting lists of posts.                                                 *)

DistinctTimes(S) == \A k, l \in S : k.time = l.time => k = l

\* Posts of distinct times up to a bound are finitely many.
LEMMA DistinctFinite ==
  ASSUME NEW S \in SUBSET PostKeys, NEW n \in Nat, DistinctTimes(S), \A k \in S : k.time <= n
  PROVE  IsFiniteSet(S)
<1> DEFINE f == [k \in S |-> k.time]
<1>1. \A k \in S : k.time \in 1 .. n
  BY StwAssumption DEF PostKeys
<1>2. f \in Injection(S, 1 .. n)
  BY <1>1 DEF Injection, IsInjective, DistinctTimes
<1>3. IsFiniteSet(1 .. n)
  BY FS_Interval
<1> QED  BY <1>2, <1>3, FS_Injection

\* What a cut keeps.
LEMMA NewestCut ==
  ASSUME NEW S \in SUBSET PostKeys, IsFiniteSet(S), NEW T \in Newest(S)
  PROVE  /\ T \subseteq S /\ IsFiniteSet(T) /\ Cardinality(T) <= Limit
         /\ T = {} => S = {}
         /\ Cardinality(T) = Limit \/ T = S
<1>1. Limit \in Nat \ {0}
  BY StwAssumption
<1>2. /\ T \in SUBSET S
      /\ Cardinality(T) = IF Cardinality(S) < Limit THEN Cardinality(S) ELSE Limit
  BY DEF Newest
<1>3. Cardinality(S) \in Nat /\ IsFiniteSet(T) /\ (Cardinality(S) = Cardinality(T) => S = T)
  BY <1>2, FS_CardinalityType, FS_Subset
<1>4. Cardinality(T) <= Limit /\ (Cardinality(T) = Limit \/ T = S)
  BY <1>1, <1>2, <1>3
<1>5. T = {} => S = {}
  BY <1>1, <1>4, FS_EmptySet
<1> QED  BY <1>2, <1>3, <1>4, <1>5

\* More posts cover what fewer do.
LEMMA CoveredMore ==
  ASSUME NEW k, NEW A, NEW B, IsFiniteSet(B), A \subseteq B, Covered(k, A)
  PROVE  Covered(k, B)
<1> DEFINE a == {l \in A : l.time > k.time}
           b == {l \in B : l.time > k.time}
<1>1. a \in SUBSET b /\ b \in SUBSET B
  OBVIOUS
<1>2. IsFiniteSet(b)
  BY <1>1, FS_Subset
<1>3. Cardinality(a) <= Cardinality(b) /\ Cardinality(a) \in Nat /\ Cardinality(b) \in Nat
  BY <1>1, <1>2, FS_Subset, FS_CardinalityType
<1>4. CASE k \in A
  BY <1>4 DEF Covered
<1>5. CASE Cardinality(a) >= Limit
  <2>1. Cardinality(b) >= Limit
    BY <1>3, <1>5, StwAssumption
  <2> QED  BY <2>1 DEF Covered
<1> QED  BY <1>4, <1>5 DEF Covered

\* Cutting posts of distinct times to the newest loses none that was not covered anyway.
LEMMA NewestCovers ==
  ASSUME NEW S \in SUBSET PostKeys, IsFiniteSet(S), NEW T \in Newest(S),
         NEW k \in PostKeys, DistinctTimes(S), Covered(k, S)
  PROVE  Covered(k, T)
<1>1. Limit \in Nat \ {0} /\ \A l \in PostKeys : l.time \in Int
  BY StwAssumption DEF PostKeys
<1>2. /\ T \subseteq S /\ IsFiniteSet(T) /\ Cardinality(T) <= Limit
      /\ Cardinality(T) = Limit \/ T = S
      /\ Cardinality(T) \in Nat
  BY NewestCut, FS_CardinalityType
<1>3. \A t \in T, l \in S \ T : t.time >= l.time
  BY DEF Newest
<1>4. CASE T = S
  BY <1>4
<1>5. CASE Cardinality(T) = Limit /\ k \in S /\ k \notin T
  <2>1. \A t \in T : t.time > k.time
    <3> SUFFICES ASSUME NEW t \in T PROVE t.time > k.time
      OBVIOUS
    <3>1. t.time >= k.time /\ t.time # k.time /\ t \in PostKeys
      BY <1>2, <1>3, <1>5 DEF DistinctTimes
    <3> QED  BY <1>1, <3>1
  <2> DEFINE b == {l \in T : l.time > k.time}
  <2>2. b = T
    BY <2>1
  <2>3. Covered(k, T) <=> k \in T \/ Cardinality(b) >= Limit
    BY DEF Covered
  <2> HIDE DEF b
  <2> QED  BY <1>1, <1>5, <2>2, <2>3
<1>6. CASE Cardinality(T) = Limit /\ Cardinality({l \in S : l.time > k.time}) >= Limit
  <2> DEFINE B == {l \in S : l.time > k.time}
  <2>1. IsFiniteSet(B) /\ Cardinality(B) \in Nat
    <3>1. B \in SUBSET S
      OBVIOUS
    <3> QED  BY <3>1, FS_Subset, FS_CardinalityType
  <2>2. ASSUME NEW c \in T, ~ (c.time > k.time) PROVE FALSE
    <3>1. B \subseteq T
      <4> SUFFICES ASSUME NEW l \in S, l.time > k.time, l \notin T PROVE FALSE
        OBVIOUS
      <4>1. c.time >= l.time /\ c \in PostKeys /\ l \in PostKeys
        BY <1>2, <1>3
      <4> QED  BY <1>1, <2>2, <4>1
    <3>2. B \in SUBSET T /\ Cardinality(B) <= Cardinality(T) /\ (Cardinality(T) = Cardinality(B) => T = B)
      BY <1>2, <3>1, FS_Subset
    <3>3. T = B
      BY <1>1, <1>6, <2>1, <3>2
    <3> QED  BY <2>2, <3>3
  <2> DEFINE b == {l \in T : l.time > k.time}
  <2>3. b = T
    BY <2>2
  <2>4. Covered(k, T) <=> k \in T \/ Cardinality(b) >= Limit
    BY DEF Covered
  <2> HIDE DEF b
  <2> QED  BY <1>1, <1>6, <2>3, <2>4
<1>7. CASE k \in T
  BY <1>7 DEF Covered
<1> QED  BY <1>2, <1>4, <1>5, <1>6, <1>7 DEF Covered

-----------------------------------------------------------------------------
(* What requests call for.                                                 *)

\* The requests have their type; that of an idle handler calls for nothing.
LEMMA ReqType ==
  ASSUME WebType, RequestInv, NEW h \in Handlers
  PROVE  /\ web[h].req \in RequestType /\ Rpcs(web[h].req) \in Seq(Ops) /\ All(h) \in Nat
         /\ web[h].todo \in Seq(Ops) /\ Left(h) \in Nat
         /\ web[h].req.path = "/home" => web[h].req.target = web[h].req.user
<1>1. Rpcs(NoRequest) = <<>> /\ <<>> \in Seq(Ops) /\ NoRequest.path = "none"
  BY DEF Rpcs, NoRequest, Request
<1>2. web[h].req \in RequestType /\ web[h].todo \in Seq(Ops) /\ web[h].req \in Requests[h] \cup {NoRequest}
  BY DEF WebType, Entry, RequestInv, RequestFits
<1>3. Rpcs(web[h].req) \in Seq(Ops)
  BY <1>1, <1>2, RpcsType
<1> QED  BY <1>1, <1>2, <1>3, WebAssumption DEF All, Left

\* Which RPCs are called for which requests.
LEMMA RpcsOf ==
  ASSUME NEW r \in RequestType
  PROVE  /\ Page(r) => Rpcs(r) = <<>> \/ (Rpcs(r)[1] = "CreateUser" /\ Len(Rpcs(r)) > 1)
         /\ r.path = "/home" => Rpcs(r) = <<>> \/ Rpcs(r) = HomeRpcs
         /\ \A n \in 1 .. Len(Rpcs(r)) : Rpcs(r)[n] = "Timeline" => IsTimeline(r)
         /\ \A n \in 1 .. Len(Rpcs(r)) : Rpcs(r)[n] = "HomeTimeline" => IsHome(r)
<1>1. Page(r) => Rpcs(r) = <<>> \/ (Rpcs(r)[1] = "CreateUser" /\ Len(Rpcs(r)) > 1)
  <2>1. CASE r.path = "/timeline"
    BY <2>1 DEF Rpcs
  <2>2. CASE r.path = "/home"
    BY <2>2 DEF Rpcs, HomeRpcs
  <2>3. CASE r.path = "/posts" /\ r.method # "DELETE"
    <3>1. Rpcs(r) = <<>> \/ Rpcs(r) = PostRpcs
      BY <2>3 DEF Rpcs
    <3> QED  BY <3>1 DEF PostRpcs
  <2> QED  BY <2>1, <2>2, <2>3 DEF Page
<1>2. r.path = "/home" => Rpcs(r) = <<>> \/ Rpcs(r) = HomeRpcs
  BY DEF Rpcs
<1>3. ASSUME NEW n \in 1 .. Len(Rpcs(r))
      PROVE  (Rpcs(r)[n] = "Timeline" => IsTimeline(r)) /\ (Rpcs(r)[n] = "HomeTimeline" => IsHome(r))
  BY DEF Rpcs, IsTimeline, IsHome, Calls, HomeRpcs, PostRpcs
<1> QED  BY <1>1, <1>2, <1>3

-----------------------------------------------------------------------------
(* The reading steps of Timeline and HomeTimeline.                         *)

LEMMA Types ==
  ASSUME WebInv, TimelineInv
  PROVE  JobType /\ FaultsType /\ StoreInv /\ WebType /\ clock \in Nat
BY StwAssumption DEF WebInv, StoreInv, StoreType, TimelineInv, StatusInv, StatusFits, JobType

\* The posts in play are finitely many, of distinct times.
LEMMA PoolSets ==
  ASSUME WebInv, TimelineInv
  PROVE  /\ \A S \in SUBSET Pool : S \in SUBSET PostKeys /\ IsFiniteSet(S) /\ DistinctTimes(S)
         /\ \A u \in Users : postlist[u] \in SUBSET Pool
         /\ \A a \in Apps : \A u \in Users : seenLists[a][u] \in SUBSET Pool
         /\ \A h \in Handlers : job[h].keys \in SUBSET Pool /\ job[h].got \in SUBSET Pool /\ due[h] \in SUBSET Pool
<1>1. Pool \in SUBSET PostKeys
  <2>1. Listed \subseteq PostKeys
    BY Types DEF StoreInv, StoreType, Listed
  <2>2. Drafts \subseteq PostKeys
    BY Types DEF StoreInv, DraftsOwn, Drafts, Handled, At, Drafting
  <2>3. \A h \in Handlers : job[h].keys \cup job[h].got \cup due[h] \subseteq PostKeys
    BY Types DEF JobType, Job, TimelineInv, OtherInv
  <2>4. Copied \subseteq PostKeys
    BY DEF WebInv, SeenType, Copied
  <2> QED  BY <2>1, <2>2, <2>3, <2>4 DEF Pool
<1>2. ASSUME NEW S \in SUBSET Pool
      PROVE  S \in SUBSET PostKeys /\ IsFiniteSet(S) /\ DistinctTimes(S)
  <2>1. S \in SUBSET PostKeys /\ DistinctTimes(S) /\ \A k \in S : k.time <= clock
    BY <1>1 DEF TimelineInv, PoolInv, DistinctTimes
  <2> QED  BY <2>1, Types, DistinctFinite
<1>3. \A u \in Users : postlist[u] \in SUBSET Pool
  BY DEF Pool, Listed
<1>4. \A h \in Handlers : job[h].keys \in SUBSET Pool /\ job[h].got \in SUBSET Pool /\ due[h] \in SUBSET Pool
  BY DEF Pool
<1>5. \A a \in Apps : \A u \in Users : seenLists[a][u] \in SUBSET Pool
  BY DEF Pool, Copied
<1> QED  BY <1>2, <1>3, <1>4, <1>5

\* HomeTimeline owes posts only of users that its user is subscribed to.
LEMMA HomeDue ==
  ASSUME WebInv, TimelineInv, NEW h \in Handlers \ failed, job[h].op = "HomeTimeline"
  PROVE  \A k \in due[h] : k.user \in subs[job[h].user]
<1> DEFINE r == web[h].req
<1>1. job[h].user = r.user /\ \E n \in 1 .. All(h) : job[h].op = Rpcs(r)[n]
  BY DEF TimelineInv, RequestInv, RequestFits
<1>2. r \in RequestType
  BY Types, ReqType DEF TimelineInv
<1>3. IsHome(r)
  BY <1>1, <1>2, RpcsOf DEF All
<1> SUFFICES ASSUME NEW k \in due[h] PROVE k.user \in subs[r.user]
  BY <1>1
<1>4. CASE r.path = "/home" /\ k.user = r.user
  BY <1>4 DEF TimelineInv, SelfSubscribed, SubscribedToSelf, OwnSubscribed
<1>5. CASE ~ (r.path = "/home" /\ k.user = r.user)
  BY <1>3, <1>5 DEF TimelineInv, DueInv, Owes
<1> QED  BY <1>4, <1>5

\* Timeline owes posts of its user, which are in the user's list.
LEMMA TimelineDue ==
  ASSUME WebInv, TimelineInv, NEW h \in Handlers, job[h].op = "Timeline"
  PROVE  \A k \in due[h] : k \in postlist[job[h].user]
<1> DEFINE r == web[h].req
<1>1. job[h].user = r.user /\ \E n \in 1 .. All(h) : job[h].op = Rpcs(r)[n]
  BY DEF TimelineInv, RequestInv, RequestFits
<1>2. r \in RequestType
  BY Types, ReqType DEF TimelineInv
<1>3. IsTimeline(r)
  BY <1>1, <1>2, RpcsOf DEF All
<1> QED  BY <1>1, <1>3 DEF TimelineInv, DueInv, Owes

\* What a reading step does.
ReadTurn(h) ==
  /\ Turn(h) /\ UNCHANGED <<store, clock>>
  /\ Gathers(h)'
  /\ Reads(job[h])
  /\ job'[h].keys \cup job'[h].got \subseteq Pool
  /\ h \notin failed /\ faults' = faults => \A k \in due[h] : Overlooks(h, k) \/ Keeps(h, k)'

\* A reading step that ends the call with nothing more read.
LEMMA ReturnReads ==
  ASSUME WebInv, TimelineInv, NEW h \in Handlers, NEW st \in {"OK", "Error"}, Return(h, st),
         Busy(h), Reads(job[h]), UNCHANGED <<store, clock>>,
         job[h].pc = "fetch" \/ job[h].got = {},
         st = "OK" /\ h \notin failed /\ faults' = faults => \A k \in due[h] : Overlooks(h, k) \/ Covered(k, job[h].got)
  PROVE  ReadTurn(h)
<1>1. st \in Statuses
  BY DEF Statuses
<1>2. /\ \A g \in Handlers \ {h} : job'[g] = job[g] /\ status'[g] = status[g]
      /\ job'[h].pc = "done" /\ job'[h].op = job[h].op /\ job'[h].user = job[h].user
      /\ job'[h].target = job[h].target /\ job'[h].keys = {} /\ job'[h].got = job[h].got
      /\ status'[h] = st /\ status' \in [Handlers -> Statuses]
  BY <1>1, Types, ReturnJob
<1>3. Turn(h)
  BY <1>1, <1>2 DEF Turn
<1>4. Cardinality(job[h].got) <= Limit
  <2>1. CASE job[h].got = {}
    BY <2>1, FS_EmptySet, StwAssumption
  <2>2. CASE job[h].pc = "fetch"
    <3>1. job[h].got \cup job[h].keys \in SUBSET Pool /\ job[h].got \in SUBSET (job[h].got \cup job[h].keys)
      BY PoolSets
    <3>2. IsFiniteSet(job[h].got \cup job[h].keys) /\ Cardinality(job[h].got \cup job[h].keys) <= Limit
      BY <2>2, <3>1, PoolSets DEF TimelineInv, GatherInv, Gathers
    <3>3. Cardinality(job[h].got) <= Cardinality(job[h].got \cup job[h].keys)
      BY <3>1, <3>2, FS_Subset
    <3>4. Cardinality(job[h].got) \in Nat /\ Cardinality(job[h].got \cup job[h].keys) \in Nat
      BY <3>1, <3>2, FS_Subset, FS_CardinalityType
    <3> QED  BY <3>2, <3>3, <3>4, StwAssumption
  <2> QED  BY <2>1, <2>2
<1>5. job'[h].got \cup job'[h].keys = job[h].got
  BY <1>2
<1>6. Gathers(h)'
  BY <1>2, <1>4, <1>5 DEF Gathers, Fits
<1>7. h \notin failed /\ faults' = faults => \A k \in due[h] : Overlooks(h, k) \/ Keeps(h, k)'
  BY <1>2, <1>5 DEF Keeps
<1> QED  BY <1>2, <1>3, <1>6, <1>7, PoolSets DEF ReadTurn

\* Cutting a list, or several lists in one, and going on to its posts.
LEMMA FetchingReads ==
  ASSUME WebInv, TimelineInv, NEW h \in Handlers, NEW S \in SUBSET Pool, NEW T \in Newest(S),
         Fetching(h, T), Busy(h), Reads(job[h]), job[h].got = {}, UNCHANGED <<store, clock>>,
         h \notin failed /\ faults' = faults => \A k \in due[h] : Overlooks(h, k) \/ Covered(k, S)
  PROVE  ReadTurn(h)
<1>1. /\ S \in SUBSET PostKeys /\ IsFiniteSet(S) /\ DistinctTimes(S)
      /\ T \subseteq S /\ IsFiniteSet(T) /\ Cardinality(T) <= Limit /\ (T = {} => S = {})
  BY PoolSets, NewestCut
<1>2. h \notin failed /\ faults' = faults => \A k \in due[h] : Overlooks(h, k) \/ Covered(k, T)
  <2> SUFFICES ASSUME h \notin failed, faults' = faults, NEW k \in due[h], ~Overlooks(h, k)
               PROVE  Covered(k, T)
    OBVIOUS
  <2>1. k \in PostKeys
    BY DEF TimelineInv, OtherInv
  <2> QED  BY <1>1, <2>1, NewestCovers
<1>3. CASE T = {}
  <2>1. Return(h, "OK")
    BY <1>3 DEF Fetching
  <2> QED  BY <1>2, <1>3, <2>1, ReturnReads
<1>4. CASE T # {}
  <2> DEFINE j == [job[h] EXCEPT !.pc = "fetch", !.todo = {}, !.keys = T]
  <2>1. job' = [job EXCEPT ![h] = j] /\ UNCHANGED status
    BY <1>4, Types DEF Fetching, JobType
  <2>2. /\ \A g \in Handlers \ {h} : job'[g] = job[g] /\ status'[g] = status[g]
        /\ job'[h].pc = "fetch" /\ job'[h].op = job[h].op /\ job'[h].user = job[h].user
        /\ job'[h].target = job[h].target /\ job'[h].keys = T /\ job'[h].got = {}
        /\ status' = status
    BY <2>1, Types DEF JobType, Job
  <2>3. status[h] # "NoSuchUser" /\ status \in [Handlers -> Statuses]
    BY DEF TimelineInv, StatusInv, StatusFits
  <2>4. Turn(h)
    BY <2>2, <2>3 DEF Turn
  <2>5. job'[h].got \cup job'[h].keys = T
    BY <2>2
  <2>6. Gathers(h)'
    BY <1>1, <2>2, <2>5 DEF Gathers, Reads, Fits
  <2>7. h \notin failed /\ faults' = faults => \A k \in due[h] : Overlooks(h, k) \/ Keeps(h, k)'
    BY <1>2, <2>2, <2>5 DEF Keeps
  <2> QED  BY <1>1, <2>2, <2>4, <2>6, <2>7 DEF ReadTurn
<1> QED  BY <1>3, <1>4

\* The libstore that reads for a handler.
LEMMA LibstoreType ==
  ASSUME WebInv, NEW h \in Handlers
  PROVE  Libstore(h) \in Apps /\ job[h].user \in Users
         /\ seenSubs[Libstore(h)][job[h].user] \in SUBSET Users
<1>1. Libstore(h) \in Apps /\ job[h].user \in Users
  BY StwAssumption DEF WebInv, StoreInv, StoreType, Job, Libstore
<1> QED BY <1>1 DEF WebInv, SeenType

LEMMA ReadListReads ==
  ASSUME WebInv, TimelineInv, NEW h \in Handlers, ReadList(h)
  PROVE  ReadTurn(h)
<1>1. /\ job[h].op = "Timeline" /\ job[h].pc = "list" /\ Busy(h) /\ Reads(job[h])
      /\ UNCHANGED <<store, clock>> /\ job[h].user \in Users
  BY Types DEF ReadList, At, Busy, Reads, JobType, Job
<1>2. job[h].got = {}
  BY <1>1 DEF TimelineInv, GatherInv, Gathers
<1>3. CASE Fault /\ Return(h, "OK")
  BY <1>1, <1>2, <1>3, Types, NoFault, ReturnReads
<1> DEFINE list == seenLists[Libstore(h)][job[h].user]
<1>4. CASE \E T \in Newest(list) : Fetching(h, T)
  <2>1. PICK T \in Newest(list) : Fetching(h, T)
    BY <1>4
  <2>2. list \in SUBSET Pool
    BY LibstoreType, PoolSets
  <2>3. \A k \in due[h] : Overlooks(h, k) \/ Covered(k, list)
    BY <1>1, TimelineDue DEF Covered, Overlooks, At
  <2> HIDE DEF list
  <2> QED  BY <1>1, <1>2, <2>1, <2>2, <2>3, FetchingReads
<1> QED  BY <1>3, <1>4 DEF ReadList

LEMMA ReadSubsReads ==
  ASSUME WebInv, TimelineInv, NEW h \in Handlers, ReadSubs(h)
  PROVE  ReadTurn(h)
<1>1. /\ job[h].op = "HomeTimeline" /\ job[h].pc = "subs" /\ Busy(h) /\ Reads(job[h])
      /\ UNCHANGED <<store, clock>>
  BY Types DEF ReadSubs, At, Busy, Reads
<1>2. job[h].got = {} /\ job[h].keys = {}
  BY <1>1 DEF TimelineInv, GatherInv, Gathers
<1>3. CASE Fault /\ Return(h, "OK")
  BY <1>1, <1>2, <1>3, Types, NoFault, ReturnReads
<1> DEFINE todo == seenSubs[Libstore(h)][job[h].user]
<1>0. h \notin failed => \A k \in due[h] : Overlooks(h, k) \/ k.user \in todo
  BY <1>1, HomeDue DEF Overlooks, At
<1>4. CASE todo = {} /\ Return(h, "OK")
  BY <1>0, <1>1, <1>2, <1>4, ReturnReads
<1>5. CASE /\ job' = [job EXCEPT ![h].pc = "lists", ![h].todo = todo] /\ UNCHANGED status
  <2> DEFINE j == [job[h] EXCEPT !.pc = "lists", !.todo = todo]
  <2>1. job' = [job EXCEPT ![h] = j]
    BY <1>5, Types DEF JobType
  <2>2. /\ \A g \in Handlers \ {h} : job'[g] = job[g] /\ status'[g] = status[g]
        /\ job'[h].pc = "lists" /\ job'[h].op = job[h].op /\ job'[h].user = job[h].user
        /\ job'[h].target = job[h].target /\ job'[h].keys = {} /\ job'[h].got = {}
        /\ job'[h].todo = todo /\ status' = status
    BY <1>2, <1>5, <2>1, Types DEF JobType, Job
  <2>3. Turn(h)
    BY <1>1, <2>2 DEF Turn, TimelineInv, StatusInv, StatusFits
  <2>4. Gathers(h)'
    BY <1>1, <2>2 DEF Gathers, Fits
  <2>5. h \notin failed => \A k \in due[h] : Overlooks(h, k) \/ Keeps(h, k)'
    BY <1>0, <2>2 DEF Keeps
  <2> QED  BY <1>1, <2>2, <2>3, <2>4, <2>5 DEF ReadTurn
<1> QED  BY <1>3, <1>4, <1>5 DEF ReadSubs

\* The next subscription's newest posts are merged in; after the last, all are cut again.
LEMMA ReadSubscriptionReads ==
  ASSUME WebInv, TimelineInv, NEW h \in Handlers, ReadSubscription(h)
  PROVE  ReadTurn(h)
<1>1. /\ job[h].op = "HomeTimeline" /\ job[h].pc = "lists" /\ Busy(h) /\ Reads(job[h])
      /\ UNCHANGED <<store, clock>>
  BY Types DEF ReadSubscription, At, Busy, Reads
<1>2. job[h].got = {}
  BY <1>1 DEF TimelineInv, GatherInv, Gathers
<1> DEFINE list == seenLists[Libstore(h)]
<1>3. PICK t \in job[h].todo : \E T \in Newest(list[t]) \cup {{}} :
        LET keys == job[h].keys \cup T IN
        /\ (T \in Newest(list[t]) /\ UNCHANGED faults) \/ (T = {} /\ Fault)
        /\ IF job[h].todo = {t}
           THEN \E cut \in Merge(keys) : Fetching(h, cut)
           ELSE job' = [job EXCEPT ![h].todo = @ \ {t}, ![h].keys = keys] /\ UNCHANGED status
  BY DEF ReadSubscription
<1>4. PICK T \in Newest(list[t]) \cup {{}} :
        LET keys == job[h].keys \cup T IN
        /\ (T \in Newest(list[t]) /\ UNCHANGED faults) \/ (T = {} /\ Fault)
        /\ IF job[h].todo = {t}
           THEN \E cut \in Merge(keys) : Fetching(h, cut)
           ELSE job' = [job EXCEPT ![h].todo = @ \ {t}, ![h].keys = keys] /\ UNCHANGED status
  BY <1>3
<1> DEFINE keys == job[h].keys \cup T
<1>5. t \in Users /\ list[t] \in SUBSET Pool
  BY Types, PoolSets, LibstoreType DEF JobType, Job
<1>6. keys \in SUBSET Pool
  BY <1>5, PoolSets DEF Newest
<1>a. job'[h].todo = job[h].todo \ {t}
  <2>1. ASSUME NEW cut, Fetching(h, cut) PROVE job'[h].todo = {}
    <3>1. CASE cut = {}
      BY <2>1, <3>1, Types, ReturnJob DEF Fetching, Statuses
    <3>2. CASE cut # {}
      <4>1. job' = [job EXCEPT ![h] = [job[h] EXCEPT !.pc = "fetch", !.todo = {}, !.keys = cut]]
        BY <2>1, <3>2, Types DEF Fetching, JobType
      <4> QED BY <4>1, Types DEF JobType, Job
    <3> QED BY <3>1, <3>2
  <2>2. CASE job[h].todo = {t}
    BY <1>4, <2>1, <2>2
  <2>3. CASE job[h].todo # {t}
    <3>1. job' = [job EXCEPT ![h] = [job[h] EXCEPT !.todo = job[h].todo \ {t}, !.keys = job[h].keys \cup T]]
      BY <1>4, <2>3, Types DEF JobType
    <3> QED BY <3>1, Types DEF JobType, Job
  <2> QED BY <2>2, <2>3
<1>7. h \notin failed /\ faults' = faults =>
        \A k \in due[h] : Overlooks(h, k) \/ k.user \in job[h].todo \ {t} \/ Covered(k, keys)
  <2> SUFFICES ASSUME h \notin failed, faults' = faults, NEW k \in due[h], ~Overlooks(h, k),
                      k.user \notin job[h].todo \ {t}
               PROVE  Covered(k, keys)
    OBVIOUS
  <2>1. IsFiniteSet(keys) /\ k \in PostKeys
    BY <1>6, PoolSets DEF TimelineInv, OtherInv
  <2>2. CASE k.user = t
    <3>1. T \in Newest(list[t])
      BY <1>4, Types, NoFault
    <3>2. k \in list[t]
      <4>1. k \in postlist[k.user]
        BY DEF TimelineInv, DueInv, Owes
      <4>2. k.user \in job[h].todo \ job'[h].todo
        BY <1>a, <2>2
      <4> QED BY <1>1, <2>2, <4>1, <4>2 DEF Overlooks, At
    <3>3. /\ list[t] \in SUBSET PostKeys /\ IsFiniteSet(list[t]) /\ DistinctTimes(list[t])
          /\ Covered(k, list[t])
      BY <1>5, <3>2, PoolSets DEF Covered
    <3>4. Covered(k, T)
      BY <2>1, <3>1, <3>3, NewestCovers
    <3> QED  BY <2>1, <3>4, CoveredMore
  <2>3. CASE k.user # t
    <3>1. Covered(k, job[h].keys)
      BY <1>1, <2>3 DEF TimelineInv, GatherInv, LosesNone, Keeps
    <3> QED  BY <2>1, <3>1, CoveredMore
  <2> QED  BY <2>2, <2>3
<1> HIDE DEF keys, list
<1>8. CASE job[h].todo = {t}
  <2>1. PICK cut \in Newest(keys) : Fetching(h, cut)
    BY <1>4, <1>8 DEF Merge, keys
  <2>2. h \notin failed /\ faults' = faults => \A k \in due[h] : Overlooks(h, k) \/ Covered(k, keys)
    BY <1>7, <1>8
  <2> QED  BY <1>1, <1>2, <1>6, <2>1, <2>2, FetchingReads
<1>9. CASE job[h].todo # {t}
  <2> DEFINE j == [job[h] EXCEPT !.todo = @ \ {t}, !.keys = keys]
  <2>1. job' = [job EXCEPT ![h] = j] /\ UNCHANGED status
    BY <1>4, <1>9, Types DEF JobType, keys
  <2>2. /\ \A g \in Handlers \ {h} : job'[g] = job[g] /\ status'[g] = status[g]
        /\ job'[h].pc = "lists" /\ job'[h].op = job[h].op /\ job'[h].user = job[h].user
        /\ job'[h].target = job[h].target /\ job'[h].keys = keys /\ job'[h].got = {}
        /\ job'[h].todo = job[h].todo \ {t} /\ status' = status
    BY <1>1, <1>2, <2>1, Types DEF JobType, Job
  <2>3. Turn(h)
    BY <1>1, <2>2 DEF Turn, TimelineInv, StatusInv, StatusFits
  <2>4. Gathers(h)'
    BY <1>1, <2>2 DEF Gathers, Fits
  <2>5. h \notin failed /\ faults' = faults => \A k \in due[h] : Overlooks(h, k) \/ Keeps(h, k)'
    BY <1>7, <2>2 DEF Keeps
  <2> QED  BY <1>1, <1>6, <2>2, <2>3, <2>4, <2>5 DEF ReadTurn
<1> QED  BY <1>8, <1>9

\* One post is fetched, or the call ends without an answer.
LEMMA FetchReads ==
  ASSUME WebInv, TimelineInv, NEW h \in Handlers, Fetch(h)
  PROVE  ReadTurn(h)
<1>1. job[h].pc = "fetch" /\ Busy(h) /\ Reads(job[h]) /\ UNCHANGED <<store, clock>>
  BY DEF Fetch, Busy, TimelineInv, GatherInv, Gathers, Fits
<1> DEFINE ks == job[h].keys
<1>2. CASE Return(h, "Error")
  BY <1>1, <1>2, ReturnReads
<1>3. ASSUME NEW k \in ks,
             job' = [job EXCEPT ![h].pc = IF ks = {k} THEN "done" ELSE "fetch",
                                ![h].keys = @ \ {k}, ![h].got = @ \cup {k}],
             status' = [status EXCEPT ![h] = IF ks = {k} THEN "OK" ELSE @],
             UNCHANGED faults
      PROVE  ReadTurn(h)
  <2> DEFINE pc == IF ks = {k} THEN "done" ELSE "fetch"
             j == [job[h] EXCEPT !.pc = pc, !.keys = @ \ {k}, !.got = @ \cup {k}]
  <2>1. job' = [job EXCEPT ![h] = j]
    BY <1>3, Types DEF JobType
  <2>2. pc \in {"done", "fetch"} /\ (pc = "done" => job[h].keys \ {k} = {})
    OBVIOUS
  <2>3. "OK" \in Statuses
    BY DEF Statuses
  <2>4. status'[h] = (IF pc = "done" THEN "OK" ELSE status[h]) /\ status' \in [Handlers -> Statuses]
    BY <1>3, <2>3, Types DEF JobType
  <2> HIDE DEF pc
  <2>5. /\ \A g \in Handlers \ {h} : job'[g] = job[g] /\ status'[g] = status[g]
        /\ job'[h].pc = pc /\ job'[h].op = job[h].op /\ job'[h].user = job[h].user
        /\ job'[h].target = job[h].target /\ job'[h].keys = job[h].keys \ {k}
        /\ job'[h].got = job[h].got \cup {k}
    <3>1. \A g \in Handlers \ {h} : status'[g] = status[g]
      BY <1>3, Types DEF JobType
    <3>2. job'[h] = j /\ \A g \in Handlers \ {h} : job'[g] = job[g]
      BY <2>1, Types DEF JobType
    <3>3. job[h] \in Job
      BY Types DEF JobType
    <3>4. /\ j.pc = pc /\ j.op = job[h].op /\ j.user = job[h].user /\ j.target = job[h].target
          /\ j.keys = job[h].keys \ {k} /\ j.got = job[h].got \cup {k}
      BY <3>3 DEF Job
    <3> QED  BY <3>1, <3>2, <3>4
  <2>6. Turn(h)
    BY <1>1, <2>2, <2>3, <2>4, <2>5 DEF Turn
  <2>7. job'[h].got \cup job'[h].keys = job[h].got \cup job[h].keys
    BY <2>5
  <2>8. Gathers(h)'
    BY <1>1, <2>2, <2>5, <2>7 DEF TimelineInv, GatherInv, Gathers, Reads, Fits
  <2>9. h \notin failed => \A x \in due[h] : Overlooks(h, x) \/ Keeps(h, x)'
    BY <1>1, <2>2, <2>5, <2>7 DEF TimelineInv, GatherInv, LosesNone, Keeps
  <2>10. job'[h].keys \cup job'[h].got \subseteq Pool
    BY <2>5, PoolSets
  <2> QED  BY <1>1, <2>6, <2>8, <2>9, <2>10 DEF ReadTurn
<1> QED  BY <1>2, <1>3 DEF Fetch

-----------------------------------------------------------------------------
(* Steps of the app servers.                                               *)

\* A step of an app server's handler is a turn of it.
LEMMA ServeTurns ==
  ASSUME WebInv, TimelineInv, NEW h \in Handlers, Step(h)
  PROVE  PlainTurn(h) \/ ReadTurn(h)
BY Types, PlainTurns, ReadListReads, ReadSubsReads, ReadSubscriptionReads, FetchReads DEF Step

\* What a step does to the users and the subscriptions: nobody is forgotten; who has been
\* created without a fault is there, and so is a subscription among users.
LEMMA ServeStores ==
  ASSUME WebInv, TimelineInv, NEW h \in Handlers, Step(h)
  PROVE  /\ users \subseteq users'
         /\ faults' = faults /\ job[h].op = "CreateUser" /\ job'[h].pc = "done" => job[h].user \in users'
         /\ /\ faults' = faults /\ job[h].op = "Subscribe" /\ job'[h].pc = "done"
            /\ job[h].user \in users /\ job[h].target \in users
            => job[h].target \in subs'[job[h].user]
<1>0. JobType /\ FaultsType /\ subs \in [Users -> SUBSET Users] /\ job[h].user \in Users
      /\ (faults' = faults => ~Fault)
  BY Types, NoFault DEF StoreInv, StoreType, JobType, Job
<1>1. users \subseteq users'
  BY DEF Step, NoUser, IsUser, CreateUser, GetTarget, Subscribe, Unsubscribe, PutPost, Post,
     Unlist, DeletePost, ReadList, ReadSubs, ReadSubscription, Fetch, store
<1>2. ASSUME faults' = faults, job[h].op = "CreateUser", job'[h].pc = "done"
      PROVE  job[h].user \in users'
  <2>1. CASE NoUser(h)
    <3>1. Goto(h, "putUser")
      BY <1>2, <2>1 DEF NoUser
    <3>2. job'[h].pc = "putUser"
      BY <1>0, <3>1, GotoJob
    <3> QED  BY <1>2, <3>2
  <2>2. CASE IsUser(h)
    BY <1>1, <2>2 DEF IsUser
  <2>3. CASE CreateUser(h)
    BY <1>0, <1>2, <2>3 DEF CreateUser
  <2>4. CASE GetTarget(h) \/ Fetch(h)
    BY <1>2, <2>4 DEF GetTarget, Fetch, TimelineInv, GatherInv, Gathers, Fits, Reads
  <2> QED  BY <1>2, <2>1, <2>2, <2>3, <2>4
           DEF Step, Subscribe, Unsubscribe, PutPost, Post, Unlist, DeletePost, ReadList, ReadSubs,
               ReadSubscription, At
<1>3. ASSUME faults' = faults, job[h].op = "Subscribe", job'[h].pc = "done",
             job[h].user \in users, job[h].target \in users
      PROVE  job[h].target \in subs'[job[h].user]
  <2>1. CASE NoUser(h)
    BY <1>0, <1>3, <2>1 DEF NoUser
  <2>2. CASE IsUser(h)
    <3>1. Goto(h, "target")
      BY <1>3, <2>2 DEF IsUser
    <3>2. job'[h].pc = "target"
      BY <1>0, <3>1, GotoJob
    <3> QED  BY <1>3, <3>2
  <2>3. CASE GetTarget(h)
    <3>1. Goto(h, "sublist")
      BY <1>0, <1>3, <2>3 DEF GetTarget
    <3>2. job'[h].pc = "sublist"
      BY <1>0, <3>1, GotoJob
    <3> QED  BY <1>3, <3>2
  <2>4. CASE Subscribe(h)
    BY <1>0, <2>4, <1>3 DEF Subscribe
  <2>5. CASE Fetch(h)
    BY <1>3, <2>5 DEF Fetch, TimelineInv, GatherInv, Gathers, Fits, Reads
  <2> QED  BY <1>3, <2>1, <2>2, <2>3, <2>4, <2>5
           DEF Step, CreateUser, Unsubscribe, PutPost, Post, Unlist, DeletePost, ReadList, ReadSubs,
               ReadSubscription, At
<1> QED  BY <1>1, <1>2, <1>3

\* Libstores answer what they did before, or what the storage has now.
LEMMA CopiesKept ==
  ASSUME WebInv, \/ UNCHANGED caches
                 \/ \E u : SubsSeen(u) \/ ListSeen(u) \/ GoneSeen(u)
                 \/ \E a \in Apps : (Forgotten(a) \/ Forget(a)) /\ UNCHANGED postlist
  PROVE  Copied' \subseteq Copied \cup Listed'
<1> SUFFICES ASSUME NEW a \in Apps, NEW u \in Users
             PROVE  seenLists'[a][u] \subseteq seenLists[a][u] \cup postlist'[u]
  BY DEF Copied, Listed
<1>0. seenLists \in [Apps -> [Users -> SUBSET PostKeys]]
  BY DEF WebInv, SeenType
<1>1. ASSUME UNCHANGED seenLists PROVE seenLists'[a][u] \subseteq seenLists[a][u] \cup postlist'[u]
  BY <1>1
<1>2. ASSUME NEW v, ListSeen(v) PROVE seenLists'[a][u] \subseteq seenLists[a][u] \cup postlist'[u]
  <2>1. PICK A \in SUBSET Apps : seenLists' =
          [b \in Apps |-> IF b \in A THEN seenLists[b] ELSE [seenLists[b] EXCEPT ![v] = postlist'[v]]]
    BY <1>2 DEF ListSeen
  <2>2. seenLists'[a] = seenLists[a] \/ seenLists'[a] = [seenLists[a] EXCEPT ![v] = postlist'[v]]
    BY <2>1
  <2> QED  BY <1>0, <2>2
<1>3. ASSUME NEW b \in Apps, Forgotten(b), UNCHANGED postlist
      PROVE  seenLists'[a][u] \subseteq seenLists[a][u] \cup postlist'[u]
  BY <1>0, <1>3 DEF Forgotten
<1>4. ASSUME NEW b \in Apps, NEW v \in Users, ForgetList(b, v)
      PROVE  seenLists'[a][u] \subseteq seenLists[a][u] \cup postlist'[u]
  <2>1. seenLists' = [seenLists EXCEPT ![b] = [seenLists[b] EXCEPT ![v] = postlist[v]]] /\ postlist' = postlist
    BY <1>4 DEF ForgetList
  <2>2. seenLists'[a] = IF a = b THEN [seenLists[b] EXCEPT ![v] = postlist[v]] ELSE seenLists[a]
    BY <1>0, <2>1
  <2> QED  BY <1>0, <2>1, <2>2
<1> QED  BY <1>1, <1>2, <1>3, <1>4 DEF caches, SubsSeen, GoneSeen, Forget, ForgetSubs, ForgetPost

LEMMA ServeCopies ==
  ASSUME WebInv, NEW h \in Handlers, Step(h)
  PROVE  Copied' \subseteq Copied \cup Listed'
BY CopiesKept DEF Step, NoUser, IsUser, CreateUser, GetTarget, Subscribe, Unsubscribe, PutPost, Post,
   Unlist, DeletePost, ReadList, ReadSubs, ReadSubscription, Fetch, store

\* No step brings a post into play, except Post's, whose time is new.
LEMMA ServePool ==
  ASSUME WebInv, TimelineInv, NEW h \in Handlers, Step(h)
  PROVE  \/ clock' = clock /\ Listed' \cup Drafts' \subseteq Pool
         \/ /\ clock' = clock + 1
            /\ \E k : k.time = clock' /\ Listed' \cup Drafts' \subseteq Pool \cup {k}
<1>0. /\ JobType /\ postlist \in [Users -> SUBSET PostKeys]
      /\ \A g \in Handlers \ {h} : job'[g] = job[g]
  BY Types, ServeTurns DEF StoreInv, StoreType, PlainTurn, ReadTurn, Turn
<1>1. ASSUME \A u \in Users : postlist'[u] \subseteq postlist[u] PROVE Listed' \subseteq Pool
  BY <1>1 DEF Listed, Pool
<1>2. ASSUME ~ (job'[h].op = "Post" /\ job'[h].pc = "append") PROVE Drafts' \subseteq Pool
  BY <1>0, <1>2 DEF Drafts, Handled, At, Pool
<1>3. CASE PutPost(h)
  <2> DEFINE k == [user |-> job[h].user, time |-> clock + 1]
  <2>1. /\ clock' = clock + 1 /\ k.time = clock' /\ UNCHANGED postlist
        /\ job'[h].key = k
    BY <1>0, <1>3 DEF PutPost, JobType, Job
  <2>2. Listed' \subseteq Pool
    BY <1>1, <2>1
  <2> HIDE DEF k
  <2>3. Drafts' \subseteq Pool \cup {k}
    BY <1>0, <2>1 DEF Drafts, Handled, At, Pool
  <2> QED  BY <2>1, <2>2, <2>3
<1>4. CASE Post(h)
  <2>1. /\ At(h, "Post", "append") /\ clock' = clock
        /\ \A u \in Users : postlist'[u] \subseteq postlist[u] \cup {job[h].key}
    BY <1>0, <1>4 DEF Post
  <2>2. Listed' \subseteq Pool
    BY <2>1 DEF Listed, Pool, Drafts, Handled
  <2>3. job'[h].pc = "done"
    <3>1. Return(h, "OK") /\ "OK" \in Statuses
      BY <1>4 DEF Post, Statuses
    <3> QED  BY <1>0, <3>1, ReturnJob
  <2> QED  BY <1>2, <2>1, <2>2, <2>3
<1>5. CASE ~PutPost(h) /\ ~Post(h)
  <2>1. clock' = clock /\ \A u \in Users : postlist'[u] \subseteq postlist[u]
    BY <1>0, <1>5 DEF Step, NoUser, IsUser, CreateUser, GetTarget, Subscribe, Unsubscribe, Unlist,
       DeletePost, ReadList, ReadSubs, ReadSubscription, Fetch, store
  <2>2. ~ (job'[h].op = "Post" /\ job'[h].pc = "append")
    <3>1. CASE ReadList(h) \/ ReadSubs(h) \/ ReadSubscription(h) \/ Fetch(h)
      <4>1. ReadTurn(h)
        BY <3>1, ReadListReads, ReadSubsReads, ReadSubscriptionReads, FetchReads
      <4> QED  BY <4>1 DEF ReadTurn, Turn, Reads
    <3>2. CASE ~ (ReadList(h) \/ ReadSubs(h) \/ ReadSubscription(h) \/ Fetch(h))
      <4>1. \/ \E st \in Statuses : Return(h, st)
            \/ \E pc \in {"putUser", "target", "put", "unlist", "list", "subs", "sublist", "delete"} : Goto(h, pc)
        <5>1. {"OK", "Exists", "NoSuchUser", "NoSuchTargetUser", "NoSuchPost", "Error"} \subseteq Statuses
          BY DEF Statuses
        <5>2. job[h].pc = "user" => job[h].op \in Ops
          BY Types DEF StoreInv, JobsChecked, Checked
        <5> QED  BY <1>5, <3>2, <5>1, <5>2 DEF Step, NoUser, IsUser, CreateUser, GetTarget, Subscribe,
                 Unsubscribe, Unlist, DeletePost, Ops
      <4>2. ASSUME NEW pc, Goto(h, pc) PROVE job'[h].pc = pc
        BY <1>0, <4>2, GotoJob
      <4>3. ASSUME NEW st \in Statuses, Return(h, st) PROVE job'[h].pc = "done"
        BY <1>0, <4>3, ReturnJob
      <4> QED  BY <4>1, <4>2, <4>3
    <3> QED  BY <3>1, <3>2
  <2> QED  BY <1>1, <1>2, <2>1, <2>2
<1> QED  BY <1>3, <1>4, <1>5

\* Posts that leave the pool, and none that come in, keep its times apart.
LEMMA PoolShrinks ==
  ASSUME PoolInv, clock' = clock, Pool' \subseteq Pool PROVE PoolInv'
BY DEF PoolInv

\* No step of an app server makes two posts of one time.
LEMMA ServePoolInv ==
  ASSUME WebInv, TimelineInv, NEW h \in Handlers, Serve(h) PROVE PoolInv'
<1>1. Step(h) /\ \A g \in Handlers : due'[g] \subseteq due[g]
  BY DEF Serve
<1>2. \A g \in Handlers : job'[g].keys \cup job'[g].got \cup due'[g] \subseteq Pool
  <2>1. job'[h].keys \cup job'[h].got \subseteq Pool
    BY <1>1, ServeTurns, PoolSets DEF PlainTurn, ReadTurn
  <2>2. \A g \in Handlers \ {h} : job'[g] = job[g]
    BY <1>1, ServeTurns DEF PlainTurn, ReadTurn, Turn
  <2> QED  BY <1>1, <2>1, <2>2, PoolSets
<1>3. CASE clock' = clock /\ Listed' \cup Drafts' \subseteq Pool
  <2>1. Pool' \subseteq Pool
    <3>1. Copied' \subseteq Pool
      BY <1>1, <1>3, ServeCopies DEF Pool
    <3> QED  BY <1>2, <1>3, <3>1 DEF Pool
  <2> QED  BY <1>3, <2>1, PoolShrinks DEF TimelineInv
<1>4. CASE /\ clock' = clock + 1
           /\ \E k : k.time = clock' /\ Listed' \cup Drafts' \subseteq Pool \cup {k}
  <2>1. PICK k : k.time = clock' /\ Listed' \cup Drafts' \subseteq Pool \cup {k}
    BY <1>4
  <2>2. Pool' \subseteq Pool \cup {k}
    <3>1. Copied' \subseteq Pool \cup {k}
      BY <1>1, <2>1, ServeCopies DEF Pool
    <3> QED  BY <1>2, <2>1, <3>1 DEF Pool
  <2>3. \A l \in Pool : l.time <= clock /\ l.time \in Int
    <3>1. Pool \in SUBSET PostKeys
      BY PoolSets
    <3>2. \A l \in PostKeys : l.time \in Int
      BY StwAssumption DEF PostKeys
    <3> QED  BY <3>1, <3>2 DEF TimelineInv, PoolInv
  <2>4. \A l, m \in Pool : l.time = m.time => l = m
    BY DEF TimelineInv, PoolInv
  <2>5. clock \in Nat
    BY Types
  <2> QED  BY <1>4, <2>1, <2>2, <2>3, <2>4, <2>5 DEF PoolInv
<1> QED  BY <1>1, <1>3, <1>4, ServePool

\* A plain turn gathers nothing.
LEMMA PlainStart ==
  ASSUME WebInv, TimelineInv, NEW h \in Handlers, PlainTurn(h)
  PROVE  Gathers(h)'
<1>1. job[h].keys = {} /\ job[h].got = {}
  BY DEF PlainTurn, Turn, Busy, TimelineInv, GatherInv, Gathers
<1>2. job'[h].keys = {} /\ job'[h].got = {} /\ job'[h].got \cup job'[h].keys = {}
  BY <1>1 DEF PlainTurn
<1>3. Cardinality({}) <= Limit
  BY FS_EmptySet, StwAssumption
<1> QED  BY <1>2, <1>3 DEF PlainTurn, Gathers

\* A step of an app server keeps what is said of requests, replies and users.
LEMMA ServeInv ==
  ASSUME WebInv, TimelineInv, NEW h \in Handlers, Serve(h), faults' \in 0 .. MaxFaults
  PROVE  TimelineInv'
<1> USE DEF TimelineInv
<1>1. /\ Step(h) /\ UNCHANGED webVars
      /\ failed' = (IF faults' = faults THEN failed ELSE failed \cup {h})
      /\ due' = [g \in Handlers |-> {k \in due[g] :
           /\ k \in postlist'[k.user]
           /\ IsHome(web[g].req) => k.user \notin subs[web[g].req.user] \ subs'[web[g].req.user]
           /\ g = h => ~Overlooks(h, k)}]
  BY DEF Serve
<1>2. PlainTurn(h) \/ ReadTurn(h)
  BY <1>1, ServeTurns
<1>3. /\ Turn(h) /\ job[h].op \in Ops /\ job[h].op # "none"
      /\ \A g \in Handlers \ {h} : job'[g] = job[g] /\ status'[g] = status[g]
      /\ job'[h].op = job[h].op /\ job'[h].user = job[h].user /\ job'[h].target = job[h].target
  BY <1>2, Types DEF PlainTurn, ReadTurn, Turn, StoreInv, JobsChecked, Checked, Busy, Ops
<1>4. \A g \in Handlers : due'[g] \subseteq due[g] /\ web'[g] = web[g]
  BY <1>1 DEF webVars
<1>5. RequestInv'
  <2>1. ASSUME NEW g \in Handlers
        PROVE  /\ (job[g].op = "none" => job[g] = NoJob) => (job'[g].op = "none" => job'[g] = NoJob)
               /\ job'[g].op = job[g].op /\ job'[g].user = job[g].user /\ job'[g].target = job[g].target
    BY <1>3
  <2>2. web' = web
    BY <1>1 DEF webVars
  <2>3. ASSUME NEW g \in Handlers PROVE RequestFits(g)'
    BY <2>1, <2>2 DEF RequestInv, RequestFits, Left, All
  <2> QED  BY <2>3 DEF RequestInv
<1>6. StatusInv'
  BY <1>3 DEF StatusInv, StatusFits, Turn, Busy
<1>7. OtherInv'
  BY <1>1 DEF OtherInv, webVars
<1>8. \A g \in Handlers \ failed' : g \notin failed
  BY <1>1
<1>9. h \notin failed' => faults' = faults
  BY <1>1
<1>10. SignedUp'
  <2> SUFFICES ASSUME NEW g \in Handlers \ failed', Page(web[g].req)
               PROVE  /\ status'[g] # "NoSuchUser"
                      /\ Busy(g)' => job'[g].op = "CreateUser" \/ job'[g].user \in users'
                      /\ web[g].conn = "open" /\ Left(g) < All(g) =>
                           (Busy(g)' /\ job'[g].op = "CreateUser") \/ web[g].req.user \in users'
    BY <1>1 DEF SignedUp, UserThere, webVars, Left, All
  <2>1. /\ status[g] # "NoSuchUser"
        /\ Busy(g) => job[g].op = "CreateUser" \/ job[g].user \in users
        /\ web[g].conn = "open" /\ Left(g) < All(g) =>
             (Busy(g) /\ job[g].op = "CreateUser") \/ web[g].req.user \in users
    BY <1>8 DEF SignedUp, UserThere
  <2>2. users \subseteq users'
    BY <1>1, ServeStores
  <2>3. CASE g # h
    BY <1>3, <2>1, <2>2, <2>3 DEF Busy
  <2>4. CASE g = h
    <3>1. faults' = faults /\ Busy(h) /\ job[h].user = web[h].req.user
      BY <1>3, <1>9, <2>4 DEF Turn, RequestInv, RequestFits
    <3>2. status'[h] # "NoSuchUser"
      BY <1>3, <2>1, <2>4, <3>1 DEF Turn
    <3>3. Busy(h)' \/ (job[h].op = "CreateUser" => job[h].user \in users')
      BY <1>1, <3>1, ServeStores DEF Busy
    <3> QED  BY <1>3, <2>1, <2>2, <2>4, <3>1, <3>2, <3>3
  <2> QED  BY <2>3, <2>4
<1>11. SelfSubscribed'
  <2> SUFFICES ASSUME NEW g \in Handlers \ failed', web[g].req.path = "/home"
               PROVE  /\ web[g].conn = "open" /\ Left(g) = 1 =>
                           (Busy(g)' /\ job'[g].op = "Subscribe") \/ OwnSubscribed(g)'
                      /\ job'[g].op = "HomeTimeline" => OwnSubscribed(g)'
    BY <1>1 DEF SelfSubscribed, SubscribedToSelf, webVars, Left
  <2>1. /\ web[g].conn = "open" /\ Left(g) = 1 =>
             (Busy(g) /\ job[g].op = "Subscribe") \/ OwnSubscribed(g)
        /\ job[g].op = "HomeTimeline" => OwnSubscribed(g)
    BY <1>8 DEF SelfSubscribed, SubscribedToSelf
  <2>2. OwnSubscribed(g) => OwnSubscribed(g)'
    BY <1>1, <1>4 DEF OwnSubscribed, IsHome
  <2>3. CASE g # h
    BY <1>3, <2>1, <2>2, <2>3 DEF Busy
  <2>4. CASE g = h
    <3>1. /\ faults' = faults /\ Busy(h) /\ job[h].user = web[h].req.user /\ job[h].target = web[h].req.target
          /\ web[h].req.target = web[h].req.user
      BY <1>3, <1>9, <2>4, Types, ReqType DEF Turn, RequestInv, RequestFits
    <3>2. job[h].op = "Subscribe" => job[h].user \in users
      BY <1>8, <2>4, <3>1 DEF SignedUp, UserThere, Page
    <3>3. job[h].op = "Subscribe" => Busy(h)' \/ job[h].user \in subs'[job[h].user]
      BY <1>1, <3>1, <3>2, ServeStores DEF Busy
    <3>4. job[h].op = "Subscribe" => Busy(h)' \/ OwnSubscribed(h)'
      BY <1>4, <3>1, <3>3 DEF OwnSubscribed
    <3> QED  BY <1>3, <2>1, <2>2, <2>4, <3>1, <3>4
  <2> QED  BY <2>3, <2>4
<1>12. PoolInv'
  BY ServePoolInv
<1>13. DueInv'
  <2> SUFFICES ASSUME NEW g \in Handlers, NEW k \in due'[g]
               PROVE  LET r == web[g].req IN
                      /\ k \in postlist'[k.user]
                      /\ IsTimeline(r) => k.user = r.user
                      /\ IsHome(r) /\ (r.path = "/home" => k.user # r.user) => k.user \in subs'[r.user]
    BY <1>4 DEF DueInv, Owes
  <2>1. k \in due[g] /\ k \in postlist'[k.user]
        /\ (IsHome(web[g].req) => k.user \notin subs[web[g].req.user] \ subs'[web[g].req.user])
    BY <1>1
  <2> QED  BY <2>1 DEF DueInv, Owes, IsHome
<1>14. GatherInv'
  <2>1. ASSUME NEW g \in Handlers \ {h} PROVE Gathers(g)' /\ (g \notin failed' => LosesNone(g)')
    <3>1. job'[g] = job[g] /\ status'[g] = status[g] /\ due'[g] \subseteq due[g]
      BY <1>3, <1>4
    <3> QED  BY <1>8, <3>1 DEF GatherInv, Gathers, LosesNone, Keeps
  <2>2. CASE PlainTurn(h)
    <3>1. /\ job'[h].pc \notin {"lists", "fetch"} /\ Fits(job'[h])
          /\ job'[h].got = job[h].got /\ job[h].pc # "done"
          /\ job'[h].keys = IF job'[h].pc = "done" THEN {} ELSE job[h].keys
          /\ Reads(job[h]) /\ job'[h].pc = "done" => status'[h] # "OK"
      BY <2>2 DEF PlainTurn, Turn, Busy
    <3>2. Gathers(h)'
      BY <1>3, <2>2, <3>1, PlainStart
    <3>3. LosesNone(h)'
      BY <1>3, <3>1 DEF LosesNone, Keeps, Reads
    <3> QED  BY <2>1, <3>2, <3>3 DEF GatherInv
  <2>3. CASE ReadTurn(h)
    <3>1. Gathers(h)'
      BY <2>3 DEF ReadTurn
    <3>2. h \notin failed' => \A k \in due'[h] : Keeps(h, k)'
      <4>1. \A k \in due'[h] : k \in due[h] /\ ~Overlooks(h, k)
        BY <1>1
      <4> QED  BY <1>8, <1>9, <2>3, <4>1 DEF ReadTurn
    <3>3. h \notin failed' => LosesNone(h)'
      BY <3>2 DEF LosesNone
    <3> QED  BY <2>1, <3>1, <3>3 DEF GatherInv
  <2> QED  BY <1>2, <2>2, <2>3
<1> QED  BY <1>5, <1>6, <1>7, <1>10, <1>11, <1>12, <1>13, <1>14

-----------------------------------------------------------------------------
(* Steps of the web server, and of app servers that die.                   *)

HandlerInv(h) ==
  /\ RequestFits(h) /\ StatusFits(h) /\ Owes(h) /\ Gathers(h)
  /\ h \notin failed => UserThere(h) /\ SubscribedToSelf(h) /\ LosesNone(h)

\* A job that has nothing read yet.
Fresh(j) == j.keys = {} /\ j.got = {} /\ j.pc \in {"user", "done"}

LEMMA HandlerInvs == TimelineInv => \A h \in Handlers : HandlerInv(h)
BY DEF TimelineInv, RequestInv, StatusInv, SignedUp, SelfSubscribed, DueInv, GatherInv, HandlerInv

\* A step that leaves the storage alone keeps the invariant if it does for each handler.
LEMMA EachHandlerCopies ==
  ASSUME WebInv, TimelineInv, UNCHANGED <<users, subs, postlist, posts, clock>>, Copied' \subseteq Copied \cup Listed,
         OtherInv', status' \in [Handlers -> Statuses],
         \A h \in Handlers : job'[h] = job[h] \/ Fresh(job'[h]),
         \A h \in Handlers : due'[h] \subseteq due[h] \cup Listed,
         \A h \in Handlers : HandlerInv(h)'
  PROVE  TimelineInv'
<1>1. Pool' \subseteq Pool
  <2>1. Listed' = Listed
    BY DEF Listed
  <2>2. Drafts' \subseteq Drafts
    BY DEF Drafts, Handled, At, Fresh
  <2>3. \A h \in Handlers : job'[h].keys \cup job'[h].got \subseteq job[h].keys \cup job[h].got
    BY DEF Fresh
  <2> QED  BY <2>1, <2>2, <2>3 DEF Pool
<1>2. PoolInv'
  BY <1>1, PoolShrinks DEF TimelineInv
<1> QED  BY <1>2 DEF HandlerInv, TimelineInv, RequestInv, StatusInv, SignedUp, SelfSubscribed, DueInv, GatherInv

\* So does one that leaves the libstores alone, too.
LEMMA EachHandler ==
  ASSUME WebInv, TimelineInv, UNCHANGED <<store, clock>>, OtherInv', status' \in [Handlers -> Statuses],
         \A h \in Handlers : job'[h] = job[h] \/ Fresh(job'[h]),
         \A h \in Handlers : due'[h] \subseteq due[h] \cup Listed,
         \A h \in Handlers : HandlerInv(h)'
  PROVE  TimelineInv'
<1>1. UNCHANGED <<users, subs, postlist, posts, clock>> /\ UNCHANGED caches
  BY DEF store
<1>2. Copied' = Copied
  BY <1>1 DEF Copied, caches
<1> QED  BY <1>1, <1>2, EachHandlerCopies

\* Handler g is left alone.
Same(g) ==
  /\ web'[g] = web[g] /\ job'[g] = job[g] /\ status'[g] = status[g] /\ due'[g] = due[g]
  /\ g \in failed => g \in failed'

\* What is true of a handler stays true if nothing changes for it.
LEMMA SameHandler ==
  ASSUME TimelineInv, UNCHANGED <<users, subs, postlist>>, NEW g \in Handlers, Same(g)
  PROVE  HandlerInv(g)'
<1>1. HandlerInv(g)
  BY HandlerInvs
<1>2. RequestFits(g)' /\ StatusFits(g)' /\ Owes(g)' /\ Gathers(g)'
  <2>1. RequestFits(g)'
    BY <1>1 DEF HandlerInv, Same, RequestFits, Left, All
  <2>2. StatusFits(g)'
    BY <1>1 DEF HandlerInv, Same, StatusFits, Busy
  <2>3. Owes(g)'
    BY <1>1 DEF HandlerInv, Same, Owes
  <2>4. Gathers(g)'
    BY <1>1 DEF HandlerInv, Same, Gathers
  <2> QED  BY <2>1, <2>2, <2>3, <2>4
<1>3. g \notin failed' => UserThere(g)' /\ SubscribedToSelf(g)' /\ LosesNone(g)'
  BY <1>1 DEF HandlerInv, Same, UserThere, SubscribedToSelf, LosesNone, Keeps, OwnSubscribed, Left, All, Busy
<1> QED  BY <1>2, <1>3 DEF HandlerInv

LEMMA SameInv ==
  ASSUME TimelineInv, UNCHANGED store, NEW g \in Handlers, Same(g)
  PROVE  HandlerInv(g)'
BY SameHandler DEF store

\* A handler without a job gathers nothing.
LEMMA FreshGathers ==
  ASSUME NEW g \in Handlers, Fresh(job'[g]), job'[g].op \in Ops => job'[g].pc = "user"
  PROVE  Gathers(g)' /\ LosesNone(g)'
<1>1. job'[g].got \cup job'[g].keys = {} /\ Cardinality({}) <= Limit
  BY FS_EmptySet, StwAssumption DEF Fresh
<1>2. Gathers(g)'
  BY <1>1 DEF Gathers, Fits, Fresh
<1>3. LosesNone(g)'
  BY DEF LosesNone, Keeps, Reads, Ops, Fresh
<1> QED  BY <1>2, <1>3

LEMMA NoJobFresh == Fresh(NoJob) /\ NoJob.op = "none" /\ "none" \notin Ops
BY DEF Fresh, NoJob, NewJob, Ops

\* A fault is counted up to its bound.
LEMMA FaultsBound ==
  ASSUME OtherInv, [Next]_vars PROVE faults' \in 0 .. MaxFaults
<1> SUFFICES UNCHANGED faults \/ Fault
  BY StwAssumption DEF OtherInv, Fault
<1>1. ASSUME NEW h \in Handlers, Step(h) PROVE UNCHANGED faults \/ Fault
  BY <1>1 DEF Step, NoUser, IsUser, CreateUser, GetTarget, Subscribe, Unsubscribe, PutPost, Post,
     Unlist, DeletePost, ReadList, ReadSubs, ReadSubscription, Fetch
<1> QED  BY <1>1 DEF Next, vars, stwVars, Accept, Route, Dial, DialFatal, MapRace, WebDies, CallRpc, Begin,
         CallFails, Serve, Answer, AppDies, AppRestart, Forgotten, CopyGoes, Forget, ForgetSubs, ForgetList,
         ForgetPost, WebRestart

\* What a request that comes in owes is listed by those whose posts it shows.
LEMMA OwedListed ==
  ASSUME StoreInv, NEW r \in RequestType
  PROVE  /\ Owed(r) \subseteq Listed /\ Owed(r) \subseteq PostKeys
         /\ \A k \in Owed(r) :
              /\ k \in postlist[k.user]
              /\ IsTimeline(r) => k.user = r.user
              /\ IsHome(r) /\ (r.path = "/home" => k.user # r.user) => k.user \in subs[r.user]
<1>1. /\ r.user \in Users /\ subs \in [Users -> SUBSET Users] /\ postlist \in [Users -> SUBSET PostKeys]
      /\ \A u \in Users : \A k \in postlist[u] : k.user = u
  BY DEF RequestType, StoreInv, StoreType, ListsOld
<1>2. ASSUME NEW k \in Owed(r)
      PROVE  \E t \in Users : /\ k \in postlist[t] /\ (IsTimeline(r) => t = r.user)
                              /\ IsHome(r) /\ (r.path = "/home" => t # r.user) => t \in subs[r.user]
  <2>1. PICK t \in Shows(r) : k \in postlist[t]
    BY DEF Owed
  <2>2. t \in Users /\ (IsTimeline(r) => t = r.user)
    BY <2>1 DEF Shows, IsHome, IsTimeline, Calls
  <2>3. IsHome(r) /\ (r.path = "/home" => t # r.user) => t \in subs[r.user]
    BY <2>1 DEF Shows, IsHome, IsTimeline, Calls
  <2> QED  BY <2>1, <2>2, <2>3
<1>3. ASSUME NEW k \in Owed(r)
      PROVE  /\ k \in Listed /\ k \in PostKeys /\ k \in postlist[k.user]
             /\ IsTimeline(r) => k.user = r.user
             /\ IsHome(r) /\ (r.path = "/home" => k.user # r.user) => k.user \in subs[r.user]
  <2>1. PICK t \in Users : /\ k \in postlist[t] /\ (IsTimeline(r) => t = r.user)
                           /\ IsHome(r) /\ (r.path = "/home" => t # r.user) => t \in subs[r.user]
    BY <1>2
  <2>2. k.user = t /\ k \in PostKeys
    BY <1>1, <2>1
  <2> QED  BY <2>1, <2>2 DEF Listed
<1> QED  BY <1>3

\* A request that comes in is owed what is listed then.
LEMMA AcceptInv ==
  ASSUME WebInv, TimelineInv, NEW h \in Handlers, NEW r \in Requests[h], Accept(h, r)
  PROVE  TimelineInv'
<1> DEFINE e == [req  |-> r, pc   |-> IF Connects(r) THEN "route" ELSE "rpc", todo |-> Rpcs(r),
                 conn |-> IF r.path = "rpc" THEN "open" ELSE "none"]
<1>1. /\ r \in RequestType /\ Rpcs(r) \in Seq(Ops) /\ StoreInv /\ WebType
      /\ due \in [Handlers -> SUBSET PostKeys]
  BY WebAssumption, RpcsType, Types DEF TimelineInv, OtherInv
<1>2. /\ web'[h] = e /\ job[h] = NoJob /\ due'[h] = Owed(r)
      /\ UNCHANGED <<store, clock, job, status, faults, webUp, appUp, failed>>
      /\ due' = [due EXCEPT ![h] = Owed(r)]
      /\ \A g \in Handlers \ {h} : web'[g] = web[g] /\ due'[g] = due[g]
  BY <1>1 DEF Accept, WebType, stwVars
<1>3. OtherInv'
  BY <1>1, <1>2, OwedListed DEF TimelineInv, OtherInv
<1>4. \A g \in Handlers \ {h} : HandlerInv(g)'
  BY <1>2, SameInv DEF Same
<1>5. HandlerInv(h)'
  <2>1. /\ e.req = r /\ e.todo = Rpcs(r) /\ e.pc \in {"route", "rpc"}
        /\ e.conn = (IF r.path = "rpc" THEN "open" ELSE "none")
        /\ e.pc = "rpc" => ~Connects(r)
    OBVIOUS
  <2> HIDE DEF e
  <2>2. RequestFits(h)'
    <3>1. Len(Rpcs(r)) \in Nat /\ \A n \in 1 .. Len(Rpcs(r)) : Len(Rpcs(r)) - Len(Rpcs(r)) + n = n
      BY <1>1
    <3>2. e.pc = "rpc" /\ e.todo # <<>> => e.conn # "none"
      BY <2>1 DEF Connects, Rpcs
    <3> QED  BY <1>2, <2>1, <3>1, <3>2, NoJobFresh DEF RequestFits, Left, All
  <2>3. StatusFits(h)' /\ status[h] # "NoSuchUser"
    <3>1. StatusFits(h)
      BY HandlerInvs DEF HandlerInv
    <3> QED  BY <1>2, <3>1, NoJobFresh DEF StatusFits, Busy
  <2>4. UserThere(h)' /\ SubscribedToSelf(h)'
    BY <1>2, <2>1, <2>3, NoJobFresh, NoJobType DEF UserThere, SubscribedToSelf, Page, Busy
  <2>5. Owes(h)'
    BY <1>1, <1>2, <2>1, OwedListed DEF Owes, store
  <2>6. Gathers(h)' /\ LosesNone(h)'
    BY <1>2, NoJobFresh, FreshGathers
  <2> QED  BY <2>2, <2>3, <2>4, <2>5, <2>6 DEF HandlerInv
<1>6. \A g \in Handlers : due'[g] \subseteq due[g] \cup Listed
  BY <1>1, <1>2, OwedListed
<1> QED  BY <1>2, <1>3, <1>4, <1>5, <1>6, EachHandler DEF TimelineInv, StatusInv

\* A handler gets its connection before it has called anything.
LEMMA ConnectInv ==
  ASSUME WebInv, TimelineInv, NEW h \in Handlers, Route(h) \/ Dial(h)
  PROVE  TimelineInv'
<1>1. /\ WebType /\ JobType /\ web[h] \in Entry /\ HandlerInv(h)
  BY Types, HandlerInvs DEF WebType
<1>2. PICK pc \in {"dial", "rpc"}, c \in Conns :
        /\ web' = [web EXCEPT ![h].pc = pc, ![h].conn = c]
        /\ pc = "rpc" => c # "none"
  <2>1. App(h) \in Apps
    BY <1>1, StwAssumption DEF App, Entry, RequestType
  <2>2. conns[App(h)] \in Conns /\ "open" \in Conns
    BY <1>1, <2>1 DEF WebType, Conns
  <2>3. CASE Route(h)
    BY <2>2, <2>3 DEF Route
  <2>4. CASE Dial(h)
    BY <2>2, <2>4 DEF Dial
  <2> QED  BY <2>3, <2>4
<1>3. /\ web'[h].req = web[h].req /\ web'[h].todo = web[h].todo /\ web'[h].pc = pc /\ web'[h].conn = c
      /\ \A g \in Handlers \ {h} : web'[g] = web[g]
  BY <1>1, <1>2 DEF WebType, Entry
<1>4. web[h].pc \in {"route", "dial"} /\ UNCHANGED <<store, clock, job, status, faults, webUp, appUp, due, failed>>
  BY DEF Route, Dial, stwVars, history
<1>5. OtherInv'
  BY <1>4 DEF TimelineInv, OtherInv
<1>6. \A g \in Handlers \ {h} : HandlerInv(g)'
  BY <1>3, <1>4, SameInv DEF Same
<1>7. Left(h)' = All(h)' /\ Left(h)' = Left(h) /\ All(h)' = All(h) /\ Left(h) = All(h) /\ All(h) \in Nat
  <2>1. All(h) \in Nat
    BY <1>1, ReqType DEF TimelineInv
  <2> QED  BY <1>1, <1>3, <1>4, <2>1 DEF HandlerInv, RequestFits, Left, All
<1>8. HandlerInv(h)'
  <2>1. RequestFits(h)'
    <3>1. \A n \in 1 .. Left(h) : web[h].todo[n] = Rpcs(web[h].req)[All(h) - Left(h) + n]
      BY <1>1 DEF HandlerInv, RequestFits
    <3> QED  BY <1>1, <1>2, <1>3, <1>4, <1>7, <3>1 DEF HandlerInv, RequestFits
  <2>2. StatusFits(h)' /\ Owes(h)' /\ Gathers(h)' /\ (h \notin failed' => LosesNone(h)')
    BY <1>1, <1>3, <1>4 DEF HandlerInv, StatusFits, Owes, Gathers, LosesNone, Keeps, Busy, store
  <2>3. h \notin failed' => UserThere(h)'
    BY <1>1, <1>3, <1>4, <1>7 DEF HandlerInv, UserThere, Busy, store
  <2>4. h \notin failed' => SubscribedToSelf(h)'
    <3>1. web[h].req.path = "/home" => Left(h) # 1
      <4>1. web[h].req \in RequestType /\ Len(<<>>) = 0 /\ Len(HomeRpcs) = 3
        BY <1>1 DEF Entry, HomeRpcs
      <4>2. web[h].req.path = "/home" => Rpcs(web[h].req) = <<>> \/ Rpcs(web[h].req) = HomeRpcs
        BY <4>1, RpcsOf
      <4>3. web[h].req.path = "/home" => Len(Rpcs(web[h].req)) \in {0, 3}
        BY <4>1, <4>2
      <4>4. web[h].req.path = "/home" => All(h) \in {0, 3}
        BY <4>3 DEF All
      <4>5. Left(h) = All(h)
        BY <1>7
      <4> QED  BY <4>4, <4>5
    <3> QED  BY <1>1, <1>3, <1>4, <1>7, <3>1 DEF HandlerInv, SubscribedToSelf, OwnSubscribed, store
  <2> QED  BY <2>1, <2>2, <2>3, <2>4 DEF HandlerInv
<1> QED  BY <1>4, <1>5, <1>6, <1>8, EachHandler DEF TimelineInv, StatusInv

\* HTTP handlers that end call nothing more.
LEMMA WebDiesInv ==
  ASSUME WebInv, TimelineInv, WebDies
  PROVE  TimelineInv'
<1>1. UNCHANGED <<store, clock, job, status, faults, appUp, due, failed>> /\ webUp' = FALSE
  BY DEF WebDies, stwVars, history
<1>2. OtherInv'
  BY <1>1 DEF TimelineInv, OtherInv
<1>3. ASSUME NEW g \in Handlers PROVE HandlerInv(g)'
  <2>1. CASE web[g].req.path = "rpc"
    <3>1. web'[g] = web[g]
      BY <2>1 DEF WebDies
    <3> QED  BY <1>1, <3>1, SameInv DEF Same
  <2>2. CASE web[g].req.path # "rpc"
    <3>1. web[g] \in Entry /\ HandlerInv(g) /\ All(g) \in Nat
      BY Types, HandlerInvs, ReqType DEF WebType, TimelineInv
    <3>2. web'[g] = [web[g] EXCEPT !.pc = "idle", !.todo = <<>>, !.conn = "none"]
      BY <2>2 DEF WebDies
    <3>3. web'[g].req = web[g].req /\ web'[g].pc = "idle" /\ web'[g].todo = <<>> /\ web'[g].conn = "none"
      BY <3>1, <3>2 DEF Entry
    <3>4. Left(g)' = 0 /\ All(g)' = All(g)
      BY <3>3 DEF Left, All
    <3>5. RequestFits(g)'
      BY <1>1, <3>1, <3>3, <3>4 DEF HandlerInv, RequestFits
    <3>6. StatusFits(g)' /\ Owes(g)' /\ Gathers(g)' /\ (g \notin failed' => LosesNone(g)')
      BY <1>1, <3>1, <3>3 DEF HandlerInv, StatusFits, Owes, Gathers, LosesNone, Keeps, Busy, store
    <3>7. g \notin failed' => UserThere(g)' /\ SubscribedToSelf(g)'
      BY <1>1, <3>1, <3>3 DEF HandlerInv, UserThere, SubscribedToSelf, OwnSubscribed, Busy, store
    <3> QED  BY <3>5, <3>6, <3>7 DEF HandlerInv
  <2> QED  BY <2>1, <2>2
<1> QED  BY <1>1, <1>2, <1>3, EachHandler DEF TimelineInv, StatusInv

\* A page's first call creates its user, and is over before the next; /home's second
\* subscribes the user to themselves.
LEMMA CallRpcInv ==
  ASSUME WebInv, TimelineInv, NEW h \in Handlers, CallRpc(h)
  PROVE  TimelineInv'
<1> DEFINE r == web[h].req
           todo == web[h].todo
           c == [op |-> Head(todo), user |-> r.user, target |-> r.target, key |-> r.key]
           j == NewJob(c, "user")
<1>1. /\ WebType /\ JobType /\ web[h] \in Entry /\ HandlerInv(h)
      /\ r \in RequestType /\ todo \in Seq(Ops) /\ todo # <<>> /\ Rpcs(r) \in Seq(Ops)
      /\ All(h) \in Nat /\ Left(h) \in Nat
  BY Types, HandlerInvs, ReqType DEF WebType, CallRpc, TimelineInv
<1>2. /\ web[h].conn = "open" /\ web[h].pc = "rpc" /\ ~Busy(h)
      /\ UNCHANGED <<store, clock, faults, webUp, appUp, due, failed>>
      /\ job' = [job EXCEPT ![h] = j] /\ status' = [status EXCEPT ![h] = "none"]
      /\ web' = [web EXCEPT ![h].todo = Tail(@)]
  BY DEF CallRpc, Begin, history
<1>3. /\ web'[h].req = r /\ web'[h].todo = Tail(todo) /\ web'[h].pc = "rpc" /\ web'[h].conn = "open"
      /\ \A g \in Handlers \ {h} : web'[g] = web[g]
  BY <1>1, <1>2 DEF WebType, Entry
<1>4. /\ job'[h].op = todo[1] /\ job'[h].user = r.user /\ job'[h].target = r.target
      /\ job'[h].pc = "user" /\ Fresh(job'[h])
  <2>1. job'[h] = j /\ Head(todo) = todo[1]
    BY <1>1, <1>2 DEF JobType
  <2> QED  BY <2>1 DEF NewJob, Fresh
<1>5. /\ status'[h] = "none" /\ status' \in [Handlers -> Statuses]
      /\ \A g \in Handlers \ {h} : status'[g] = status[g] /\ job'[g] = job[g]
  BY <1>1, <1>2 DEF JobType, Statuses
<1> HIDE DEF c, j
<1>6. OtherInv'
  BY <1>2 DEF TimelineInv, OtherInv
<1>7. \A g \in Handlers \ {h} : HandlerInv(g)'
  BY <1>2, <1>3, <1>5, SameInv DEF Same
<1>8. Left(h) > 0 /\ Left(h)' = Left(h) - 1 /\ All(h)' = All(h) /\ Left(h) <= All(h)
  <2>1. Left(h) > 0 /\ Len(Tail(todo)) = Len(todo) - 1
    BY <1>1 DEF Left
  <2> QED  BY <1>1, <1>3, <2>1 DEF Left, All, HandlerInv, RequestFits
<1>9. todo[1] \in Ops /\ todo[1] # "none" /\ todo[1] = Rpcs(r)[All(h) - Left(h) + 1]
  <2>1. \A n \in 1 .. Left(h) : todo[n] = Rpcs(r)[All(h) - Left(h) + n]
    BY <1>1 DEF HandlerInv, RequestFits
  <2>2. todo[1] \in Ops
    BY <1>1, <1>8 DEF Left
  <2>3. todo[1] # "none"
    BY ONLY <2>2, NoJobFresh
  <2>4. 1 \in 1 .. Left(h)
    BY <1>1, <1>8
  <2> QED  BY ONLY <2>1, <2>2, <2>3, <2>4
<1>10. RequestFits(h)'
  <2>1. ASSUME NEW n \in 1 .. Left(h) - 1
        PROVE  Tail(todo)[n] = Rpcs(r)[All(h) - (Left(h) - 1) + n]
    <3>1. Tail(todo)[n] = todo[n + 1] /\ n + 1 \in 1 .. Left(h)
      BY <1>1, <1>8 DEF Left
    <3>2. todo[n + 1] = Rpcs(r)[All(h) - Left(h) + (n + 1)]
      BY <1>1, <3>1 DEF HandlerInv, RequestFits
    <3>3. All(h) - Left(h) + (n + 1) = All(h) - (Left(h) - 1) + n
      BY <1>1
    <3> QED  BY <3>1, <3>2, <3>3
  <2>2. \E n \in 1 .. All(h) : job'[h].op = Rpcs(r)[n]
    <3>1. All(h) - Left(h) + 1 \in 1 .. All(h)
      BY <1>1, <1>8
    <3> QED  BY <1>4, <1>9, <3>1
  <2>3. r \in Requests[h] \cup {NoRequest}
    BY <1>1 DEF HandlerInv, RequestFits
  <2>4. Left(h)' <= All(h)'
    BY <1>1, <1>8
  <2>5. \A n \in 1 .. Left(h)' : web'[h].todo[n] = Rpcs(web'[h].req)[All(h)' - Left(h)' + n]
    BY <1>3, <1>8, <2>1
  <2> QED  BY <1>3, <1>4, <1>8, <1>9, <2>2, <2>3, <2>4, <2>5 DEF RequestFits
<1>11. StatusFits(h)' /\ Gathers(h)' /\ LosesNone(h)'
  BY <1>4, <1>5, <1>9, FreshGathers DEF StatusFits
<1>12. Owes(h)'
  BY <1>1, <1>2, <1>3 DEF HandlerInv, Owes, store
<1>13. h \notin failed' => UserThere(h)'
  <2> SUFFICES ASSUME h \notin failed, Page(r) PROVE todo[1] = "CreateUser" \/ r.user \in users
    BY <1>2, <1>3, <1>4, <1>5 DEF UserThere, Busy, store
  <2>1. CASE Left(h) = All(h)
    <3>1. todo[1] = Rpcs(r)[1] /\ Rpcs(r) # <<>>
      BY <1>1, <1>8, <1>9, <2>1 DEF All
    <3> QED  BY <1>1, <3>1, RpcsOf
  <2>2. CASE Left(h) < All(h)
    BY <1>1, <1>2, <2>2 DEF HandlerInv, UserThere
  <2> QED  BY <1>1, <1>8, <2>1, <2>2
<1>14. h \notin failed' => SubscribedToSelf(h)'
  <2> SUFFICES ASSUME h \notin failed, r.path = "/home"
               PROVE  /\ Left(h) = 2 => todo[1] = "Subscribe"
                      /\ todo[1] = "HomeTimeline" => OwnSubscribed(h)
    <3>1. OwnSubscribed(h)' <=> OwnSubscribed(h)
      BY <1>2, <1>3 DEF OwnSubscribed, store
    <3> QED  BY <1>1, <1>2, <1>3, <1>4, <1>8, <3>1 DEF SubscribedToSelf, Busy
  <2>1. Rpcs(r) = <<>> \/ Rpcs(r) = HomeRpcs
    BY <1>1, RpcsOf
  <2>2. /\ Len(<<>>) = 0 /\ Len(HomeRpcs) = 3
        /\ HomeRpcs[1] = "CreateUser" /\ HomeRpcs[2] = "Subscribe" /\ HomeRpcs[3] = "HomeTimeline"
    BY DEF HomeRpcs
  <2>3. All(h) = 3 /\ Rpcs(r) = HomeRpcs
    BY <1>1, <1>8, <2>1, <2>2 DEF All
  <2>4. todo[1] = HomeRpcs[3 - Left(h) + 1]
    BY <1>9, <2>3
  <2>5. Left(h) = 2 => todo[1] = "Subscribe"
    BY <2>2, <2>4
  <2>6. todo[1] = "HomeTimeline" => Left(h) = 1
    <3>1. Left(h) \in {1, 2, 3}
      BY <1>1, <1>8, <2>3
    <3>2. CASE Left(h) = 2
      BY <2>5, <3>2
    <3>3. CASE Left(h) = 3
      <4>1. 3 - Left(h) + 1 = 1
        BY <3>3
      <4> QED  BY <2>2, <2>4, <4>1
    <3> QED  BY <3>1, <3>2, <3>3
  <2>7. Left(h) = 1 => OwnSubscribed(h)
    BY <1>1, <1>2 DEF HandlerInv, SubscribedToSelf
  <2> QED  BY <2>5, <2>6, <2>7
<1>15. HandlerInv(h)'
  BY <1>10, <1>11, <1>12, <1>13, <1>14 DEF HandlerInv
<1> QED  BY <1>2, <1>4, <1>5, <1>6, <1>7, <1>15, EachHandler

\* A handler whose RPC has failed, over a connection that does not live.
LEMMA BrokenInv ==
  ASSUME NEW g \in Handlers, job'[g] = NoJob, status'[g] = "Error", web'[g].conn # "open",
         UNCHANGED store, due'[g] = due[g], web'[g].req = web[g].req, HandlerInv(g)
  PROVE  RequestFits(g)' => HandlerInv(g)'
<1>1. job'[g].op = "none" /\ job'[g].pc = "done" /\ Gathers(g)' /\ LosesNone(g)'
  BY NoJobFresh, NoJobType, FreshGathers
<1>2. StatusFits(g)' /\ UserThere(g)' /\ SubscribedToSelf(g)'
  BY <1>1 DEF StatusFits, UserThere, SubscribedToSelf, Busy
<1>3. Owes(g)'
  BY DEF HandlerInv, Owes, store
<1> QED  BY <1>1, <1>2, <1>3 DEF HandlerInv

\* An RPC over a broken connection fails; the handler goes on with its next one.
LEMMA CallFailsInv ==
  ASSUME WebInv, TimelineInv, NEW h \in Handlers, CallFails(h)
  PROVE  TimelineInv'
<1> DEFINE r == web[h].req
           todo == web[h].todo
<1>1. /\ WebType /\ JobType /\ web[h] \in Entry /\ HandlerInv(h)
      /\ todo \in Seq(Ops) /\ todo # <<>> /\ All(h) \in Nat /\ Left(h) \in Nat
  BY Types, HandlerInvs, ReqType DEF WebType, CallFails, TimelineInv
<1>2. /\ web[h].conn = "broken" /\ web[h].pc = "rpc"
      /\ UNCHANGED <<store, clock, faults, webUp, appUp, due, failed>>
      /\ job' = [g \in Handlers |-> IF g \in {h} THEN NoJob ELSE job[g]]
      /\ status' = [g \in Handlers |-> IF g \in {h} THEN "Error" ELSE status[g]]
      /\ web' = [web EXCEPT ![h].todo = Tail(@)]
  BY DEF CallFails, HandlersDie, history
<1>3. /\ web'[h].req = r /\ web'[h].todo = Tail(todo) /\ web'[h].pc = "rpc" /\ web'[h].conn = "broken"
      /\ \A g \in Handlers \ {h} : web'[g] = web[g]
  BY <1>1, <1>2 DEF WebType, Entry
<1>4. /\ job'[h] = NoJob /\ status'[h] = "Error" /\ status' \in [Handlers -> Statuses]
      /\ \A g \in Handlers \ {h} : status'[g] = status[g] /\ job'[g] = job[g]
  BY <1>1, <1>2 DEF JobType, Statuses
<1>5. OtherInv'
  BY <1>2 DEF TimelineInv, OtherInv
<1>6. \A g \in Handlers \ {h} : HandlerInv(g)'
  BY <1>2, <1>3, <1>4, SameInv DEF Same
<1>7. Left(h) > 0 /\ Left(h)' = Left(h) - 1 /\ All(h)' = All(h) /\ Left(h) <= All(h)
  <2>1. Left(h) > 0 /\ Len(Tail(todo)) = Len(todo) - 1
    BY <1>1 DEF Left
  <2> QED  BY <1>1, <1>3, <2>1 DEF Left, All, HandlerInv, RequestFits
<1>8. RequestFits(h)'
  <2>1. ASSUME NEW n \in 1 .. Left(h) - 1
        PROVE  Tail(todo)[n] = Rpcs(r)[All(h) - (Left(h) - 1) + n]
    <3>1. Tail(todo)[n] = todo[n + 1] /\ n + 1 \in 1 .. Left(h)
      BY <1>1, <1>7 DEF Left
    <3>2. todo[n + 1] = Rpcs(r)[All(h) - Left(h) + (n + 1)]
      BY <1>1, <3>1 DEF HandlerInv, RequestFits
    <3>3. All(h) - Left(h) + (n + 1) = All(h) - (Left(h) - 1) + n
      BY <1>1
    <3> QED  BY <3>1, <3>2, <3>3
  <2>2. r \in Requests[h] \cup {NoRequest}
    BY <1>1 DEF HandlerInv, RequestFits
  <2>3. Left(h)' <= All(h)'
    BY <1>1, <1>7
  <2>4. \A n \in 1 .. Left(h)' : web'[h].todo[n] = Rpcs(web'[h].req)[All(h)' - Left(h)' + n]
    BY <1>3, <1>7, <2>1
  <2> QED  BY <1>3, <1>4, <1>7, <2>2, <2>3, <2>4, NoJobFresh DEF RequestFits
<1>9. HandlerInv(h)'
  BY <1>1, <1>2, <1>3, <1>4, <1>8, BrokenInv
<1> QED  BY <1>2, <1>4, <1>5, <1>6, <1>9, NoJobFresh, EachHandler

\* A handler that is done forgets its request.
LEMMA AnswerInv ==
  ASSUME WebInv, TimelineInv, NEW h \in Handlers, Answer(h)
  PROVE  TimelineInv'
<1>1. WebType /\ JobType /\ due \in [Handlers -> SUBSET PostKeys]
  BY Types DEF TimelineInv, OtherInv
<1>2. /\ UNCHANGED <<store, clock, faults, webUp, appUp>> /\ failed' = failed \ {h}
      /\ job' = [job EXCEPT ![h] = NoJob] /\ status' = [status EXCEPT ![h] = "none"]
      /\ web' = [web EXCEPT ![h] = Idle] /\ due' = [due EXCEPT ![h] = {}]
  BY DEF Answer
<1>3. /\ web'[h] = Idle /\ job'[h] = NoJob /\ status'[h] = "none" /\ due'[h] = {}
      /\ \A g \in Handlers \ {h} : Same(g)
      /\ status' \in [Handlers -> Statuses]
  BY <1>1, <1>2 DEF WebType, JobType, Statuses, Same
<1>4. OtherInv'
  BY <1>1, <1>2 DEF TimelineInv, OtherInv
<1>5. \A g \in Handlers \ {h} : HandlerInv(g)'
  BY <1>2, <1>3, SameInv
<1>6. HandlerInv(h)'
  <2>1. /\ Idle.req = NoRequest /\ Idle.pc = "idle" /\ Idle.todo = <<>> /\ Idle.conn = "none"
        /\ NoRequest.path = "none" /\ Rpcs(NoRequest) = <<>>
    BY DEF Idle, NoRequest, Request, Rpcs
  <2>2. job'[h].op = "none" /\ job'[h].pc = "done" /\ Gathers(h)' /\ LosesNone(h)'
    BY <1>3, NoJobFresh, NoJobType, FreshGathers
  <2>3. RequestFits(h)'
    BY <1>3, <2>1, <2>2 DEF RequestFits, Left, All
  <2>4. StatusFits(h)' /\ UserThere(h)' /\ SubscribedToSelf(h)' /\ Owes(h)'
    BY <1>3, <2>1, <2>2 DEF StatusFits, UserThere, SubscribedToSelf, Owes, Busy, Page
  <2> QED  BY <2>2, <2>3, <2>4 DEF HandlerInv
<1>7. \A g \in Handlers : (job'[g] = job[g] \/ Fresh(job'[g])) /\ due'[g] \subseteq due[g] \cup Listed
  BY <1>3, NoJobFresh DEF Same
<1> QED  BY <1>2, <1>3, <1>4, <1>5, <1>6, <1>7, EachHandler

\* The RPC of a handler runs where its connection leads: both end together.
LEMMA AppDiesInv ==
  ASSUME WebInv, TimelineInv, NEW a \in Apps, AppDies(a), faults' \in 0 .. MaxFaults
  PROVE  TimelineInv'
<1> DEFINE D == {h \in Handlers : Busy(h) /\ AppOf[job[h].user] = a}
<1>1. /\ UNCHANGED <<store, clock, webUp, due, failed>> /\ appUp' = [appUp EXCEPT ![a] = FALSE]
      /\ job' = [h \in Handlers |-> IF h \in D THEN NoJob ELSE job[h]]
      /\ status' = [h \in Handlers |-> IF h \in D THEN "Error" ELSE status[h]]
      /\ web' = [h \in Handlers |->
           IF web[h].conn = "open" /\ App(h) = a THEN [web[h] EXCEPT !.conn = "broken"] ELSE web[h]]
  BY DEF AppDies, HandlersDie
<1>2. OtherInv'
  BY <1>1 DEF TimelineInv, OtherInv
<1>3. status' \in [Handlers -> Statuses]
  BY <1>1, Types DEF JobType, Statuses
<1>4. ASSUME NEW g \in Handlers PROVE HandlerInv(g)'
  <2>1. web[g] \in Entry /\ HandlerInv(g) /\ JobsChecked
    BY Types, HandlerInvs DEF WebType, StoreInv
  <2>2. /\ web'[g].req = web[g].req /\ web'[g].pc = web[g].pc /\ web'[g].todo = web[g].todo
        /\ web'[g].conn = (IF web[g].conn = "open" /\ App(g) = a THEN "broken" ELSE web[g].conn)
    BY <1>1, <2>1 DEF Entry
  <2>3. Left(g)' = Left(g) /\ All(g)' = All(g)
    BY <2>2 DEF Left, All
  <2>4. CASE g \in D
    <3>1. job'[g] = NoJob /\ status'[g] = "Error"
      BY <1>1, <2>4
    <3>2. job[g].op # "none" /\ job[g].user = web[g].req.user
      <4>1. job[g].op \in Ops
        BY <2>1, <2>4 DEF JobsChecked, Checked, Busy
      <4> QED  BY <2>1, <4>1, NoJobFresh DEF HandlerInv, RequestFits
    <3>3. web'[g].conn # "open"
      BY <2>2, <2>4, <3>2 DEF App
    <3>4. RequestFits(g)'
      BY <2>1, <2>2, <2>3, <3>1, NoJobFresh DEF HandlerInv, RequestFits
    <3> QED  BY <1>1, <2>1, <2>2, <3>1, <3>3, <3>4, BrokenInv
  <2>5. CASE g \notin D
    <3>1. job'[g] = job[g] /\ status'[g] = status[g]
      BY <1>1, <2>5
    <3>2. CASE web'[g] = web[g]
      BY <1>1, <3>1, <3>2, SameInv DEF Same
    <3>3. CASE web'[g] # web[g]
      <4>1. web'[g].conn = "broken"
        BY <1>1, <2>2, <3>3
      <4>2. RequestFits(g)'
        BY <2>1, <2>2, <2>3, <3>1, <4>1 DEF HandlerInv, RequestFits
      <4>3. StatusFits(g)' /\ Owes(g)' /\ Gathers(g)' /\ (g \notin failed' => LosesNone(g)')
        BY <1>1, <2>1, <2>2, <3>1 DEF HandlerInv, StatusFits, Owes, Gathers, LosesNone, Keeps, Busy, store
      <4>4. g \notin failed' => UserThere(g)' /\ SubscribedToSelf(g)'
        BY <1>1, <2>1, <2>2, <3>1, <4>1 DEF HandlerInv, UserThere, SubscribedToSelf, OwnSubscribed, Busy, store
      <4> QED  BY <4>2, <4>3, <4>4 DEF HandlerInv
    <3> QED  BY <3>2, <3>3
  <2> QED  BY <2>4, <2>5
<1>5. \A g \in Handlers : job'[g] = job[g] \/ Fresh(job'[g])
  BY <1>1, NoJobFresh
<1> QED  BY <1>1, <1>2, <1>3, <1>4, <1>5, EachHandler

\* Steps that no handler notices.
LEMMA OthersInv ==
  ASSUME WebInv, TimelineInv, UNCHANGED <<stwVars, web, history>>,
         webUp' \in BOOLEAN, appUp' \in [Apps -> BOOLEAN]
  PROVE  TimelineInv'
<1>1. UNCHANGED <<store, clock, job, status, faults, web, due, failed>>
  BY DEF stwVars, history
<1>2. OtherInv'
  BY <1>1 DEF TimelineInv, OtherInv
<1>3. \A g \in Handlers : HandlerInv(g)'
  BY <1>1, SameInv DEF Same
<1> QED  BY <1>1, <1>2, <1>3, EachHandler DEF TimelineInv, StatusInv

\* Copies go, or an app server comes back without any.
LEMMA CopiesInv ==
  ASSUME WebInv, TimelineInv, UNCHANGED <<web, webUp, history>>, appUp' \in [Apps -> BOOLEAN],
         NEW a \in Apps, Forgotten(a) \/ Forget(a)
  PROVE  TimelineInv'
<1>1. UNCHANGED <<users, subs, postlist, posts, clock, job, status, faults, web, webUp, due, failed>>
  BY DEF Forgotten, Forget, ForgetSubs, ForgetList, ForgetPost, history
<1>2. OtherInv'
  BY <1>1 DEF TimelineInv, OtherInv
<1>3. \A g \in Handlers : HandlerInv(g)'
  BY <1>1, SameHandler DEF Same
<1>4. Copied' \subseteq Copied \cup Listed
  <2>1. Copied' \subseteq Copied \cup Listed'
    BY <1>1, CopiesKept
  <2> QED  BY <1>1, <2>1 DEF Listed
<1> QED  BY <1>1, <1>2, <1>3, <1>4, EachHandlerCopies DEF TimelineInv, StatusInv

-----------------------------------------------------------------------------
\* At first no handler owes anything.
LEMMA TimelineInit == Init => TimelineInv
<1> SUFFICES ASSUME Init PROVE TimelineInv
  OBVIOUS
<1>1. /\ job = [h \in Handlers |-> NoJob] /\ status = [h \in Handlers |-> "none"] /\ clock = 0
      /\ postlist = [u \in Users |-> {}] /\ faults = 0 /\ web = [h \in Handlers |-> Idle]
      /\ seenLists = [a \in Apps |-> postlist]
      /\ due = [h \in Handlers |-> {}] /\ failed = {} /\ webUp = TRUE /\ appUp = [a \in Apps |-> TRUE]
  BY DEF Init, StwInit
<1>2. Fresh(NoJob) /\ NoJob.op = "none" /\ NoJob.pc = "done"
  BY NoJobFresh, NoJobType
<1>3. OtherInv
  BY <1>1, StwAssumption DEF OtherInv
<1>4. PoolInv
  <2>1. Pool = {}
    BY <1>1, <1>2 DEF Pool, Listed, Copied, Drafts, Handled, At, Fresh
  <2> QED  BY <2>1 DEF PoolInv
<1>5. ASSUME NEW h \in Handlers
      PROVE  /\ RequestFits(h) /\ StatusFits(h) /\ UserThere(h) /\ SubscribedToSelf(h) /\ Owes(h)
             /\ Gathers(h) /\ LosesNone(h)
  <2>1. job[h] = NoJob /\ status[h] = "none" /\ web[h] = Idle /\ due[h] = {}
    BY <1>1
  <2>2. /\ Idle.req = NoRequest /\ Idle.pc = "idle" /\ Idle.todo = <<>> /\ Idle.conn = "none"
        /\ NoRequest.path = "none" /\ Rpcs(NoRequest) = <<>>
    BY DEF Idle, NoRequest, Request, Rpcs
  <2>3. RequestFits(h)
    BY <1>2, <2>1, <2>2 DEF RequestFits, Left, All
  <2>4. StatusFits(h) /\ UserThere(h) /\ SubscribedToSelf(h) /\ Owes(h)
    BY <1>2, <2>1, <2>2 DEF StatusFits, UserThere, SubscribedToSelf, Owes, Busy, Page
  <2>5. Gathers(h) /\ LosesNone(h)
    <3>1. job[h].got \cup job[h].keys = {} /\ Cardinality({}) <= Limit
      BY <1>2, <2>1, FS_EmptySet, StwAssumption DEF Fresh
    <3> QED  BY <1>2, <2>1, <3>1 DEF Gathers, LosesNone, Fits, Fresh
  <2> QED  BY <2>3, <2>4, <2>5
<1>6. StatusInv
  BY <1>1, <1>5 DEF StatusInv, Statuses
<1> QED  BY <1>3, <1>4, <1>5, <1>6 DEF TimelineInv, RequestInv, SignedUp, SelfSubscribed, DueInv, GatherInv

\* Every step keeps the invariant, given that of the posts.
LEMMA TimelineStep == WebInv /\ TimelineInv /\ [Next]_vars => TimelineInv'
<1> SUFFICES ASSUME WebInv, TimelineInv, [Next]_vars PROVE TimelineInv'
  OBVIOUS
<1>1. faults' \in 0 .. MaxFaults
  BY FaultsBound DEF TimelineInv
<1>2. ASSUME NEW h \in Handlers, NEW r \in Requests[h], Accept(h, r) PROVE TimelineInv'
  BY <1>2, AcceptInv
<1>3. ASSUME NEW h \in Handlers, Route(h) \/ Dial(h) PROVE TimelineInv'
  BY <1>3, ConnectInv
<1>4. ASSUME NEW h \in Handlers, DialFatal(h) \/ MapRace(h) PROVE TimelineInv'
  BY <1>4, WebDiesInv DEF DialFatal, MapRace
<1>5. ASSUME NEW h \in Handlers, CallRpc(h) \/ CallFails(h) PROVE TimelineInv'
  BY <1>5, CallRpcInv, CallFailsInv
<1>6. ASSUME NEW h \in Handlers, Serve(h) \/ Answer(h) PROVE TimelineInv'
  BY <1>1, <1>6, ServeInv, AnswerInv
<1>7. ASSUME NEW a \in Apps, AppDies(a) PROVE TimelineInv'
  BY <1>1, <1>7, AppDiesInv
<1>8. ASSUME NEW a \in Apps, AppRestart(a) \/ CopyGoes(a) PROVE TimelineInv'
  <2>1. /\ appUp' \in [Apps -> BOOLEAN] /\ UNCHANGED <<web, webUp, history>>
        /\ Forgotten(a) \/ Forget(a)
    BY <1>8 DEF AppRestart, CopyGoes, webVars, TimelineInv, OtherInv
  <2> QED  BY <2>1, CopiesInv
<1>9. ASSUME WebRestart \/ UNCHANGED vars PROVE TimelineInv'
  <2>1. appUp' \in [Apps -> BOOLEAN] /\ webUp' \in BOOLEAN /\ UNCHANGED <<stwVars, web, history>>
    BY <1>9 DEF WebRestart, vars, webVars, history, stwVars, TimelineInv, OtherInv
  <2> QED  BY <2>1, OthersInv
<1> QED  BY <1>2, <1>3, <1>4, <1>5, <1>6, <1>7, <1>8, <1>9 DEF Next

\* Both invariants hold together.
LEMMA TimelineInvariance == Spec => [](WebInv /\ TimelineInv)
BY WebInit, WebStep, TimelineInit, TimelineStep, PTL DEF Spec

\* Contents are stored, and kept by libstores, only under the keys of posts.
PostsType == posts \in SUBSET PostKeys /\ oldPosts \in [Apps -> SUBSET PostKeys]

LEMMA PostsStep == WebInv /\ PostsType /\ [Next]_vars => PostsType'
<1> SUFFICES ASSUME WebInv, PostsType, [Next]_vars PROVE PostsType'
  OBVIOUS
<1>0. ASSUME UNCHANGED caches PROVE UNCHANGED oldPosts
  BY <1>0 DEF caches
<1>1. ASSUME NEW h \in Handlers, PutPost(h) PROVE PostsType'
  <2> DEFINE k == [user |-> job[h].user, time |-> clock + 1]
  <2>1. job[h].user \in Users /\ clock \in Nat /\ clock < MaxTime /\ MaxTime \in Nat
    BY <1>1, StwAssumption DEF WebInv, StoreInv, StoreType, Job, PutPost
  <2>2. k \in PostKeys
    BY <2>1 DEF PostKeys
  <2>3. posts' \subseteq posts \cup {k} /\ UNCHANGED oldPosts
    BY <1>0, <1>1 DEF PutPost
  <2> QED  BY <2>2, <2>3 DEF PostsType
<1>2. ASSUME NEW h \in Handlers, DeletePost(h) PROVE PostsType'
  <2> DEFINE k == job[h].key
  <2>1. posts' \subseteq posts
    BY <1>2 DEF DeletePost
  <2>2. PICK A \in SUBSET Apps : oldPosts' =
          [a \in Apps |-> IF a \in A /\ k \in posts \ posts' THEN oldPosts[a] \cup {k} ELSE oldPosts[a]]
    BY <1>2 DEF DeletePost, GoneSeen
  <2>3. \A a \in Apps : oldPosts'[a] \subseteq oldPosts[a] \cup posts
    BY <2>2
  <2>4. oldPosts' \in [Apps -> SUBSET PostKeys]
    BY <2>2, <2>3 DEF PostsType
  <2> QED  BY <2>1, <2>4 DEF PostsType
<1>3. ASSUME NEW h \in Handlers, Step(h), ~PutPost(h), ~DeletePost(h) PROVE UNCHANGED <<posts, oldPosts>>
  BY <1>0, <1>3 DEF Step, NoUser, IsUser, CreateUser, GetTarget, Subscribe, Unsubscribe, Post, Unlist,
     ReadList, ReadSubs, ReadSubscription, Fetch, store, SubsSeen, ListSeen
<1>4. ASSUME NEW a \in Apps, AppRestart(a) \/ CopyGoes(a) PROVE PostsType'
  BY <1>4 DEF AppRestart, Forgotten, CopyGoes, Forget, ForgetSubs, ForgetList, ForgetPost, PostsType
<1>5. \/ \E h \in Handlers : Serve(h)
      \/ \E a \in Apps : AppRestart(a) \/ CopyGoes(a)
      \/ UNCHANGED <<posts, oldPosts>>
  BY <1>0 DEF Next, vars, stwVars, Accept, Route, Dial, DialFatal, MapRace, WebDies, CallRpc, Begin,
     CallFails, Answer, AppDies, HandlersDie, WebRestart, store
<1> QED  BY <1>1, <1>2, <1>3, <1>4, <1>5 DEF Serve, PostsType

\* The types of the stored and kept posts, always.
LEMMA PostsInvariance == Spec => []PostsType
<1>1. Init => PostsType
  BY DEF Init, StwInit, PostsType
<1> QED  BY <1>1, PostsStep, WebInvariance, PTL DEF Spec

\* The web and app servers keep their types; a handler uses a connection only after it has
\* got one, and no timeline has more than Limit posts, merged or not (TypeOK).
THEOREM WebTypeSafe == Spec => []TypeOK
<1>1. WebInv /\ TimelineInv /\ PostsType => TypeOK
  <2> SUFFICES ASSUME WebInv, TimelineInv, PostsType PROVE TypeOK
    OBVIOUS
  <2>1. JobType /\ StoreType /\ WebType /\ OtherInv
    BY Types DEF StoreInv, TimelineInv
  <2>2. \A h \in Handlers : Cardinality(job[h].got) <= Limit
    <3> SUFFICES ASSUME NEW h \in Handlers PROVE Cardinality(job[h].got) <= Limit
      OBVIOUS
    <3>1. job[h].got \cup job[h].keys \in SUBSET Pool /\ job[h].got \in SUBSET (job[h].got \cup job[h].keys)
      BY PoolSets
    <3>2. IsFiniteSet(job[h].got \cup job[h].keys)
      BY <3>1, PoolSets
    <3>3. CASE job[h].pc \in {"fetch", "done"}
      <4>1. Cardinality(job[h].got \cup job[h].keys) <= Limit
        BY <3>3 DEF TimelineInv, GatherInv, Gathers
      <4>2. /\ Cardinality(job[h].got) <= Cardinality(job[h].got \cup job[h].keys)
            /\ Cardinality(job[h].got) \in Nat /\ Cardinality(job[h].got \cup job[h].keys) \in Nat
        BY <3>1, <3>2, FS_Subset, FS_CardinalityType
      <4> QED  BY <4>1, <4>2, StwAssumption
    <3>4. CASE job[h].pc \notin {"fetch", "done"}
      <4>1. job[h].got = {}
        BY <3>4 DEF TimelineInv, GatherInv, Gathers
      <4> QED  BY <4>1, FS_EmptySet, StwAssumption
    <3> QED  BY <3>3, <3>4
  <2>3. \A h \in Handlers : /\ web[h].req \in Requests[h] \cup {NoRequest}
                            /\ web[h].pc = "rpc" /\ web[h].todo # <<>> => web[h].conn # "none"
    BY DEF TimelineInv, RequestInv, RequestFits
  <2>4. StwTypeOK
    BY <2>1, <2>2 DEF WebInv, SeenType, StwTypeOK, StoreType, JobType, OtherInv, PostsType
  <2> QED  BY <2>1, <2>3, <2>4 DEF TypeOK, WebType, Entry, OtherInv
<1> QED  BY <1>1, TimelineInvariance, PostsInvariance, PTL

\* A page that signs its user up finds the user (PagesSignUp).
THEOREM PagesFindTheirUser == Spec => []PagesSignUp
<1>1. TimelineInv => PagesSignUp
  BY DEF TimelineInv, SignedUp, UserThere, Page, PagesSignUp
<1> QED  BY <1>1, TimelineInvariance, PTL

\* What a complete timeline owes, it shows, or Limit newer posts.
LEMMA CompleteShows ==
  ASSUME WebInv, TimelineInv, NEW h \in Handlers, Complete(h), NEW k \in due[h]
  PROVE  Shown(h, k)
<1> DEFINE newer == {l \in job[h].got : l.time > k.time}
<1>1. Reads(job[h]) /\ status[h] = "OK" /\ h \notin failed /\ job[h].pc = "done"
  BY DEF Complete, Reads, TimelineInv, StatusInv, StatusFits, Busy
<1>2. job[h].keys = {} /\ Cardinality(job[h].got \cup job[h].keys) <= Limit
  BY <1>1 DEF TimelineInv, GatherInv, Gathers
<1>3. Covered(k, job[h].got \cup job[h].keys)
  BY <1>1 DEF TimelineInv, GatherInv, LosesNone, Keeps
<1>4. job[h].got \cup job[h].keys = job[h].got
  BY <1>2
<1>5. newer \in SUBSET job[h].got /\ IsFiniteSet(job[h].got)
  BY PoolSets
<1>6. k \in job[h].got \/ Cardinality(newer) >= Limit
  BY <1>3, <1>4 DEF Covered
<1>7. Shown(h, k) <=> k \in job[h].got \/ Cardinality(newer) = Limit
  BY DEF Shown
<1> HIDE DEF newer
<1>8. /\ Cardinality(newer) <= Cardinality(job[h].got)
      /\ Cardinality(newer) \in Nat /\ Cardinality(job[h].got) \in Nat
  BY <1>5, FS_Subset, FS_CardinalityType
<1>9. Cardinality(job[h].got) <= Limit
  BY <1>2, <1>4
<1> QED  BY <1>6, <1>7, <1>8, <1>9, StwAssumption

\* A complete timeline shows every post that was there when its request came in, or Limit
\* newer ones, unless the post was unlisted, its user unsubscribed from, or a list answered
\* from a copy out of date that lacks it; the user's own posts on /home, too, whether they
\* subscribed to themselves before or not (TimelinesMissNothing).
THEOREM TimelinesComplete == Spec => []TimelinesMissNothing
<1>1. WebInv /\ TimelineInv => TimelinesMissNothing
  BY CompleteShows DEF TimelinesMissNothing
<1> QED  BY <1>1, TimelineInvariance, PTL
=============================================================================
