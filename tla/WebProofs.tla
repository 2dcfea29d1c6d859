------------------------------ MODULE WebProofs ------------------------------
(***************************************************************************)
(* The handlers of the app servers, called by the web server and by        *)
(* stwclient, implement Feed, and keep posts readable and findable: for    *)
(* any users, handlers, requests, app servers and faults.                  *)
(***************************************************************************)
EXTENDS WebServer, TLAPS

StoreType ==
  /\ users \in SUBSET Users
  /\ subs \in [Users -> SUBSET Users]
  /\ postlist \in [Users -> SUBSET PostKeys]
  /\ clock \in 0 .. MaxTime
  /\ job \in [Handlers -> Job]

FaultsType == faults \in Nat

\* What libstores answer are lists of users and of posts.
SeenType ==
  /\ seenSubs \in [Apps -> [Users -> SUBSET Users]]
  /\ seenLists \in [Apps -> [Users -> SUBSET PostKeys]]

\* What a handler has to do once its RPC is accepted is a list of RPCs.
Entry == [req: RequestType, pc: {"idle", "route", "dial", "rpc"}, todo: Seq(Ops), conn: Conns]
WebType == web \in [Handlers -> Entry] /\ conns \in [Apps -> Conns]

Drafting(j) == j.op = "Post" /\ j.pc = "append"
Deleting(j) == j.op = "DeletePost" /\ j.pc = "delete"

\* What the handler of job j has found out about its user and its target holds among the
\* users U; a key to be unlisted is one of a post.
Checked(j, U) ==
  /\ j.pc # "done" => j.op \in Ops
  /\ j.pc \notin {"user", "putUser", "done"} => j.user \in U
  /\ j.pc = "sublist" => j.target \in U
  /\ j.op = "DeletePost" /\ j.pc = "unlist" => j.key \in PostKeys

JobsChecked == \A h \in Handlers : Checked(job[h], users)

\* The key of a post that is not listed yet is its own.
DraftsOwn ==
  /\ \A h \in Handlers : Drafting(job[h]) =>
       job[h].key \in PostKeys /\ job[h].key.user = job[h].user /\ job[h].key.time <= clock
  /\ \A h, g \in Handlers : Drafting(job[h]) /\ Drafting(job[g]) /\ job[h].key = job[g].key => h = g

\* A listed post stands in the list of its user, and no Post is about to list it.
ListsOld ==
  \A u \in Users : \A k \in postlist[u] :
    /\ k.user = u /\ k.time <= clock
    /\ \A h \in Handlers : Drafting(job[h]) => job[h].key # k

\* A post whose contents are about to be deleted is not listed, nor about to be.
DeletedUnlisted ==
  \A h \in Handlers : Deleting(job[h]) =>
    /\ job[h].key \in PostKeys /\ job[h].key.time <= clock
    /\ \A u \in Users : job[h].key \notin postlist[u]
    /\ \A g \in Handlers : Drafting(job[g]) => job[g].key # job[h].key

StoreInv == StoreType /\ JobsChecked /\ DraftsOwn /\ ListsOld /\ DeletedUnlisted

Drafts == Handled("Post", "append")
Deletions == Handled("DeletePost", "delete")

\* What a step of the web and app servers does to Feed and to the posts.
Kept ==
  /\ StoreInv'
  /\ [FeedOfPosts!Next]_FeedOfPosts!feed
  /\ faults' = faults => Unreadable' \subseteq Unreadable /\ Stray' \subseteq Stray

LEMMA NoFault == FaultsType /\ faults' = faults => ~Fault
BY DEF FaultsType, Fault

LEMMA FaultsStep == FaultsType /\ [Next]_vars => FaultsType'
<1> SUFFICES ASSUME FaultsType, [Next]_vars PROVE UNCHANGED faults \/ Fault
  BY DEF FaultsType, Fault
<1>1. ASSUME NEW h \in Handlers, Step(h) PROVE UNCHANGED faults \/ Fault
  BY <1>1 DEF Step, NoUser, IsUser, CreateUser, GetTarget, Subscribe, Unsubscribe, PutPost, Post,
     Unlist, DeletePost, ReadList, ReadSubs, ReadSubscription, Fetch
<1> QED BY <1>1 DEF Next, vars, stwVars, Accept, Route, Dial, DialFatal, MapRace, WebDies, CallRpc, Begin,
     CallFails, Serve, Answer, AppDies, AppRestart, Forgotten, CopyGoes, Forget, ForgetSubs, ForgetList,
     ForgetPost, WebRestart

LEMMA SeenStep == SeenType /\ StoreType /\ StoreType' /\ [Next]_vars => SeenType'
<1> SUFFICES ASSUME SeenType, StoreType, StoreType', [Next]_vars PROVE SeenType'
  OBVIOUS
<1> USE DEF SeenType
<1>0. ASSUME UNCHANGED caches PROVE SeenType'
  BY <1>0 DEF caches
<1>1. ASSUME NEW u \in Users, SubsSeen(u) PROVE SeenType'
  BY <1>1 DEF SubsSeen, StoreType
<1>2. ASSUME NEW u \in Users, ListSeen(u) PROVE SeenType'
  BY <1>2 DEF ListSeen, StoreType
<1>3. ASSUME NEW k, GoneSeen(k) PROVE SeenType'
  BY <1>3 DEF GoneSeen
<1>4. ASSUME NEW a \in Apps, AppRestart(a) \/ CopyGoes(a) PROVE SeenType'
  <2>1. CASE AppRestart(a)
    BY <2>1 DEF AppRestart, Forgotten, StoreType
  <2>2. ASSUME NEW u \in Users, ForgetSubs(a, u) PROVE SeenType'
    <3>1. seenSubs' = [seenSubs EXCEPT ![a] = [seenSubs[a] EXCEPT ![u] = subs[u]]] /\ UNCHANGED seenLists
      BY <2>2 DEF ForgetSubs
    <3> QED BY <3>1 DEF StoreType
  <2>3. ASSUME NEW u \in Users, ForgetList(a, u) PROVE SeenType'
    <3>1. seenLists' = [seenLists EXCEPT ![a] = [seenLists[a] EXCEPT ![u] = postlist[u]]] /\ UNCHANGED seenSubs
      BY <2>3 DEF ForgetList
    <3> QED BY <3>1 DEF StoreType
  <2> QED BY <1>4, <2>1, <2>2, <2>3 DEF CopyGoes, Forget, ForgetPost
<1>5. ASSUME NEW h \in Handlers, Step(h) PROVE SeenType'
  <2>1. CASE Subscribe(h) \/ Unsubscribe(h)
    <3>1. job[h].user \in Users
      BY DEF StoreType, Job
    <3> QED BY <1>1, <2>1, <3>1 DEF Subscribe, Unsubscribe
  <2>2. CASE Post(h) \/ Unlist(h)
    <3>1. ListSeen(job[h].key.user)
      BY <2>2 DEF Post, Unlist
    <3>2. CASE job[h].key.user \in Users
      BY <1>2, <3>1, <3>2
    <3>3. CASE job[h].key.user \notin Users
      <4>1. PICK A \in SUBSET Apps : seenLists' = [a \in Apps |-> IF a \in A THEN seenLists[a]
                                    ELSE [seenLists[a] EXCEPT ![job[h].key.user] = postlist'[job[h].key.user]]]
        BY <3>1 DEF ListSeen
      <4>2. \A a \in Apps : seenLists'[a] = seenLists[a]
        BY <3>3, <4>1
      <4>3. UNCHANGED seenSubs
        BY <3>1 DEF ListSeen
      <4> QED BY <4>1, <4>2, <4>3
    <3> QED BY <3>2, <3>3
  <2>3. CASE DeletePost(h)
    BY <1>3, <2>3 DEF DeletePost
  <2>4. CASE ~(Subscribe(h) \/ Unsubscribe(h) \/ Post(h) \/ Unlist(h) \/ DeletePost(h))
    BY <1>0, <1>5, <2>4 DEF Step, NoUser, IsUser, CreateUser, GetTarget, PutPost, ReadList, ReadSubs,
       ReadSubscription, Fetch, store
  <2> QED BY <2>1, <2>2, <2>3, <2>4
<1> QED BY <1>0, <1>4, <1>5 DEF Next, vars, stwVars, store, Accept, Route, Dial, DialFatal, MapRace, WebDies,
     CallRpc, Begin, CallFails, HandlersDie, Serve, Answer, AppDies, WebRestart

LEMMA NoJobType ==
  /\ NoJob \in Job /\ NoJob.pc = "done" /\ NoJob.user \in Users
BY StwAssumption DEF NoJob, NewJob, Job, Steps

LEMMA RpcsType == ASSUME NEW h \in Handlers, NEW r \in Requests[h] PROVE Rpcs(r) \in Seq(Ops)
<1>1. r.path = "rpc" => r.method \in Ops
  BY WebAssumption
<1>2. /\ <<>> \in Seq(Ops)
      /\ \A o \in Ops : <<o>> \in Seq(Ops)
      /\ \A o, q \in Ops : <<o, q>> \in Seq(Ops)
      /\ \A o, q, s \in Ops : <<o, q, s>> \in Seq(Ops)
  OBVIOUS
<1>3. {"CreateUser", "Subscribe", "Unsubscribe", "Post", "DeletePost", "Timeline", "HomeTimeline"} \subseteq Ops
  BY DEF Ops
<1> QED BY <1>1, <1>2, <1>3 DEF Rpcs, HomeRpcs, PostRpcs

LEMMA IdleType == Idle \in Entry
<1>1. ASSUME NEW u \in Users PROVE Request("none", "none", u) \in RequestType
  BY DEF Request, RequestType
<1>2. NoRequest \in RequestType
  BY <1>1, NoJobType DEF NoRequest
<1> QED BY <1>2 DEF Idle, Entry, Conns

LEMMA WebTypeInit == Init => WebType
BY IdleType DEF Init, WebType, Conns

LEMMA WebTypeStep == WebType /\ [Next]_vars => WebType'
<1> SUFFICES ASSUME WebType, [Next]_vars PROVE WebType'
  OBVIOUS
<1> USE DEF WebType
<1>1. ASSUME NEW e \in Entry
      PROVE  /\ \A c \in Conns : [e EXCEPT !.conn = c] \in Entry
             /\ [e EXCEPT !.pc = "idle", !.todo = <<>>, !.conn = "none"] \in Entry
             /\ e.todo # <<>> => [e EXCEPT !.todo = Tail(@)] \in Entry
             /\ AppOf[e.req.user] \in Apps
  <2>1. e.todo # <<>> => Tail(e.todo) \in Seq(Ops)
    BY DEF Entry
  <2>2. e.todo # <<>> => [e EXCEPT !.todo = Tail(@)] \in Entry
    BY <2>1 DEF Entry
  <2>3. AppOf[e.req.user] \in Apps
    BY StwAssumption DEF Entry, RequestType
  <2>4. \A c \in Conns : [e EXCEPT !.conn = c] \in Entry
    BY DEF Entry
  <2>5. [e EXCEPT !.pc = "idle", !.todo = <<>>, !.conn = "none"] \in Entry
    <3>1. <<>> \in Seq(Ops) /\ "none" \in Conns
      BY DEF Conns
    <3> QED BY <3>1 DEF Entry
  <2> QED BY <2>2, <2>3, <2>4, <2>5
<1>2. ASSUME NEW h \in Handlers, NEW r \in Requests[h], Accept(h, r) PROVE WebType'
  BY <1>2, RpcsType, WebAssumption DEF Accept, Entry, Conns
<1>3. ASSUME NEW h \in Handlers, Answer(h) PROVE WebType'
  BY <1>3, IdleType DEF Answer
<1>4. ASSUME NEW h \in Handlers, CallRpc(h) \/ CallFails(h) PROVE WebType'
  BY <1>1, <1>4 DEF CallRpc, CallFails
<1>5. ASSUME NEW h \in Handlers, Route(h) \/ Dial(h) PROVE WebType'
  <2>1. conns[App(h)] \in Conns /\ "open" \in Conns
    BY <1>1 DEF App, Conns
  <2>2. CASE Route(h)
    BY <2>1, <2>2 DEF Route, Entry
  <2>3. CASE Dial(h)
    <3>1. web' \in [Handlers -> Entry]
      BY <2>1, <2>3 DEF Dial, Entry
    <3>2. conns' \in [Apps -> Conns]
      BY <2>1, <2>3 DEF Dial
    <3> QED BY <3>1, <3>2
  <2> QED BY <1>5, <2>2, <2>3
<1>6. ASSUME WebDies PROVE WebType'
  BY <1>1, <1>6 DEF WebDies, Conns
<1>7. ASSUME NEW a \in Apps, AppDies(a) PROVE WebType'
  BY <1>1, <1>7 DEF AppDies, Conns
<1>8. ASSUME UNCHANGED <<web, conns>> PROVE WebType'
  BY <1>8
<1> QED BY <1>2, <1>3, <1>4, <1>5, <1>6, <1>7, <1>8
        DEF Next, vars, webVars, Serve, DialFatal, MapRace, AppRestart, CopyGoes, WebRestart

-----------------------------------------------------------------------------
(* Steps that change nothing but how far handlers have come.               *)

\* A handler is not between the two writes of a Post or DeletePost.
Calm(j) == ~Drafting(j) /\ ~Deleting(j)

\* The step leaves the storage alone, and the handlers that go on are calm before and after.
Quiet ==
  /\ UNCHANGED <<users, subs, postlist, posts, clock>>
  /\ job' \in [Handlers -> Job]
  /\ \A g \in Handlers :
       job'[g] = job[g] \/ (Calm(job[g]) /\ Calm(job'[g]) /\ Checked(job'[g], users))

LEMMA SameHandled ==
  ASSUME NEW op, NEW pc,
         \A g \in Handlers : job'[g] = job[g] \/ ~(At(g, op, pc) \/ At(g, op, pc)')
  PROVE  Handled(op, pc)' = Handled(op, pc)
BY DEF Handled, At

LEMMA QuietKept == StoreInv /\ Quiet => Kept
<1> SUFFICES ASSUME StoreInv, Quiet PROVE Kept
  OBVIOUS
<1>1. StoreInv'
  <2> USE DEF StoreInv, Quiet
  <2>1. StoreType'
    BY DEF StoreType
  <2>2. JobsChecked'
    BY DEF JobsChecked
  <2>3. \A g \in Handlers : /\ Drafting(job'[g]) => Drafting(job[g]) /\ job'[g] = job[g]
                            /\ Deleting(job'[g]) => Deleting(job[g]) /\ job'[g] = job[g]
    BY DEF Calm
  <2>4. DraftsOwn' /\ ListsOld' /\ DeletedUnlisted'
    BY <2>3 DEF DraftsOwn, ListsOld, DeletedUnlisted
  <2> QED BY <2>1, <2>2, <2>4
<1>2. Drafts' = Drafts /\ Deletions' = Deletions
  BY SameHandled DEF Quiet, Calm, Drafting, Deleting, At, Drafts, Deletions
<1>3. UNCHANGED FeedOfPosts!feed
  BY <1>2 DEF Quiet, Drafts, FeedOfPosts!feed
<1>4. Unreadable' = Unreadable /\ Stray' = Stray
  BY <1>2 DEF Quiet, Drafts, Deletions, Unreadable, Stray, Listed
<1> QED BY <1>1, <1>3, <1>4 DEF Kept

\* Handler h goes on from pc, or returns; nothing else of the job is forgotten.
Moved(h, pc) ==
  /\ job' \in [Handlers -> Job]
  /\ \A g \in Handlers \ {h} : job'[g] = job[g]
  /\ job'[h].pc = pc
  /\ job'[h].op = job[h].op /\ job'[h].user = job[h].user
  /\ job'[h].target = job[h].target /\ job'[h].key = job[h].key

LEMMA GotoMoved ==
  ASSUME StoreType, NEW h \in Handlers, NEW pc \in Steps, Goto(h, pc)
  PROVE  Moved(h, pc)
<1>1. job' = [job EXCEPT ![h] = [job[h] EXCEPT !.pc = pc]]
  BY DEF Goto, StoreType
<1>2. [job[h] EXCEPT !.pc = pc] \in Job
  BY DEF StoreType, Job
<1> QED BY <1>1, <1>2 DEF StoreType, Moved, Job

LEMMA ReturnMoved ==
  ASSUME StoreType, NEW h \in Handlers, NEW st, Return(h, st)
  PROVE  Moved(h, "done")
<1> DEFINE j == [job[h] EXCEPT !.pc = "done", !.todo = {}, !.keys = {}]
<1>1. job' = [job EXCEPT ![h] = j]
  BY DEF Return, StoreType
<1>2. j \in Job
  BY DEF StoreType, Job, Steps
<1> QED BY <1>1, <1>2 DEF StoreType, Moved, Job

LEMMA FetchingMoved ==
  ASSUME StoreType, NEW h \in Handlers, NEW T \in SUBSET PostKeys, Fetching(h, T)
  PROVE  Moved(h, "done") \/ Moved(h, "fetch")
<1>1. CASE T = {}
  BY <1>1, ReturnMoved DEF Fetching
<1>2. CASE T # {}
  <2> DEFINE j == [job[h] EXCEPT !.pc = "fetch", !.todo = {}, !.keys = T]
  <2>1. job' = [job EXCEPT ![h] = j]
    BY <1>2 DEF Fetching, StoreType
  <2>2. j \in Job
    BY DEF StoreType, Job, Steps
  <2> QED BY <2>1, <2>2 DEF StoreType, Moved, Job
<1> QED BY <1>1, <1>2

\* Going on to any step but the second writes, the target's and the list's, is quiet once
\* the user is known.
LEMMA MovedQuiet ==
  ASSUME StoreType, NEW h \in Handlers, NEW pc, Moved(h, pc), Calm(job[h]), UNCHANGED <<store, clock>>,
         pc \notin {"append", "delete"}, job[h].op \in Ops,
         pc \notin {"user", "putUser", "done"} => job[h].user \in users,
         pc = "sublist" => job[h].target \in users,
         job[h].op = "DeletePost" /\ pc = "unlist" => job[h].key \in PostKeys
  PROVE  Quiet
BY DEF Quiet, store, Moved, Calm, Drafting, Deleting, Checked

LEMMA NoUserKept == ASSUME StoreInv, NEW h \in Handlers, NoUser(h) PROVE Kept
<1>1. Moved(h, "putUser") \/ Moved(h, "done")
  BY GotoMoved, ReturnMoved DEF NoUser, StoreInv, Steps
<1>2. Quiet
  BY <1>1, MovedQuiet DEF NoUser, StoreInv, Calm, Drafting, Deleting, JobsChecked, Checked
<1> QED BY <1>2, QuietKept

LEMMA IsUserKept == ASSUME StoreInv, NEW h \in Handlers, IsUser(h) PROVE Kept
<1> USE DEF StoreInv
<1>0. job[h].op \in Ops
  BY DEF IsUser, JobsChecked, Checked
<1>1. \/ Moved(h, "done") \/ Moved(h, "target") \/ Moved(h, "put") \/ Moved(h, "list") \/ Moved(h, "subs")
      \/ Moved(h, "unlist") /\ job[h].key # NoKey
  <2>1. \A pc \in {"target", "put", "list", "subs", "unlist"} : Goto(h, pc) => Moved(h, pc)
    BY GotoMoved DEF Steps
  <2>2. \A st : Return(h, st) => Moved(h, "done")
    BY ReturnMoved
  <2> QED BY <1>0, <2>1, <2>2 DEF IsUser, Ops
<1>2. job[h].key \in PostKeys \cup {NoKey} /\ job[h].user \in users /\ Calm(job[h]) /\ UNCHANGED <<store, clock>>
  BY DEF IsUser, StoreType, Job, Calm, Drafting, Deleting
<1>3. Quiet
  BY <1>0, <1>1, <1>2, MovedQuiet
<1> QED BY <1>3, QuietKept

LEMMA GetTargetKept == ASSUME StoreInv, NEW h \in Handlers, GetTarget(h) PROVE Kept
<1>1. (Moved(h, "sublist") /\ job[h].target \in users) \/ Moved(h, "done")
  BY GotoMoved, ReturnMoved DEF GetTarget, StoreInv, Steps
<1>2. Quiet
  BY <1>1, MovedQuiet DEF GetTarget, StoreInv, Calm, Drafting, Deleting, JobsChecked, Checked
<1> QED BY <1>2, QuietKept

LEMMA ReadsKept ==
  ASSUME StoreInv, SeenType, NEW h \in Handlers,
         ReadList(h) \/ ReadSubs(h) \/ ReadSubscription(h) \/ Fetch(h)
  PROVE  Kept
<1> USE DEF StoreInv
<1>0. ASSUME NEW pc, Moved(h, pc), pc \in {"done", "lists", "fetch"} PROVE Kept
  <2>1. job[h].pc \in {"list", "subs", "lists", "fetch"} /\ UNCHANGED <<store, clock>>
    BY DEF ReadList, ReadSubs, ReadSubscription, Fetch, At
  <2> QED BY <1>0, <2>1, MovedQuiet, QuietKept DEF Calm, Drafting, Deleting, JobsChecked, Checked
<1>1. ASSUME NEW S \in SUBSET PostKeys, NEW T \in Newest(S) PROVE T \in SUBSET PostKeys
  BY <1>1 DEF Newest
<1> DEFINE a == Libstore(h)
<1>a. a \in Apps /\ job[h].user \in Users
  BY StwAssumption DEF Libstore, StoreType, Job
<1>2. CASE ReadList(h)
  <2>1. seenLists[a][job[h].user] \in SUBSET PostKeys
    BY <1>a DEF SeenType
  <2> QED BY <1>0, <1>1, <1>2, <2>1, FetchingMoved, ReturnMoved DEF ReadList
<1>3. CASE ReadSubs(h)
  <2> DEFINE j == [job[h] EXCEPT !.pc = "lists", !.todo = seenSubs[a][job[h].user]]
  <2>0. seenSubs[a][job[h].user] \in SUBSET Users
    BY <1>a DEF SeenType
  <2>1. j \in Job
    BY <2>0 DEF StoreType, Job, Steps
  <2>2. job' = [job EXCEPT ![h] = j] \/ \E st : Return(h, st)
    BY <1>3 DEF ReadSubs, StoreType
  <2>3. job' = [job EXCEPT ![h] = j] => Moved(h, "lists")
    BY <2>1 DEF Moved, StoreType, Job
  <2> QED BY <1>0, <2>2, <2>3, ReturnMoved
<1>4. CASE ReadSubscription(h)
  <2>0. PICK t \in job[h].todo : \E T \in Newest(seenLists[a][t]) \cup {{}} :
          LET keys == job[h].keys \cup T IN
          IF job[h].todo = {t}
          THEN \E cut \in Merge(keys) : Fetching(h, cut)
          ELSE job' = [job EXCEPT ![h].todo = @ \ {t}, ![h].keys = keys]
    BY <1>4 DEF ReadSubscription
  <2>1. PICK T \in Newest(seenLists[a][t]) \cup {{}} :
          LET keys == job[h].keys \cup T IN
          IF job[h].todo = {t}
          THEN \E cut \in Merge(keys) : Fetching(h, cut)
          ELSE job' = [job EXCEPT ![h].todo = @ \ {t}, ![h].keys = keys]
    BY <2>0
  <2>2. T \in SUBSET PostKeys /\ job[h].keys \in SUBSET PostKeys
    <3>1. t \in Users
      BY DEF StoreType, Job
    <3>2. seenLists[a][t] \in SUBSET PostKeys
      BY <1>a, <3>1 DEF SeenType
    <3> QED BY <1>1, <3>2 DEF StoreType, Job
  <2> DEFINE j == [job[h] EXCEPT !.todo = @ \ {t}, !.keys = job[h].keys \cup T]
  <2>3. CASE job' = [job EXCEPT ![h] = j]
    <3>1. j \in Job
      BY <2>2 DEF StoreType, Job
    <3>2. Moved(h, "lists")
      BY <1>4, <2>3, <3>1 DEF Moved, StoreType, Job, ReadSubscription, At
    <3> QED BY <1>0, <3>2
  <2>4. CASE \E cut \in Merge(job[h].keys \cup T) : Fetching(h, cut)
    BY <1>0, <1>1, <2>2, <2>4, FetchingMoved DEF Merge
  <2> QED BY <2>1, <2>3, <2>4 DEF StoreType
<1>5. CASE Fetch(h)
  <2>1. PICK k \in job[h].keys :
          \/ job' = [job EXCEPT ![h].pc = IF job[h].keys = {k} THEN "done" ELSE "fetch",
                                ![h].keys = @ \ {k}, ![h].got = @ \cup {k}]
          \/ \E st : Return(h, st)
    BY <1>5 DEF Fetch
  <2> DEFINE pc == IF job[h].keys = {k} THEN "done" ELSE "fetch"
             j == [job[h] EXCEPT !.pc = pc, !.keys = @ \ {k}, !.got = @ \cup {k}]
  <2>2. CASE job' = [job EXCEPT ![h].pc = pc, ![h].keys = @ \ {k}, ![h].got = @ \cup {k}]
    <3>1. job' = [job EXCEPT ![h] = j]
      BY <2>2 DEF StoreType
    <3>2. pc \in {"done", "fetch"}
      OBVIOUS
    <3> HIDE DEF pc
    <3>3. k \in PostKeys /\ pc \in Steps
      BY <3>2 DEF StoreType, Job, Steps
    <3>4. j \in Job
      BY <3>3 DEF StoreType, Job
    <3>5. Moved(h, pc)
      BY <3>1, <3>4 DEF Moved, StoreType, Job
    <3> QED BY <1>0, <3>2, <3>5
  <2> QED BY <1>0, <2>1, <2>2, ReturnMoved
<1> QED BY <1>2, <1>3, <1>4, <1>5

\* The jobs that begin, end or die are calm: only a dying Post or DeletePost is not quiet.
LEMMA BeginKept ==
  ASSUME StoreInv, WebType, NEW h \in Handlers, CallRpc(h) PROVE Kept
<1> DEFINE r == web[h].req
           c == [op |-> Head(web[h].todo), user |-> r.user, target |-> r.target, key |-> r.key]
<1>1. r \in RequestType /\ Head(web[h].todo) \in Ops
  BY DEF WebType, Entry, CallRpc
<1>2. NewJob(c, "user") \in Job
  BY <1>1 DEF NewJob, Job, Steps, RequestType
<1>3. /\ ~Busy(h) /\ UNCHANGED <<store, clock>>
      /\ job' = [job EXCEPT ![h] = NewJob(c, "user")]
  BY DEF CallRpc, Begin
<1>4. NewJob(c, "user").pc = "user" /\ NewJob(c, "user").op \in Ops
  BY <1>1 DEF NewJob
<1>5. Quiet
  BY <1>1, <1>2, <1>3, <1>4
     DEF Quiet, store, StoreInv, StoreType, Busy, Calm, Drafting, Deleting, Checked
<1> QED BY <1>5, QuietKept

LEMMA EndKept ==
  ASSUME StoreInv, NEW h \in Handlers, CallFails(h) \/ Answer(h) PROVE Kept
<1>1. /\ ~Busy(h) /\ UNCHANGED <<store, clock>>
      /\ job' \in {[job EXCEPT ![h] = NoJob], [g \in Handlers |-> IF g \in {h} THEN NoJob ELSE job[g]]}
  BY DEF CallFails, Answer, HandlersDie
<1>2. Quiet
  BY <1>1, NoJobType DEF Quiet, store, StoreInv, StoreType, Busy, Calm, Drafting, Deleting, Checked
<1> QED BY <1>2, QuietKept

-----------------------------------------------------------------------------
(* Steps that write.                                                       *)

\* A step after which there are at least the same users, no more listed posts and no more
\* posts about to be listed or deleted.
Shrinks ==
  /\ users \subseteq users' /\ users' \subseteq Users
  /\ subs' \in [Users -> SUBSET Users]
  /\ postlist' \in [Users -> SUBSET PostKeys]
  /\ \A u \in Users : postlist'[u] \subseteq postlist[u]
  /\ UNCHANGED clock
  /\ job' \in [Handlers -> Job]
  /\ \A g \in Handlers : job'[g] = job[g] \/ (Calm(job'[g]) /\ Checked(job'[g], users'))

LEMMA ShrinksInv == StoreInv /\ Shrinks => StoreInv'
<1> SUFFICES ASSUME StoreInv, Shrinks PROVE StoreInv'
  OBVIOUS
<1> USE DEF StoreInv, Shrinks
<1>1. StoreType'
  BY DEF StoreType
<1>2. JobsChecked'
  BY DEF JobsChecked, Checked
<1>3. \A g \in Handlers : /\ Drafting(job'[g]) => Drafting(job[g]) /\ job'[g] = job[g]
                          /\ Deleting(job'[g]) => Deleting(job[g]) /\ job'[g] = job[g]
  BY DEF Calm
<1>4. DraftsOwn'
  BY <1>3 DEF DraftsOwn
<1>5. ListsOld'
  BY <1>3 DEF ListsOld
<1>6. DeletedUnlisted'
  BY <1>3 DEF DeletedUnlisted
<1> QED BY <1>1, <1>2, <1>4, <1>5, <1>6

\* A handler that returns from a calm step leaves the drafts and the deletions.
LEMMA ReturnCalm ==
  ASSUME NEW h \in Handlers, Moved(h, "done"), Calm(job[h])
  PROVE  Drafts' = Drafts /\ Deletions' = Deletions
<1>1. \A g \in Handlers : job'[g] = job[g] \/ (Calm(job[g]) /\ Calm(job'[g]))
  BY DEF Moved, Calm, Drafting, Deleting
<1> QED BY <1>1, SameHandled DEF Calm, Drafting, Deleting, At, Drafts, Deletions

LEMMA CreateUserKept == ASSUME StoreInv, NEW h \in Handlers, CreateUser(h) PROVE Kept
<1> DEFINE u == job[h].user
<1>1. u \in Users /\ Calm(job[h]) /\ UNCHANGED <<subs, postlist, posts, clock>>
  BY DEF StoreInv, StoreType, Job, CreateUser, At, Calm, Drafting, Deleting
<1>2. users' \in {users, users \cup {u}}
  BY DEF CreateUser
<1>3. Moved(h, "done")
  BY ReturnMoved DEF CreateUser, StoreInv
<1>4. StoreInv'
  <2>1. Shrinks
    BY <1>1, <1>2, <1>3 DEF Shrinks, StoreInv, StoreType, Moved, Calm, Drafting, Deleting, Checked
  <2> QED BY <2>1, ShrinksInv
<1>5. Drafts' = Drafts /\ Deletions' = Deletions
  BY <1>1, <1>3, ReturnCalm
<1>6. FeedOfPosts!SignUp(u) \/ UNCHANGED FeedOfPosts!feed
  BY <1>1, <1>2, <1>5 DEF FeedOfPosts!SignUp, FeedOfPosts!feed, Drafts
<1>7. Unreadable' = Unreadable /\ Stray' = Stray
  BY <1>1, <1>5 DEF Drafts, Deletions, Unreadable, Stray, Listed
<1> QED BY <1>1, <1>4, <1>6, <1>7 DEF Kept, FeedOfPosts!Next

LEMMA SubscriptionsKept ==
  ASSUME StoreInv, NEW h \in Handlers, Subscribe(h) \/ Unsubscribe(h) PROVE Kept
<1> DEFINE u == job[h].user
           t == job[h].target
<1>1. u \in Users /\ t \in Users /\ Calm(job[h]) /\ UNCHANGED <<users, postlist, posts, clock>>
  BY DEF StoreInv, StoreType, Job, Subscribe, Unsubscribe, At, Calm, Drafting, Deleting
<1>2. {u, t} \subseteq users
  BY DEF StoreInv, JobsChecked, Checked, Subscribe, Unsubscribe, At
<1>3. \/ UNCHANGED subs
      \/ subs' = [subs EXCEPT ![u] = @ \cup {t}]
      \/ subs' = [subs EXCEPT ![u] = @ \ {t}]
  BY DEF Subscribe, Unsubscribe
<1>4. Moved(h, "done")
  BY ReturnMoved DEF Subscribe, Unsubscribe, StoreInv
<1>5. StoreInv'
  <2>1. Shrinks
    BY <1>1, <1>3, <1>4 DEF Shrinks, StoreInv, StoreType, Moved, Calm, Drafting, Deleting, Checked
  <2> QED BY <2>1, ShrinksInv
<1>6. Drafts' = Drafts /\ Deletions' = Deletions
  BY <1>1, <1>4, ReturnCalm
<1>7. FeedOfPosts!Follow(u, t) \/ FeedOfPosts!Unfollow(u, t) \/ UNCHANGED FeedOfPosts!feed
  BY <1>1, <1>2, <1>3, <1>6 DEF FeedOfPosts!Follow, FeedOfPosts!Unfollow, FeedOfPosts!feed, Drafts
<1>8. Unreadable' = Unreadable /\ Stray' = Stray
  BY <1>1, <1>6 DEF Drafts, Deletions, Unreadable, Stray, Listed
<1> QED BY <1>1, <1>5, <1>7, <1>8 DEF Kept, FeedOfPosts!Next

LEMMA PutPostKept == ASSUME StoreInv, FaultsType, NEW h \in Handlers, PutPost(h) PROVE Kept
<1> DEFINE k == [user |-> job[h].user, time |-> clock + 1]
           j == [job[h] EXCEPT !.pc = "append", !.key = k]
<1>1. /\ job[h].op = "Post" /\ job[h].pc = "put" /\ clock < MaxTime /\ clock' = clock + 1
      /\ UNCHANGED <<users, subs, postlist>>
  BY DEF PutPost, At
<1>2. job' = [job EXCEPT ![h] = j]
  BY DEF PutPost, StoreInv, StoreType
<1>3. clock \in Nat /\ MaxTime \in Nat /\ job[h].user \in users /\ job[h].user \in Users
  BY <1>1, StwAssumption DEF StoreInv, StoreType, JobsChecked, Checked, Job
<1>4. k \in PostKeys /\ k.user = job[h].user /\ k.time = clock + 1
  BY <1>1, <1>3 DEF PostKeys
<1>5. j \in Job /\ j.op = "Post" /\ j.user = job[h].user /\ j.pc = "append" /\ j.key = k
  BY <1>1, <1>4 DEF StoreInv, StoreType, Job, Steps
<1> HIDE DEF j, k
<1>6. \A g \in Handlers : job'[g] = IF g = h THEN j ELSE job[g]
  BY <1>2 DEF StoreInv, StoreType
<1>7. StoreInv'
  <2> USE DEF StoreInv
  <2>1. StoreType'
    BY <1>1, <1>2, <1>3, <1>5 DEF StoreType
  <2>2. JobsChecked'
    BY <1>1, <1>3, <1>5, <1>6 DEF JobsChecked, Checked, Ops
  <2>3. ASSUME NEW l \in PostKeys, l.time <= clock PROVE l # k /\ l.time <= clock'
    BY <1>1, <1>3, <1>4, <2>3 DEF PostKeys
  <2>4. DraftsOwn'
    BY <1>1, <1>3, <1>4, <1>5, <1>6, <2>3 DEF DraftsOwn, Drafting
  <2>5. ListsOld'
    BY <1>1, <1>5, <1>6, <2>3 DEF ListsOld, Drafting, StoreType
  <2>6. DeletedUnlisted'
    BY <1>1, <1>5, <1>6, <2>3 DEF DeletedUnlisted, Drafting, Deleting
  <2> QED BY <2>1, <2>2, <2>4, <2>5, <2>6
<1>8. Drafts' = Drafts \cup {k}
  BY <1>1, <1>5, <1>6 DEF Drafts, Handled, At
<1>9. Deletions' = Deletions
  BY <1>1, <1>5, <1>6, SameHandled DEF Deletions, At
<1>10. FeedOfPosts!Draft(job[h].user)
  BY <1>1, <1>3, <1>8 DEF FeedOfPosts!Draft, Drafts, k
<1>11. faults' = faults => posts' = posts \cup {k}
  BY NoFault DEF PutPost, k
<1>12. faults' = faults => Unreadable' \subseteq Unreadable /\ Stray' \subseteq Stray
  BY <1>1, <1>8, <1>9, <1>11 DEF Drafts, Deletions, Unreadable, Stray, Listed
<1> QED BY <1>3, <1>7, <1>10, <1>12 DEF Kept, FeedOfPosts!Next

LEMMA PostKept == ASSUME StoreInv, FaultsType, NEW h \in Handlers, Post(h) PROVE Kept
<1> DEFINE k == job[h].key
           listed == [postlist EXCEPT ![k.user] = @ \cup {k}]
<1>1. /\ Drafting(job[h]) /\ job[h].op = "Post" /\ k \in PostKeys /\ k.user \in Users /\ k.time <= clock
      /\ UNCHANGED <<users, subs, posts, clock>>
      /\ postlist' \in {postlist, listed}
      /\ faults' = faults => postlist' = listed
  BY NoFault DEF Post, At, Drafting, StoreInv, DraftsOwn, PostKeys
<1>2. Moved(h, "done")
  BY ReturnMoved DEF Post, StoreInv
<1>3. \A g \in Handlers \ {h} : job'[g] = job[g] /\ (Drafting(job[g]) => job[g].key # k)
  BY <1>1, <1>2 DEF Moved, StoreInv, DraftsOwn
<1>4. ~Drafting(job'[h]) /\ ~Deleting(job'[h])
  BY <1>2 DEF Moved, Drafting, Deleting
<1> HIDE DEF k
<1>5. StoreInv'
  <2> USE DEF StoreInv
  <2>1. StoreType'
    BY <1>1, <1>2 DEF StoreType, Moved
  <2>2. JobsChecked'
    BY <1>1, <1>2 DEF JobsChecked, Checked, Moved
  <2>3. DraftsOwn'
    BY <1>1, <1>3, <1>4 DEF DraftsOwn
  <2>4. \A u \in Users : postlist'[u] \subseteq postlist[u] \cup {k} /\ (u # k.user => postlist'[u] = postlist[u])
    BY <1>1 DEF StoreType
  <2>5. ListsOld'
    BY <1>1, <1>3, <1>4, <2>4 DEF ListsOld
  <2>6. \A g \in Handlers : Deleting(job[g]) => job[g].key # k
    BY <1>1 DEF DeletedUnlisted, k
  <2>7. DeletedUnlisted'
    BY <1>1, <1>3, <1>4, <2>4, <2>6 DEF DeletedUnlisted
  <2> QED BY <2>1, <2>2, <2>3, <2>5, <2>7
<1>6. k \in Drafts /\ Drafts' = Drafts \ {k}
  BY <1>1, <1>3, <1>4 DEF Drafts, Handled, At, Drafting, k
<1>7. Deletions' = Deletions
  BY <1>1, <1>3, <1>4, SameHandled DEF Deletions, At, Deleting
<1>8. FeedOfPosts!Publish(k) \/ FeedOfPosts!Abandon({k})
  BY <1>1, <1>6 DEF FeedOfPosts!Publish, FeedOfPosts!Abandon, Drafts
<1>9. FeedOfPosts!Next
  BY <1>6, <1>8 DEF FeedOfPosts!Next, Drafts
<1>10. faults' = faults => Listed' = Listed \cup {k}
  BY <1>1 DEF Listed, StoreInv, StoreType
<1>11. faults' = faults => Unreadable' \subseteq Unreadable /\ Stray' \subseteq Stray
  BY <1>1, <1>6, <1>7, <1>10 DEF Drafts, Deletions, Unreadable, Stray
<1> QED BY <1>5, <1>9, <1>11 DEF Kept

LEMMA UnlistKept == ASSUME StoreInv, FaultsType, NEW h \in Handlers, Unlist(h) PROVE Kept
<1> DEFINE k == job[h].key
           unlisted == [postlist EXCEPT ![k.user] = @ \ {k}]
<1>1. /\ job[h].op = "DeletePost" /\ job[h].pc = "unlist" /\ k \in PostKeys /\ k.user \in Users
      /\ UNCHANGED <<users, subs, posts, clock>>
      /\ postlist' \in {postlist, unlisted}
  BY DEF Unlist, At, StoreInv, JobsChecked, Checked, PostKeys
<1> HIDE DEF k
<1>2. /\ postlist' \in [Users -> SUBSET PostKeys]
      /\ \A u \in Users : postlist'[u] \subseteq postlist[u]
  BY <1>1 DEF StoreInv, StoreType
<1>3. UNCHANGED postlist \/ (k \in postlist[k.user] /\ postlist' = unlisted)
  <2>1. k \notin postlist[k.user] => unlisted = postlist
    BY <1>1 DEF StoreInv, StoreType
  <2> QED BY <1>1, <2>1
<1>4. k \in postlist[k.user] /\ postlist' = unlisted /\ Drafts' = Drafts => FeedOfPosts!Next
  <2>1. k \in postlist[k.user] /\ postlist' = unlisted /\ Drafts' = Drafts => FeedOfPosts!Retract(k)
    BY <1>1 DEF FeedOfPosts!Retract, Drafts
  <2> QED BY <1>1, <2>1 DEF FeedOfPosts!Next
<1>5. CASE Moved(h, "done") /\ (faults' = faults => UNCHANGED postlist)
  <2>1. Shrinks
    BY <1>1, <1>2, <1>5 DEF Shrinks, StoreInv, StoreType, Moved, Calm, Drafting, Deleting, Checked
  <2>2. Drafts' = Drafts /\ Deletions' = Deletions
    BY <1>1, <1>5, ReturnCalm DEF Calm, Drafting, Deleting
  <2>3. faults' = faults => Unreadable' = Unreadable /\ Stray' = Stray
    BY <1>1, <1>5, <2>2 DEF Drafts, Deletions, Unreadable, Stray, Listed
  <2>4. UNCHANGED postlist => UNCHANGED FeedOfPosts!feed
    BY <1>1, <2>2 DEF FeedOfPosts!feed, Drafts
  <2> QED BY <1>4, <1>3, <2>1, <2>2, <2>3, <2>4, ShrinksInv DEF Kept
<1>6. CASE Moved(h, "delete") /\ k \in postlist[k.user] /\ postlist' = unlisted
  <2>1. /\ job'[h].op = "DeletePost" /\ job'[h].pc = "delete" /\ job'[h].key = k
        /\ job'[h].user = job[h].user /\ job[h].user \in users
        /\ job' \in [Handlers -> Job]
        /\ \A g \in Handlers \ {h} : job'[g] = job[g]
    BY <1>1, <1>6 DEF Moved, k, StoreInv, JobsChecked, Checked
  <2>2. \A u \in Users : k \notin postlist'[u]
    BY <1>1, <1>6 DEF StoreInv, StoreType, ListsOld
  <2>3. k.time <= clock /\ \A g \in Handlers : Drafting(job[g]) => job[g].key # k
    BY <1>1, <1>6 DEF StoreInv, ListsOld
  <2>4. \A g \in Handlers : Drafting(job'[g]) => Drafting(job[g]) /\ job'[g] = job[g]
    BY <2>1 DEF Drafting
  <2>5. StoreInv'
    <3> USE DEF StoreInv
    <3>1. StoreType'
      BY <1>1, <1>2, <2>1 DEF StoreType
    <3>2. JobsChecked'
      BY <1>1, <2>1 DEF JobsChecked, Checked, Ops
    <3>3. DraftsOwn' /\ ListsOld'
      BY <1>1, <1>2, <2>4 DEF DraftsOwn, ListsOld
    <3>4. DeletedUnlisted'
      BY <1>1, <1>2, <2>1, <2>2, <2>3, <2>4 DEF DeletedUnlisted
    <3> QED BY <3>1, <3>2, <3>3, <3>4
  <2>6. Drafts' = Drafts
    BY <1>1, <2>1, SameHandled DEF Drafts, At
  <2>7. Deletions' = Deletions \cup {k}
    BY <1>1, <2>1 DEF Deletions, Handled, At
  <2>8. Listed' = Listed \ {k}
    BY <1>1, <1>6, <2>2 DEF Listed, StoreInv, StoreType
  <2>9. Unreadable' \subseteq Unreadable /\ Stray' \subseteq Stray
    BY <1>1, <2>6, <2>7, <2>8 DEF Drafts, Deletions, Unreadable, Stray
  <2> QED BY <1>4, <1>6, <2>5, <2>6, <2>9 DEF Kept
<1>7. \/ Moved(h, "done") /\ (faults' = faults => UNCHANGED postlist)
      \/ Moved(h, "delete") /\ k \in postlist[k.user] /\ postlist' = unlisted
  BY GotoMoved, ReturnMoved, NoFault DEF Unlist, StoreInv, Steps, k
<1> QED BY <1>7, <1>5, <1>6

LEMMA DeletePostKept == ASSUME StoreInv, FaultsType, NEW h \in Handlers, DeletePost(h) PROVE Kept
<1> DEFINE k == job[h].key
<1>1. /\ Deleting(job[h]) /\ UNCHANGED <<users, subs, postlist, clock>>
      /\ posts' \in {posts, posts \ {k}}
      /\ faults' = faults => k \notin posts'
  BY NoFault DEF DeletePost, Deleting, At
<1>2. Moved(h, "done")
  BY ReturnMoved DEF DeletePost, StoreInv
<1>3. k \notin Listed /\ k \notin Drafts
  BY <1>1 DEF StoreInv, DeletedUnlisted, Listed, Drafts, Handled, At, Drafting
<1>4. StoreInv'
  <2>1. Shrinks
    BY <1>1, <1>2 DEF Shrinks, StoreInv, StoreType, Moved, Calm, Drafting, Deleting, Checked
  <2> QED BY <2>1, ShrinksInv
<1>5. Drafts' = Drafts
  BY <1>1, <1>2, SameHandled DEF Drafts, Moved, Deleting, At
<1>6. Deletions \ {k} \subseteq Deletions'
  BY <1>2 DEF Deletions, Handled, At, Moved
<1>7. UNCHANGED FeedOfPosts!feed
  BY <1>1, <1>5 DEF FeedOfPosts!feed, Drafts
<1>8. Listed' = Listed
  BY <1>1 DEF Listed
<1> HIDE DEF k
<1>9. faults' = faults => Unreadable' \subseteq Unreadable /\ Stray' \subseteq Stray
  BY <1>1, <1>3, <1>5, <1>6, <1>8 DEF Drafts, Deletions, Unreadable, Stray
<1> QED BY <1>4, <1>7, <1>9 DEF Kept

\* The posts that dying handlers were about to list are given up.
LEMMA AppDiesKept == ASSUME StoreInv, FaultsType, NEW a \in Apps, AppDies(a) PROVE Kept
<1> DEFINE D == {h \in Handlers : Busy(h) /\ AppOf[job[h].user] = a}
<1>1. /\ UNCHANGED <<store, clock>> /\ faults' # faults
      /\ job' = [h \in Handlers |-> IF h \in D THEN NoJob ELSE job[h]]
  BY NoFault DEF AppDies, HandlersDie
<1> HIDE DEF D
<1>2. StoreInv'
  <2>1. Shrinks
    BY <1>1, NoJobType DEF Shrinks, StoreInv, StoreType, store, Calm, Drafting, Deleting, Checked
  <2> QED BY <2>1, ShrinksInv
<1>3. Drafts' \subseteq Drafts
  BY <1>1, NoJobType DEF Drafts, Handled, At
<1>4. FeedOfPosts!Abandon(Drafts \ Drafts')
  BY <1>1, <1>3 DEF FeedOfPosts!Abandon, Drafts, store
<1>5. FeedOfPosts!Next
  BY <1>4 DEF FeedOfPosts!Next, Drafts
<1> QED BY <1>1, <1>2, <1>5 DEF Kept

-----------------------------------------------------------------------------
WebInv == StoreInv /\ WebType /\ FaultsType /\ SeenType

LEMMA WebInit == Init => WebInv /\ FeedOfPosts!Init
<1> SUFFICES ASSUME Init PROVE WebInv /\ FeedOfPosts!Init
  OBVIOUS
<1>1. /\ StwInit /\ \A h \in Handlers : job[h] = NoJob
  BY DEF Init, StwInit
<1>2. StoreInv
  BY <1>1, NoJobType, StwAssumption DEF StwInit, StoreInv, StoreType, JobsChecked, Checked,
     DraftsOwn, ListsOld, DeletedUnlisted, Drafting, Deleting
<1>3. Handled("Post", "append") = {}
  BY <1>1, NoJobType DEF Handled, At
<1>4. FeedOfPosts!Init
  BY <1>1, <1>3 DEF StwInit, FeedOfPosts!Init
<1>5. SeenType
  BY <1>1 DEF StwInit, SeenType
<1> QED BY <1>1, <1>2, <1>4, <1>5, WebTypeInit DEF WebInv, FaultsType, StwInit

LEMMA WebStep == WebInv /\ [Next]_vars => WebInv' /\ Kept
<1> SUFFICES ASSUME WebInv, [Next]_vars PROVE Kept
  BY WebTypeStep, FaultsStep, SeenStep DEF WebInv, Kept, StoreInv
<1> USE DEF WebInv
<1>1. ASSUME NEW h \in Handlers, Serve(h) PROVE Kept
  BY <1>1, NoUserKept, IsUserKept, CreateUserKept, GetTargetKept, SubscriptionsKept, PutPostKept,
     PostKept, UnlistKept, DeletePostKept, ReadsKept DEF Serve, Step
<1>2. ASSUME NEW h \in Handlers, CallRpc(h) \/ CallFails(h) \/ Answer(h) PROVE Kept
  BY <1>2, BeginKept, EndKept
<1>3. ASSUME UNCHANGED <<users, subs, postlist, posts, clock, job>> PROVE Kept
  <2>1. Quiet
    BY <1>3 DEF Quiet, StoreInv, StoreType
  <2> QED BY <2>1, QuietKept
<1>4. ASSUME NEW a \in Apps, AppDies(a) PROVE Kept
  BY <1>4, AppDiesKept
<1> QED BY <1>1, <1>2, <1>3, <1>4
        DEF Next, vars, stwVars, store, Accept, Route, Dial, DialFatal, MapRace, WebDies, AppRestart, Forgotten,
            CopyGoes, Forget, ForgetSubs, ForgetList, ForgetPost, WebRestart

LEMMA WebInvariance == Spec => []WebInv
BY WebInit, WebStep, PTL DEF Spec

\* The app servers under the web server implement Feed (IsFeed): whatever storage calls of
\* Subscribe, Post, DeletePost interleave, fail or die half way, they come to single steps.
THEOREM WebImplementsFeed == Spec => IsFeed
<1>1. WebInv /\ [Next]_vars => [FeedOfPosts!Next]_FeedOfPosts!feed
  BY WebStep DEF Kept
<1> QED BY WebInit, WebInvariance, <1>1, PTL DEF Spec, IsFeed, FeedOfPosts!Spec

\* Without a fault, no step of Post or DeletePost makes a listed post unreadable.
THEOREM ListedPostsStored == Spec => ListedPostStored
<1>1. WebInv /\ [Next]_vars => [faults' = faults => Unreadable' \subseteq Unreadable]_vars
  BY WebStep DEF Kept
<1> QED BY WebInvariance, <1>1, PTL DEF Spec, ListedPostStored

\* Without a fault, no step of Post or DeletePost leaves contents that no list names.
THEOREM NoPostsStray == Spec => NoStrayPosts
<1>1. WebInv /\ [Next]_vars => [faults' = faults => Stray' \subseteq Stray]_vars
  BY WebStep DEF Kept
<1> QED BY WebInvariance, <1>1, PTL DEF Spec, NoStrayPosts
=============================================================================
